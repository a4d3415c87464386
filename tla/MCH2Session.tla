----------------------------- MODULE MCH2Session -----------------------------
(***************************************************************************)
(* Peers for the HTTP/2 session: one uploads, one downloads under tight    *)
(* flow control, one sends every kind of frame.                            *)
(***************************************************************************)
EXTENDS H2Session

Settings(windows, frames) ==
    [type : {"SETTINGS"}, ack : {FALSE}, window : windows, frame : frames]

Headers(ids, end_headers, end_stream, blocks) ==
    [type : {"HEADERS"}, stream : ids, end_headers : end_headers,
     end_stream : end_stream, block : blocks]

Continuation(ids, end_headers, blocks) ==
    [type : {"CONTINUATION"}, stream : ids, end_headers : end_headers,
     end_stream : {FALSE}, block : blocks]

Data(ids, sizes, pads) ==
    [type : {"DATA"}, stream : ids, data : sizes, pad : pads, end_stream : BOOLEAN]

Update(ids, increments) ==
    [type : {"WINDOW_UPDATE"}, stream : ids, n : increments]

Uploader ==
    [frames |-> Settings({1}, {2}) \cup Headers({1, 3}, BOOLEAN, {FALSE}, {"valid"})
                \cup Continuation({1, 3}, {TRUE}, {"valid"})
                \cup Data({1}, {1, 3}, {0, 1}) \cup Data({3}, {3}, {0}),
     responses |-> {<<1, 0>>}, limit |-> 8]

Downloader ==
    [frames |-> Settings({0, 6}, {2}) \cup Headers({1, 3}, {TRUE}, {TRUE}, {"valid"})
                \cup Update({0, 1}, {2}) \cup [type : {"RST_STREAM"}, stream : {1}],
     responses |-> {<<1, 0>>, <<3, 3>>}, limit |-> 6]

Careless ==
    [frames |-> Settings({2}, {2}) \cup {[type |-> "SETTINGS", ack |-> TRUE]}
                \cup Headers({1}, BOOLEAN, BOOLEAN, {"valid", "invalid", "undecodable"})
                \cup Continuation({1, 3}, BOOLEAN, {"valid"})
                \cup Data({1, 3}, {2}, {0}) \cup Update({0, 1, 3}, {0, 1, 9})
                \cup [type : {"PING"}, ack : BOOLEAN]
                \cup [type : {"RST_STREAM"}, stream : {1, 3}]
                \cup [type : {"GOAWAY", "PRIORITY", "MALFORMED"}],
     responses |-> {<<1, 2>>}, limit |-> 6]

AllPeers == {Uploader, Downloader, Careless}
OnlyDownloader == {Downloader}
==============================================================================
