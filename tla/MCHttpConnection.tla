--------------------------- MODULE MCHttpConnection ---------------------------
(* Requests without and with a body, for a file, a directory and neither; two *)
(* requests on a connection that is kept; lines that are malformed.            *)
EXTENDS HttpConnection

EOL == <<CR, LF>>

AllStreams ==
  { <<Get(1)>> \o EOL \o EOL,
    <<Get(1)>> \o EOL \o <<KeepAlive>> \o EOL \o EOL \o <<Get(2)>> \o EOL \o EOL,
    <<Get(2)>> \o EOL \o <<Length(2)>> \o EOL \o EOL \o <<Other, Other>>,
    <<Get(3)>> \o EOL \o <<KeepAlive>> \o EOL \o EOL \o <<Get(4)>> \o EOL \o EOL,
    <<Other>> \o EOL,
    <<Get(1), LF>> \o EOL,
    <<Get(1), CR, Other>> \o EOL }
=============================================================================
