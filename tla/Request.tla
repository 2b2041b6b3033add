------------------------------- MODULE Request -------------------------------
(***************************************************************************)
(* One HTTP request on its way: read by client_manager, served if it asks  *)
(* for the PAC file, else put into a tcp_connect frame, read off the main  *)
(* transport by the host as demo/server.cpp does, checked by the recv() of *)
(* server_manager, and taken apart there for the host and port to connect  *)
(* to.  Text is a sequence of tokens, cut so that the code's find() meets  *)
(* the same places; lengths are in bytes and have the width of their       *)
(* fields, in the byte order of the machine that writes them.              *)
(***************************************************************************)
EXTENDS Integers, Sequences, SequencesExt

CONSTANTS
  DataMaxLength,   \* data_max_length
  Sizes,           \* lengths of a request, the body read with it included
  Hosts, Ports,    \* what stands before and behind the colon of an authority
  Paths            \* what follows it, as sequences of tokens

\* What the code looks for in a request.
Blank == " "
HostField == "Host: "
Searched == {Blank, ":", "\r\n", HostField, "http://", "https://"}

\* Frames below 16 MB, so that the proofs need three bytes of a length; 65281 is
\* what recv() would take for 2 plus a length of 65534 from a machine of the
\* other byte order.
ASSUME SizesAssumption ==
  /\ DataMaxLength \in Nat /\ DataMaxLength < 65281
  /\ \A n \in Sizes : n \in Nat /\ n > 0 /\ n < 16777214

\* A path begins with a slash and has no blank; one with a URL in it is left
\* out.
ASSUME TextAssumption ==
  /\ Hosts \cup Ports \subseteq STRING \ Searched
  /\ Paths \subseteq Seq((STRING \ Searched) \cup {":"}) /\ <<"/">> \in Paths
  /\ \A path \in Paths : path # <<>> /\ path[1] # ":"

ByteOrders == {"little", "big"}

\* What a browser asks for.  absolute: through the proxy; authority: a
\* CONNECT tunnel; origin: the proxy is taken for the web server.  named: the
\* header has a Host line.
Intents == { i \in
  [form : {"absolute", "authority", "origin"}, scheme : {"http://", "https://"},
   host : Hosts, port : Ports \cup {"default"}, path : Paths, named : BOOLEAN] :
  /\ i.form = "authority" => i.scheme = "https://" /\ i.port # "default" /\ i.path = <<"/">>
  /\ i.form = "origin" => i.scheme = "http://" }

HostAndPort(i) == IF i.port = "default" THEN <<i.host>> ELSE <<i.host, ":", i.port>>

Target(i) ==
  CASE i.form = "absolute" -> <<i.scheme>> \o HostAndPort(i) \o i.path
    [] i.form = "authority" -> HostAndPort(i)
    [] i.form = "origin" -> i.path

\* The header a browser writes for it.
Header(i) ==
  <<IF i.form = "authority" THEN "CONNECT" ELSE "GET", Blank>> \o Target(i)
    \o <<Blank, "HTTP/1.1", "\r\n">>
    \o (IF i.named THEN <<HostField>> \o HostAndPort(i) \o <<"\r\n">> ELSE <<>>)
    \o <<"\r\n">>

WantedPort(i) ==
  CASE i.port # "default" -> i.port
    [] i.port = "default" /\ i.scheme = "http://" -> "80"
    [] i.port = "default" /\ i.scheme = "https://" -> "443"

VARIABLES
  intent, size,     \* what the browser wants, and how long its request is
  clientOrder, serverOrder,   \* byte order of the two machines
  stage,            \* read, pac, sent, arrived, rejected, garbled, accepted, tunnel,
                    \* forwarded, stuck
  frame,            \* the two length fields of the tcp_connect frame
  arrived,          \* bytes the host read behind its header
  reqLen,           \* how much of them the server takes for the request
  url, port         \* what the server resolves

vars == <<intent, size, clientOrder, serverOrder, stage, frame, arrived, reqLen, url, port>>
-----------------------------------------------------------------------------
\* A number in a field of w bytes, 2 or 4, and back.
Weight == <<1, 256, 65536, 16777216>>

Bytes(order, n, w) ==
  [b \in 1 .. w |-> (n \div Weight[IF order = "little" THEN b ELSE w + 1 - b]) % 256]

Value(order, bytes) ==
  LET w     == Len(bytes)
      at(k) == Weight[k] * bytes[IF order = "little" THEN k ELSE w + 1 - k]
  IN  at(1) + at(2) + (IF w = 4 THEN at(3) + at(4) ELSE 0)

\* std::string::find of one token, 0 for npos.
Find(text, token, from) == SelectInSubSeq(text, from, Len(text), LAMBDA t : t = token)

StartsWith(text, s) == IsPrefix(s, text)

\* sub_string: what is between the first s and the next e.
SubString(text, s, e) ==
  LET from == Find(text, s, 1)
      to   == Find(text, e, from + 1)
  IN  IF from = 0 \/ to = 0 THEN <<>> ELSE SubSeq(text, from + 1, to - 1)

LocalHosts == {"127.0.0.1", "localhost"}

\* A host that only ends in one of these is found too; it is left out.
HasLocalHost(host) ==
  \E i \in 1 .. Len(host) - 1 : host[i] \in LocalHosts /\ host[i + 1] = ":"

\* Mutant: the second of the paths ends where the first two do.
IsPacRequestWithoutQuery(text) ==
  LET GetPac(prefix) == StartsWith(text, <<"GET", Blank>> \o prefix \o <<"/proxy.pac", Blank>>)
  IN  /\ HasLocalHost(SubString(text, HostField, "\r\n"))
      /\ GetPac(<<>>) \/ \E local \in LocalHosts : GetPac(<<"http://", local, ":", "1080">>)

\* The request is for this proxy's PAC file.
IsPacRequest(text) ==
  /\ HasLocalHost(SubString(text, HostField, "\r\n"))
  /\ \/ \E local \in LocalHosts :
          StartsWith(text, <<"GET", Blank, "http://", local, ":", "1080", "/proxy.pac", Blank>>)
     \/ StartsWith(text, <<"GET", Blank, "/proxy.pac">>)

\* What follows the first colon from position i on, if there is one.
AfterColon(line, i, default) ==
  LET colon == Find(line, ":", i)
  IN  IF colon = 0 THEN default ELSE SubSeq(line, colon + 1, Len(line))

\* Mutant: https has no default of its own.
GetPortHttpOnly(text) ==
  LET line == SubString(text, Blank, Blank)
      http == Find(line, "http://", 1)
  IN  IF http # 0 THEN AfterColon(line, http + 1, <<"80">>) ELSE AfterColon(line, 1, <<"80">>)

\* get_port of on_connect().
GetPort(text) ==
  LET line  == SubString(text, Blank, Blank)
      http  == Find(line, "http://", 1)
      https == Find(line, "https://", 1)
  IN  CASE http # 0 -> AfterColon(line, http + 1, <<"80">>)
        [] http = 0 /\ https # 0 -> AfterColon(line, https + 1, <<"443">>)
        [] OTHER -> AfterColon(line, 1, <<"80">>)

\* The Host line up to its colon.
GetUrl(text) ==
  LET host  == SubString(text, HostField, "\r\n")
      colon == Find(host, ":", 1)
  IN  IF colon = 0 THEN host ELSE SubSeq(host, 1, colon - 1)
-----------------------------------------------------------------------------
\* deal_with_data, with connect_url_port.
DealWithData ==
  /\ stage = "read"
  /\ IF IsPacRequest(Header(intent))
       THEN stage' = "pac" /\ UNCHANGED frame
       ELSE /\ stage' = "sent"
            /\ frame' = [len    |-> Bytes(clientOrder, size + 2, 4),
                         reqLen |-> Bytes(clientOrder, size, 2)]
  /\ UNCHANGED <<intent, size, clientOrder, serverOrder, arrived, reqLen, url, port>>

\* do_read() of the demo's host: as many bytes as the header says in the order
\* of this machine, of this frame and of what follows it; or fewer, here by
\* one, when the transport ends meanwhile, an error nobody looks at.  (The
\* demo's buffers hold data_max_length bytes: this host has room for more.)
HostReads ==
  /\ stage = "sent"
  /\ stage' = "arrived"
  /\ LET len == Value(serverOrder, frame.len)
     IN  arrived' \in {len - 1, len}
  /\ UNCHANGED <<intent, size, clientOrder, serverOrder, frame, reqLen, url, port>>

\* What recv() takes of a frame that passed its two checks.
Take(len) ==
  /\ reqLen' = Value(serverOrder, frame.reqLen)
  /\ stage' = IF reqLen' + 2 = len THEN "accepted" ELSE "garbled"

\* Mutant: the frame's length is not held against data_max_length.
RecvUnlimited ==
  LET len == Value(serverOrder, frame.len)
  IN  /\ stage = "arrived"
      /\ IF len # arrived
           THEN stage' = "rejected" /\ UNCHANGED reqLen
           ELSE Take(len)
      /\ UNCHANGED <<intent, size, clientOrder, serverOrder, frame, arrived, url, port>>

\* recv() of the server: the two checks, and the length of the request, which
\* is asserted to be that of the frame; what follows if not is left out.
Recv ==
  LET len == Value(serverOrder, frame.len)
  IN  /\ stage = "arrived"
      /\ IF len # arrived \/ len > DataMaxLength
           THEN stage' = "rejected" /\ UNCHANGED reqLen
           ELSE Take(len)
      /\ UNCHANGED <<intent, size, clientOrder, serverOrder, frame, arrived, url, port>>

\* on_connect(): what to resolve; then, connected, a CONNECT is a tunnel and
\* any other request is written, unless do_write() refuses it, which nobody
\* looks at.
OnConnect ==
  LET text == Header(intent)
  IN  /\ stage = "accepted"
      /\ url' = GetUrl(text)
      /\ port' = GetPort(text)
      /\ stage' = IF StartsWith(text, <<"CONNECT", Blank>>) THEN "tunnel"
                  ELSE IF reqLen <= DataMaxLength THEN "forwarded" ELSE "stuck"
      /\ UNCHANGED <<intent, size, clientOrder, serverOrder, frame, arrived, reqLen>>

Init ==
  /\ intent \in Intents /\ size \in Sizes
  /\ clientOrder \in ByteOrders /\ serverOrder \in ByteOrders
  /\ stage = "read"
  /\ frame = <<>> /\ arrived = 0 /\ reqLen = 0
  /\ url = <<>> /\ port = <<>>

Next == DealWithData \/ HostReads \/ Recv \/ OnConnect

Spec == Init /\ [][Next]_vars
-----------------------------------------------------------------------------
(* Properties.                                                             *)

\* A request goes through whole or not at all, whatever its length, the byte
\* orders of the two machines and the end of the transport: what is connected
\* for is not cut by the 16 bits of its length, nor taken from a frame that was
\* not all there, and is never too long for do_write(), which would leave the
\* connection waiting for ever.  Between machines of one order the two length
\* fields never disagree.
WholeOrNotAtAll ==
  /\ stage \in {"tunnel", "forwarded"} => reqLen = size /\ arrived = size + 2
  /\ stage = "garbled" => clientOrder # serverOrder
  /\ stage # "stuck"

\* What sunny_common.h says of the header of a frame: its numbers "transfer with
\* big endian" (14), and len "cannot over than data_max_length" (25), which
\* recv() asserts too.
HeaderAsDocumented ==
  stage = "sent" =>
    LET len == Value("big", frame.len)
    IN  len = size + 2 /\ len <= DataMaxLength

\* The port of i is what the browser meant: that of a CONNECT, or the one of
\* the scheme if nothing in the first line has a colon.
PortIsClear(i) ==
  \/ i.form = "authority"
  \/ i.port = "default" /\ ~Contains(i.path, ":")

\* What is taken for it otherwise: an explicit port together with the path
\* (browsers write it even if it is "/"), and what follows a colon in the path.
Misread(i) ==
  IF i.form = "absolute" /\ i.port # "default"
    THEN <<i.port>> \o i.path
    ELSE AfterColon(i.path, 1, <<"80">>)

\* The server resolves the host of the Host line, whatever the first line
\* says, and the port the browser meant just when that is clear.
TargetIsMeant ==
  stage \in {"tunnel", "forwarded"} =>
    /\ url = IF intent.named THEN <<intent.host>> ELSE <<>>
    /\ port = IF PortIsClear(intent) THEN <<WantedPort(intent)>> ELSE Misread(intent)

\* The URL that start() puts into the system settings is served for every
\* local port but 80, which browsers leave out of the Host line; and what is
\* served is for this machine.
PacIsServed ==
  /\ stage \notin {"read", "pac"} =>
       ~ /\ intent.form = "origin" /\ intent.host \in LocalHosts /\ intent.named
         /\ Head(intent.path) = "/proxy.pac" /\ intent.port # "default"
  /\ stage = "pac" => intent.host \in LocalHosts /\ Head(intent.path) = "/proxy.pac"
=============================================================================
