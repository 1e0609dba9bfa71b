----------------------------- MODULE GetAddrInfo -----------------------------
(* libgai: getaddrinfo, from the checks of its arguments to the list it        *)
(* returns, with every allocation able to fail; and the functions of lib that  *)
(* go through the list: tcp_connect, tcp_listen, udp_client, udp_connect,      *)
(* udp_server, host_serv, and the tcp_listen of my-src/Chapter-11.             *)
EXTENDS Integers, Sequences, SequencesExt

VARIABLES
  caller,   \* the function that calls getaddrinfo, or "program"
  host, serv,
  hints,    \* [family, socktype, passive, canon]
  pc,
  search,   \* search[] from the current entry on: [host, family]
  nsearch,
  addrs,    \* [addr, family] still to be put into the list for this entry
  list,     \* the addrinfo structures, aihead first
  canon,    \* "none", "allocated", "attached" to the first structure
  passes,   \* calls of ga_port to come: [socktype, port]
  ai,       \* place in the list of ga_port's loop and of the caller's
  nfound,
  error,    \* getaddrinfo's return value: "0", EAI_...
  heap,     \* allocated objects that have not been freed
  fds       \* open sockets

vars == <<caller, host, serv, hints, pc, search, nsearch, addrs, list, canon, passes,
          ai, nfound, error, heap, fds>>
args == <<caller, host, serv, hints>>

-----------------------------------------------------------------------------
(* Arguments, and the resolver's data                                        *)

Hosts == {"none", "v4num", "v6num", "multi", "v4only", "/local"}
Servs == {"none", "number", "tcp", "udp", "tcpudp", "/path"}
Hints == [family : {"UNSPEC", "INET", "INET6", "LOCAL", "other"},
          socktype : {"0", "STREAM", "DGRAM", "RAW"},
          passive : BOOLEAN, canon : BOOLEAN]

TcpHints(passive) == [family |-> "UNSPEC", socktype |-> "STREAM", passive |-> passive, canon |-> FALSE]
UdpHints(passive) == [TcpHints(passive) EXCEPT !.socktype = "DGRAM"]
TcpConnect == caller = "tcp_connect" /\ hints = TcpHints(FALSE)
TcpListen  == caller \in {"tcp_listen", "my_tcp_listen"} /\ hints = TcpHints(TRUE)
UdpClient  == caller = "udp_client" /\ hints = UdpHints(FALSE)
UdpConnect == caller = "udp_connect" /\ hints = UdpHints(FALSE)
UdpServer  == caller = "udp_server" /\ hints = UdpHints(TRUE)
HostServ   == caller = "host_serv" /\ hints.canon /\ ~hints.passive
Program    == caller = "program"

Init ==
  /\ host \in Hosts /\ serv \in Servs /\ hints \in Hints
  /\ caller \in {"tcp_connect", "tcp_listen", "my_tcp_listen", "udp_client",
                 "udp_connect", "udp_server", "host_serv", "program"}
  /\ \/ TcpConnect \/ TcpListen \/ UdpClient \/ UdpConnect \/ UdpServer
     \/ HostServ \/ Program
  /\ pc = "echeck" /\ search = <<>> /\ nsearch = 0 /\ addrs = <<>> /\ list = <<>>
  /\ canon = "none" /\ passes = <<>> /\ ai = 1 /\ nfound = 0 /\ error = "0"
  /\ heap = 0 /\ fds = 0

\* Address strings and the addresses they stand for.
Numeric == [v4num |-> "INET", v6num |-> "INET6", v4any |-> "INET", v6any |-> "INET6",
            v6loop |-> "INET6"]

\* gethostbyname2, or gethostbyname with RES_USE_INET6, which maps IPv4 addresses
\* for a host that has no others.
Lookup(h, family, mapped) ==
  CASE family = "INET"  /\ h = "multi"     -> <<"a1", "a2">>
    [] family = "INET6" /\ h = "multi"     -> <<"b1">>
    [] family = "INET"  /\ h = "v4only"    -> <<"c1">>
    [] family = "INET6" /\ h = "v4only"    -> IF mapped THEN <<"mapped c1">> ELSE <<>>
    [] family = "INET"  /\ h = "localhost" -> <<"loop">>
    [] OTHER -> <<>>

\* getservbyname.
Supports(s, proto) == s \in {proto, "tcpudp"}

-----------------------------------------------------------------------------
(* The first checks                                                          *)

Fail(e) == error' = e /\ pc' = "bad"

Echeck ==
  /\ pc = "echeck"
  /\ IF host = "none" /\ serv = "none" THEN Fail("EAI_NONAME")
     ELSE IF hints.family = "other" THEN Fail("EAI_FAMILY")
     ELSE IF hints.family = "LOCAL" /\ hints.socktype = "RAW" THEN Fail("EAI_SOCKTYPE")
     ELSE /\ pc' = IF host = "/local" /\ serv = "/path" THEN "unix" ELSE "nsearch"
          /\ UNCHANGED error
  /\ UNCHANGED <<args, search, nsearch, addrs, list, canon, passes, ai, nfound, heap, fds>>

\* ga_nsearch: IPv6 first, then IPv4.  A Unix domain family reaches err_quit.
HostFor(family) ==
  IF host # "none" THEN host
  ELSE CASE family = "INET"  -> IF hints.passive THEN "v4any" ELSE "localhost"
         [] family = "INET6" -> IF hints.passive THEN "v6any" ELSE "v6loop"
Searches ==
  CASE hints.family = "UNSPEC" -> <<"INET6", "INET">>
    [] hints.family = "LOCAL"  -> <<>>
    [] OTHER                   -> <<hints.family>>
Nsearch ==
  /\ pc = "nsearch"
  /\ search' = [k \in 1 .. Len(Searches) |->
                  [host |-> HostFor(Searches[k]), family |-> Searches[k]]]
  /\ nsearch' = Len(Searches)
  /\ pc' = IF Searches = <<>> THEN "err_quit" ELSE "search"
  /\ UNCHANGED <<args, addrs, list, canon, passes, ai, nfound, error, heap, fds>>

-----------------------------------------------------------------------------
(* The loop over search[]                                                    *)

\* An address string: for this family, or ignored, or wrong for the caller.
SearchNumeric ==
  /\ pc = "search" /\ search # <<>> /\ Head(search).host \in DOMAIN Numeric
  /\ LET family == Numeric[Head(search).host] IN
       IF hints.family \notin {"UNSPEC", family}
       THEN Fail("EAI_ADDRFAMILY") /\ UNCHANGED <<search, addrs>>
       ELSE /\ search' = Tail(search) /\ pc' = "aistruct"
            /\ addrs' = IF Head(search).family = family
                        THEN <<[addr |-> Head(search).host, family |-> family]>> ELSE <<>>
            /\ UNCHANGED error
  /\ UNCHANGED <<args, nsearch, list, canon, passes, ai, nfound, heap, fds>>

\* A host name.  Failure is all right with two searches.  The canonical name is
\* copied the first time.
SearchName ==
  /\ pc = "search" /\ search # <<>> /\ Head(search).host \notin DOMAIN Numeric
  /\ LET found == Lookup(Head(search).host, Head(search).family, nsearch = 1) IN
       IF found = <<>>
       THEN /\ IF nsearch = 2 THEN UNCHANGED <<pc, error>> ELSE Fail("EAI_NONAME")
            /\ search' = Tail(search) /\ UNCHANGED <<addrs, canon, heap>>
       ELSE \/ /\ addrs' = [k \in 1 .. Len(found) |->
                              [addr |-> found[k], family |-> Head(search).family]]
               /\ search' = Tail(search) /\ pc' = "aistruct"
               /\ IF host # "none" /\ hints.canon /\ canon = "none"
                  THEN canon' = "allocated" /\ heap' = heap + 1
                  ELSE UNCHANGED <<canon, heap>>
               /\ UNCHANGED error
            \/ /\ host # "none" /\ hints.canon /\ canon = "none"
               /\ Fail("EAI_MEMORY") /\ UNCHANGED <<search, addrs, canon, heap>>
  /\ UNCHANGED <<args, nsearch, list, passes, ai, nfound, fds>>

\* ga_aistruct: the structure is linked before its address is allocated.
Structure(a, socktype) ==
  [addr |-> a.addr, family |-> a.family, socktype |-> socktype, port |-> "0",
   clone |-> socktype = "0", objects |-> 2]
Build(a, socktype, next, failed) ==
  \/ /\ list' = Append(list, Structure(a, socktype)) /\ heap' = heap + 2
     /\ pc' = next /\ UNCHANGED error
  \/ /\ list' = Append(list, [Structure(a, socktype) EXCEPT !.objects = 1])
     /\ heap' = heap + 1 /\ pc' = failed /\ error' = "EAI_MEMORY"
  \/ UNCHANGED <<list, heap>> /\ pc' = failed /\ error' = "EAI_MEMORY"

Aistruct ==
  /\ pc = "aistruct" /\ addrs # <<>> /\ addrs' = Tail(addrs)
  /\ Build(Head(addrs), hints.socktype, "aistruct", "bad")
  /\ UNCHANGED <<args, search, nsearch, canon, passes, ai, nfound, fds>>

NextSearch ==
  /\ pc = "aistruct" /\ addrs = <<>> /\ pc' = "search"
  /\ UNCHANGED <<args, search, nsearch, addrs, list, canon, passes, ai, nfound, error, heap, fds>>

\* Nothing found; or the canonical name goes to the first structure, a copy of
\* the host's when no lookup gave one.
Searched ==
  /\ pc = "search" /\ search = <<>>
  /\ \/ list = <<>> /\ Fail("EAI_NONAME") /\ UNCHANGED <<canon, heap>>
     \/ /\ list # <<>> /\ pc' = "serv" /\ UNCHANGED error
        /\ IF host # "none" /\ hints.canon
           THEN /\ canon' = "attached"
                /\ heap' = IF canon = "none" THEN heap + 1 ELSE heap
           ELSE UNCHANGED <<canon, heap>>
     \/ /\ list # <<>> /\ host # "none" /\ hints.canon /\ canon = "none"
        /\ Fail("EAI_MEMORY") /\ UNCHANGED <<canon, heap>>
  /\ UNCHANGED <<args, search, nsearch, addrs, list, passes, ai, nfound, fds>>

-----------------------------------------------------------------------------
(* The service                                                               *)

Wants(socktype) == hints.socktype \in {"0", socktype}

\* ga_serv: the calls of ga_port it makes, TCP before UDP.
PortPasses ==
  IF serv = "number"
  THEN IF hints.socktype = "0"
       THEN <<[socktype |-> "STREAM", port |-> "number"], [socktype |-> "DGRAM", port |-> "number"]>>
       ELSE <<[socktype |-> hints.socktype, port |-> "number"]>>
  ELSE SelectSeq(<<[socktype |-> "STREAM", port |-> "tcp port"],
                   [socktype |-> "DGRAM", port |-> "udp port"]>>,
                 LAMBDA p : /\ Wants(p.socktype)
                            /\ Supports(serv, IF p.socktype = "STREAM" THEN "tcp" ELSE "udp"))
Serv ==
  /\ pc = "serv" /\ ai' = 1
  /\ IF serv = "none" THEN pc' = "return" /\ UNCHANGED passes
     ELSE pc' = "port" /\ passes' = PortPasses
  /\ UNCHANGED <<args, search, nsearch, addrs, list, canon, nfound, error, heap, fds>>

\* ga_clone: linked behind its original; the loop goes on from it.
Clone(i) == [list[i] EXCEPT !.clone = FALSE]
Filled(a, p) == [a EXCEPT !.socktype = p.socktype, !.port = p.port]

\* One round of the loop of ga_port.
PortMutant ==
  LET p == Head(passes) a == list[ai] IN
  /\ pc = "port" /\ passes # <<>> /\ ai <= Len(list)
  /\ list' = [list EXCEPT ![ai] = Filled(a, p)] /\ ai' = ai + 1 /\ nfound' = nfound + 1
  /\ UNCHANGED <<args, search, nsearch, addrs, canon, passes, pc, error, heap, fds>>
Port ==
  LET p == Head(passes)
      a == list[ai]
  IN
  /\ pc = "port" /\ passes # <<>> /\ ai <= Len(list)
  /\ \/ /\ a.clone /\ a.socktype # "0"
        /\ \/ /\ list' = InsertAt(list, ai + 1, Filled(Clone(ai), p))
              /\ heap' = heap + 2 /\ ai' = ai + 2 /\ nfound' = nfound + 1
              /\ UNCHANGED <<pc, error>>
           \/ /\ list' = InsertAt(list, ai + 1, [Clone(ai) EXCEPT !.objects = 1])
              /\ heap' = heap + 1 /\ Fail("EAI_MEMORY") /\ UNCHANGED <<ai, nfound>>
           \/ Fail("EAI_MEMORY") /\ UNCHANGED <<list, heap, ai, nfound>>
     \/ /\ IF a.clone THEN a.socktype = "0" ELSE a.socktype = p.socktype
        /\ list' = [list EXCEPT ![ai] = Filled(a, p)]
        /\ ai' = ai + 1 /\ nfound' = nfound + 1 /\ UNCHANGED <<pc, error, heap>>
     \/ /\ ~a.clone /\ a.socktype # p.socktype
        /\ ai' = ai + 1 /\ UNCHANGED <<list, nfound, pc, error, heap>>
  /\ UNCHANGED <<args, search, nsearch, addrs, canon, passes, fds>>

NextPass ==
  /\ pc = "port" /\ passes # <<>> /\ ai > Len(list)
  /\ passes' = Tail(passes) /\ ai' = 1
  /\ UNCHANGED <<args, pc, search, nsearch, addrs, list, canon, nfound, error, heap, fds>>

ServDone ==
  /\ pc = "port" /\ passes = <<>>
  /\ IF nfound = 0 THEN Fail(IF hints.socktype = "0" THEN "EAI_NONAME" ELSE "EAI_SERVICE")
     ELSE pc' = "return" /\ UNCHANGED error
  /\ UNCHANGED <<args, search, nsearch, addrs, list, canon, passes, ai, nfound, heap, fds>>

-----------------------------------------------------------------------------
(* Unix domain sockets: ga_unix returns its errors without a free            *)

UnixFail(e) == error' = e /\ pc' = "return"
UnixBuild(socktype, next) ==
  Build([addr |-> "/path", family |-> "LOCAL"], socktype, next, "return")

Unix ==
  /\ pc = "unix"
  /\ IF hints.family \notin {"UNSPEC", "LOCAL"}
     THEN UnixFail("EAI_ADDRFAMILY") /\ UNCHANGED <<list, heap>>
     ELSE IF hints.socktype = "0" /\ list = <<>>
     THEN UnixBuild("STREAM", "unix")
     ELSE UnixBuild(IF hints.socktype = "0" THEN "DGRAM" ELSE hints.socktype, "uname")
  /\ UNCHANGED <<args, search, nsearch, addrs, canon, passes, ai, nfound, fds>>

UnixCanon ==
  /\ pc = "uname"
  /\ \/ /\ hints.canon /\ canon' = "attached" /\ heap' = heap + 1
        /\ pc' = "return" /\ UNCHANGED error
     \/ hints.canon /\ UnixFail("EAI_MEMORY") /\ UNCHANGED <<canon, heap>>
     \/ ~hints.canon /\ pc' = "return" /\ UNCHANGED <<error, canon, heap>>
  /\ UNCHANGED <<args, search, nsearch, addrs, list, passes, ai, nfound, fds>>

-----------------------------------------------------------------------------
(* Return, and what the callers do with the list                             *)

\* What freeaddrinfo frees.
InList == FoldSeq(LAMBDA a, n : a.objects + n, IF canon = "attached" THEN 1 ELSE 0, list)

BadMutant ==
  /\ pc = "bad" /\ pc' = "return" /\ list' = <<>>
  /\ UNCHANGED <<args, search, nsearch, addrs, canon, passes, ai, nfound, error, heap, fds>>
Bad ==
  /\ pc = "bad" /\ pc' = "return" /\ heap' = heap - InList /\ list' = <<>>
  /\ canon' = IF canon = "attached" THEN "none" ELSE canon
  /\ UNCHANGED <<args, search, nsearch, addrs, passes, ai, nfound, error, fds>>

Return ==
  /\ pc = "return" /\ ai' = 1
  /\ pc' = IF error # "0" THEN "failed"
           ELSE IF caller \in {"program", "host_serv"} THEN "returned" ELSE "try"
  /\ UNCHANGED <<args, search, nsearch, addrs, list, canon, passes, nfound, error, heap, fds>>

\* socket fails; or connect or bind does, and the socket is closed.
TryNextMutant ==
  /\ pc = "try" /\ ai <= Len(list) /\ ai' = ai + 1 /\ fds' \in {fds, fds + 1}
  /\ UNCHANGED <<args, pc, search, nsearch, addrs, list, canon, passes, nfound, error, heap>>
TryNext ==
  /\ pc = "try" /\ ai <= Len(list) /\ ai' = ai + 1
  /\ UNCHANGED <<args, pc, search, nsearch, addrs, list, canon, passes, nfound, error, heap, fds>>

\* break; freeaddrinfo(ressave).  udp_client keeps a copy of the address.
Success ==
  /\ pc = "try" /\ ai <= Len(list) /\ pc' = "connected" /\ fds' = fds + 1
  /\ heap' = heap - InList + (IF caller = "udp_client" THEN 1 ELSE 0)
  /\ UNCHANGED <<args, search, nsearch, addrs, list, canon, passes, ai, nfound, error>>

\* err_sys; the tcp_listen of my-src has err_ret there and goes on to Listen.
NoneLeft ==
  /\ pc = "try" /\ ai > Len(list)
  /\ pc' = IF caller = "my_tcp_listen" THEN "listen" ELSE "err_sys"
  /\ UNCHANGED <<args, search, nsearch, addrs, list, canon, passes, ai, nfound, error, heap, fds>>

Next ==
  \/ Echeck \/ Nsearch \/ SearchNumeric \/ SearchName \/ Aistruct \/ NextSearch
  \/ Searched \/ Serv \/ Port \/ NextPass \/ ServDone \/ Unix \/ UnixCanon
  \/ Bad \/ Return \/ TryNext \/ Success \/ NoneLeft

-----------------------------------------------------------------------------
(* What the list must be                                                     *)

\* The addresses of the host in a family.
Addresses(family) ==
  LET h == HostFor(family) IN
  IF h \in DOMAIN Numeric
  THEN IF Numeric[h] = family THEN <<h>> ELSE <<>>
  ELSE Lookup(h, family, hints.family # "UNSPEC")

\* The socket types in which the service exists, with its ports there.
Offers ==
  IF serv = "none" THEN <<[socktype |-> hints.socktype, port |-> "0"]>> ELSE PortPasses

\* Every address in every such type, in this order (ga_port.c:8-26).
Wanted ==
  IF host = "/local" /\ serv = "/path"
  THEN [k \in 1 .. (IF hints.socktype = "0" THEN 2 ELSE 1) |->
          <<"/path", IF hints.socktype # "0" THEN hints.socktype
                     ELSE IF k = 1 THEN "STREAM" ELSE "DGRAM", "0">>]
  ELSE FlattenSeq([k \in 1 .. Len(Searches) |->
         FlattenSeq([n \in 1 .. Len(Addresses(Searches[k])) |->
           [o \in 1 .. Len(Offers) |->
             <<Addresses(Searches[k])[n], Offers[o].socktype, Offers[o].port>>]])])

\* The arguments that getaddrinfo refuses.
Refused ==
  \/ host = "none" /\ serv = "none"
  \/ hints.family = "other"
  \/ hints.family = "LOCAL" /\ hints.socktype = "RAW"
  \/ host = "/local" /\ serv = "/path" /\ hints.family \notin {"UNSPEC", "LOCAL"}

-----------------------------------------------------------------------------
(* Properties                                                                *)

\* getaddrinfo returns every address of the host in every socket type of the
\* service, in order and once each, whatever clones that takes; it fails only
\* when there is none of them, when it refuses the arguments, or for lack of
\* memory.  It ends the program (ga_nsearch.c:112) for AF_LOCAL with any host
\* but /local.
ListIsComplete ==
  /\ pc = "returned" =>
       [k \in 1 .. Len(list) |-> <<list[k].addr, list[k].socktype, list[k].port>>] = Wanted
  /\ pc = "failed" => error = "EAI_MEMORY" \/ Refused \/ Wanted = <<>>
  /\ pc = "err_quit" => hints.family = "LOCAL"

\* "If we encounter an error we want to free() any dynamic memory that we've
\* allocated" (getaddrinfo.c:16-17): what is allocated after the return is the
\* list.  Left over are the structures of ga_unix (ga_unix.c:20-30) and a
\* canonical name that was copied and not yet attached (getaddrinfo.c:128).
NothingLeaks ==
  /\ pc = "returned" => heap = InList
  /\ pc = "failed" =>
       heap = 0 \/ host = "/local" \/ (canon = "allocated" /\ heap = 1)

\* A caller has one socket open when it returns and none when every address has
\* failed (lib/tcp_connect.c:27, tcp_listen.c:34); only the tcp_listen of
\* Chapter-11 (line 35) then calls Listen on the one it has closed.
SocketsClosed ==
  /\ pc = "connected" => fds = 1
  /\ pc \in {"err_sys", "failed", "listen"} => fds = 0
  /\ pc = "listen" => caller = "my_tcp_listen"
==============================================================================
