----------------------------- MODULE DnsClient -----------------------------
(***************************************************************************)
(* The DNS clients of network/dns/, which ask for the names of domain[]    *)
(* one after the other: sync_dns_client.cpp waits for each answer in       *)
(* recvfrom(), async_dns_client.cpp registers the socket with an epoll     *)
(* instance and leaves the answers to a thread.                            *)
(*                                                                         *)
(* Datagrams are lost, duplicated and reordered.  Every query has a socket *)
(* of its own, whose port is free again once it is closed: an answer that  *)
(* comes late reaches whoever has the port then, and neither client looks  *)
(* at the id of an answer.                                                 *)
(***************************************************************************)
EXTENDS DnsMessage, FiniteSets

CONSTANTS
    DnsPrograms,    \* the clients to look at
    domain,         \* domain[]
    Zone,           \* the server's records for every name of domain
    Ports,          \* the ports the kernel gives out
    MaxFds,         \* how many descriptors a process may have
    MaxDups         \* bound: how many datagrams are duplicated

Queries == DOMAIN domain
Id == 7             \* srandom(time(NULL)): the same for all queries of a second

VARIABLES
    program,
    next,           \* the query main() is at
    cpc,            \* where main() is
    port,           \* the socket of every query, 0 before it is opened and after
    rcv,            \* its receive buffer
    refused,        \* an ICMP error is pending on it
    reg,            \* the epoll instance
    arg,            \* the ep_arg of every query
    events, ppc,    \* where dns_async_client_proc() is
    result,         \* what was printed for every query, with the answer it is from
    calls,          \* how often a query was answered
    net, dups       \* the network

mainvars == <<next, cpc>>
procvars == <<events, ppc>>
vars == <<program, mainvars, port, rcv, refused, reg, arg, procvars, result, calls, net, dups>>

Init ==
    /\ program \in DnsPrograms
    /\ next = 1 /\ cpc = "commit"
    /\ port = [q \in Queries |-> 0]
    /\ rcv = [q \in Queries |-> <<>>]
    /\ refused = [q \in Queries |-> FALSE]
    /\ reg = {} /\ arg = [q \in Queries |-> "none"]
    /\ events = {} /\ ppc = 0
    /\ result = [q \in Queries |-> [of |-> 0, items |-> <<>>]]
    /\ calls = [q \in Queries |-> 0]
    /\ net = {} /\ dups = 0

Open == {q \in Queries : port[q] # 0}

-----------------------------------------------------------------------------
(* main() *)

NextQuery ==
    /\ next' = next + 1
    /\ cpc' = IF next' \in Queries THEN "commit" ELSE "getchar"

Request(q) == dns_build_request(Id, domain[q])

\* socket(), connect() and sendto(), whose result is not looked at.
commit ==
    /\ cpc = "commit" /\ Cardinality(Open) < MaxFds
    /\ \E p \in Ports \ {port[q] : q \in Open} :
          /\ port' = [port EXCEPT ![next] = p]
          /\ \/ net' = net \cup {[to |-> "server", port |-> p, of |-> next,
                                  msg |-> Request(next)]}
             \/ UNCHANGED net
    /\ cpc' = IF program = "sync" THEN "recvfrom" ELSE "add"
    /\ UNCHANGED <<program, next, rcv, refused, reg, arg, procvars, result, calls, dups>>

\* There is no descriptor left: exit(-1).
commit_exit ==
    /\ cpc = "commit" /\ Cardinality(Open) = MaxFds
    /\ cpc' = "exit"
    /\ UNCHANGED <<program, next, port, rcv, refused, reg, arg, procvars, result, calls, net, dups>>

\* Mutant: the socket is not registered when the answer was faster.
add_late ==
    /\ cpc = "add"
    /\ arg' = [arg EXCEPT ![next] = "live"]
    /\ reg' = IF rcv[next] # <<>> THEN reg ELSE reg \cup {next}
    /\ NextQuery
    /\ UNCHANGED <<program, port, rcv, refused, procvars, result, calls, net, dups>>

\* The context is allocated and the socket registered, after the request was sent.
add ==
    /\ cpc = "add"
    /\ arg' = [arg EXCEPT ![next] = "live"]
    /\ reg' = reg \cup {next}
    /\ NextQuery
    /\ UNCHANGED <<program, port, rcv, refused, procvars, result, calls, net, dups>>

\* calloc() fails: the socket stays open and nobody listens to it.
add_fails ==
    /\ cpc = "add"
    /\ arg' = [arg EXCEPT ![next] = "failed"]
    /\ NextQuery
    /\ UNCHANGED <<program, port, rcv, refused, reg, procvars, result, calls, net, dups>>

Ready(q) == rcv[q] # <<>> \/ refused[q]

\* What dns_parse_response() makes of a message, and the callback prints.
Printed(m) == dns_parse_response(m)

\* recvfrom() and dns_parse_response(); after an error the buffer holds zeros.
Answer(q) ==
    /\ Ready(q)
    /\ LET d == IF refused[q] THEN [of |-> 0, msg |-> <<>>] ELSE Head(rcv[q])
       IN  result' = [result EXCEPT ![q] = [of |-> d.of, items |-> Printed(d.msg)]]
    /\ calls' = [calls EXCEPT ![q] = @ + 1]

\* close()
Shut(q) ==
    /\ port' = [port EXCEPT ![q] = 0]
    /\ rcv' = [rcv EXCEPT ![q] = <<>>]
    /\ refused' = [refused EXCEPT ![q] = FALSE]

\* Mutant: the client gives up after a while, and closes the socket.
recvfrom_gives_up ==
    /\ cpc = "recvfrom" /\ (Answer(next) \/ UNCHANGED <<result, calls>>) /\ Shut(next)
    /\ NextQuery
    /\ UNCHANGED <<program, reg, arg, procvars, net, dups>>

\* recvfrom() of the synchronous client returns; the socket is closed.
recvfrom ==
    /\ cpc = "recvfrom" /\ Answer(next) /\ Shut(next)
    /\ NextQuery
    /\ UNCHANGED <<program, reg, arg, procvars, net, dups>>

-----------------------------------------------------------------------------
(* dns_async_client_proc() *)

epoll_wait ==
    /\ program = "async" /\ cpc # "exit" /\ events = {}
    /\ events' = {q \in reg : Ready(q)}
    /\ events' # {}
    /\ UNCHANGED <<program, mainvars, port, rcv, refused, reg, arg, ppc, result, calls, net, dups>>

\* The answer is read, parsed and given to the callback.
proc_recvfrom(q) ==
    /\ cpc # "exit" /\ ppc = 0 /\ q \in events
    /\ Answer(q)
    /\ IF refused[q] THEN refused' = [refused EXCEPT ![q] = FALSE] /\ UNCHANGED rcv
       ELSE rcv' = [rcv EXCEPT ![q] = Tail(@)] /\ UNCHANGED refused
    /\ ppc' = q
    /\ UNCHANGED <<program, mainvars, port, reg, arg, events, net, dups>>

\* Mutant: the context is freed, the socket neither removed nor closed.
proc_finish_leaves ==
    /\ cpc # "exit" /\ ppc # 0
    /\ arg' = [arg EXCEPT ![ppc] = "freed"]
    /\ events' = events \ {ppc} /\ ppc' = 0
    /\ UNCHANGED <<program, mainvars, port, rcv, refused, reg, result, calls, net, dups>>

\* EPOLL_CTL_DEL, close() and the two free().
proc_finish ==
    /\ cpc # "exit" /\ ppc # 0
    /\ reg' = reg \ {ppc}
    /\ Shut(ppc)
    /\ arg' = [arg EXCEPT ![ppc] = "freed"]
    /\ events' = events \ {ppc} /\ ppc' = 0
    /\ UNCHANGED <<program, mainvars, result, calls, net, dups>>

-----------------------------------------------------------------------------
(* The server and the network *)

\* d is taken off the network, or stays there as a duplicate.
Consumed(d, more) ==
    \/ net' = (net \ {d}) \cup more /\ UNCHANGED dups
    \/ dups < MaxDups /\ net' = net \cup more /\ dups' = dups + 1

serve(d) ==
    /\ d.to = "server"
    /\ LET name == Asked(d.msg)
           rrs == IF name \in DOMAIN Zone THEN Zone[name] ELSE <<>>
       IN  Consumed(d, {[to |-> "client", port |-> d.port, of |-> d.of,
                         msg |-> Response(d.msg, rrs)]})
    /\ UNCHANGED <<program, mainvars, port, rcv, refused, reg, arg, procvars, result, calls>>

\* An answer reaches the socket that has its port now, if there is one.
deliver(d) ==
    /\ d.to = "client"
    /\ Consumed(d, {})
    /\ rcv' = [q \in Queries |-> IF q \in Open /\ port[q] = d.port /\ Len(rcv[q]) < 2
                                 THEN Append(rcv[q], d) ELSE rcv[q]]
    /\ UNCHANGED <<program, mainvars, port, refused, reg, arg, procvars, result, calls>>

lose(d) ==
    /\ net' = net \ {d}
    /\ UNCHANGED <<program, mainvars, port, rcv, refused, reg, arg, procvars, result, calls, dups>>

\* The request is answered by an ICMP error.
refuse(d) ==
    /\ d.to = "server"
    /\ net' = net \ {d}
    /\ refused' = [q \in Queries |-> refused[q] \/ (q \in Open /\ port[q] = d.port)]
    /\ UNCHANGED <<program, mainvars, port, rcv, reg, arg, procvars, result, calls, dups>>

Main == commit \/ commit_exit \/ add \/ add_fails \/ recvfrom
Proc == epoll_wait \/ proc_finish \/ \E q \in Queries : proc_recvfrom(q)
Network == \E d \in net : serve(d) \/ deliver(d) \/ lose(d) \/ refuse(d)

Next == Main \/ Proc \/ Network

-----------------------------------------------------------------------------
(* Properties *)

\* Every variable stays in its domain.
TypeOK ==
    /\ program \in DnsPrograms /\ next \in 1..(Len(domain) + 1)
    /\ cpc \in {"commit", "recvfrom", "add", "getchar", "exit"}
    /\ port \in [Queries -> Ports \cup {0}]
    /\ \A q \in Queries : Len(rcv[q]) <= 2
    /\ refused \in [Queries -> BOOLEAN] /\ reg \subseteq Queries /\ events \subseteq Queries
    /\ arg \in [Queries -> {"none", "live", "failed", "freed"}]
    /\ ppc \in Queries \cup {0} /\ dups \in 0..MaxDups

\* What the zone says of a name: the addresses, each under the alias that has it.
Addresses(h) ==
    LET rrs == Zone[h]
        Alias(name, rr) == Dotted(<<rr.label>> \o Tail(Tokens(name)))
        list[k \in Nat, name \in Seq(Nat)] ==
            IF k > Len(rrs) THEN <<>>
            ELSE IF rrs[k].type = DNS_CNAME THEN list[k + 1, Alias(name, rrs[k])]
            ELSE <<[domain |-> name, ip |-> rrs[k].ip]>> \o list[k + 1, name]
    IN  list[1, h]

\* What is printed for a query is from the answer to that query, or nothing came.  Once
\* a datagram was duplicated it may be the answer to an earlier query, whose port the
\* socket has got: the id is not looked at.
OwnAnswer(q) == result[q].of \in IF dups = 0 THEN {0, q} ELSE 0..q

\* As long as nothing was duplicated, what is printed for a query is what the zone says
\* of the name it asks for: the question is understood, aliases are followed, pointers
\* resolved, no record is skipped or misread.  Nothing is printed before an answer came
\* or when it was refused; and after a duplication it is what the zone says of the name
\* of this query or of an earlier one.
Truthful ==
    \A q \in Queries :
        /\ OwnAnswer(q)
        /\ result[q].items =
              IF result[q].of = 0 THEN <<>> ELSE Addresses(domain[result[q].of])

\* A query is answered at most once, whatever is duplicated, and with its own answer if
\* nothing is; the epoll instance and the events that are being handled refer only to
\* sockets that are open and contexts that are not freed.
OnceEach ==
    /\ \A q \in Queries : calls[q] <= 1 /\ OwnAnswer(q)
    /\ \A q \in reg \cup events : arg[q] = "live" /\ port[q] # 0
    /\ \A q \in Queries : arg[q] = "freed" => port[q] = 0
=============================================================================
