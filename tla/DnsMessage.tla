----------------------------- MODULE DnsMessage -----------------------------
(***************************************************************************)
(* The messages of network/dns/: how the clients write a question and read *)
(* the answer.  sync_dns_client.cpp and async_dns_client.cpp hold the same *)
(* code for both.                                                          *)
(*                                                                         *)
(* A message is a sequence of bytes; positions in it are C offsets, from 0.*)
(* A host name is a sequence of character codes.                           *)
(***************************************************************************)
EXTENDS Integers, Sequences, SequencesExt

Dot == 46
DNS_HOST == 1
DNS_CNAME == 5
HeaderSize == 12
Short(n) == <<n \div 256, n % 256>>

-----------------------------------------------------------------------------
(* Writing a question *)

\* Where strtok() finds a token: the longest runs without a dot.
Tokens(h) ==
    LET runs == {r \in (1..Len(h)) \X (1..Len(h)) :
                    /\ r[1] <= r[2]
                    /\ \A k \in r[1]..r[2] : h[k] # Dot
                    /\ r[1] = 1 \/ h[r[1] - 1] = Dot
                    /\ r[2] = Len(h) \/ h[r[2] + 1] = Dot}
        inOrder == SetToSortSeq(runs, LAMBDA a, b : a[1] < b[1])
    IN  [k \in DOMAIN inOrder |-> SubSeq(h, inOrder[k][1], inOrder[k][2])]

\* The id is random; flags stay 0, the statement that should set them compares.
dns_create_header(id) == Short(id) \o Short(0) \o Short(1) \o Short(0) \o Short(0) \o Short(0)

\* strlen + 2 bytes, filled with one counted label after the other and a zero.
dns_create_question(h) ==
    LET token == Tokens(h)
    IN  FlattenSeq([k \in DOMAIN token |-> <<Len(token[k])>> \o token[k]]) \o <<0>>

\* Mutant: the strings' terminating zero is not sent.
dns_build_request_short(id, h) ==
    dns_create_header(id) \o Front(dns_create_question(h)) \o Short(1) \o Short(1)

dns_build_request(id, h) ==
    dns_create_header(id) \o dns_create_question(h) \o Short(1) \o Short(1)

-----------------------------------------------------------------------------
(* Reading an answer: buffer holds zeros behind the message *)

ByteAt(m, p) == IF p < Len(m) THEN m[p + 1] ELSE 0
ShortAt(m, p) == ByteAt(m, p) * 256 + ByteAt(m, p + 1)

\* Mutant: only the exact value of the mask is a pointer.
is_pointer_one_bit(b) == b = 64

is_pointer(b) == b >= 192

\* Only the low byte of a pointer is used.
dns_parse_name(m, start) ==
    LET name[p \in Nat] ==
            LET flag == ByteAt(m, p)
                after == p + 1 + flag
            IN  CASE flag = 0 -> <<>>
                  [] is_pointer(flag) -> name[ByteAt(m, p + 1)]
                  [] OTHER -> SubSeq(m, p + 2, after)
                              \o (IF ByteAt(m, after) # 0 THEN <<Dot>> ELSE <<>>)
                              \o name[after]
    IN  name[start]

\* The position behind the questions.
SkipQueries(m) ==
    LET skip[p \in Nat, n \in Nat] ==
            IF n = 0 THEN p
            ELSE IF ByteAt(m, p) = 0 THEN skip[p + 5, n - 1]
            ELSE skip[p + ByteAt(m, p) + 1, n]
    IN  skip[HeaderSize, ShortAt(m, 4)]

\* Mutant: the target of an alias is read and not stepped over.
DataEndNoAlias(type, data, len) == IF type = DNS_HOST THEN data + len ELSE data

\* A record of another type is not stepped over.
DataEnd(type, data, len) == IF type \in {DNS_HOST, DNS_CNAME} THEN data + len ELSE data

\* The names of the records are taken to be pointers, two bytes long.
dns_parse_response(m) ==
    LET answers[p \in Nat, n \in Nat] ==
            IF n = 0 THEN <<>>
            ELSE LET type == ShortAt(m, p + 2)
                     len == ShortAt(m, p + 10)
                     item == [domain |-> dns_parse_name(m, p), ip |-> SubSeq(m, p + 13, p + 16)]
                 IN  (IF type = DNS_HOST /\ len = 4 THEN <<item>> ELSE <<>>)
                     \o answers[DataEnd(type, p + 12, len), n - 1]
    IN  answers[SkipQueries(m), ShortAt(m, 6)]

-----------------------------------------------------------------------------
(* The DNS server, after RFC 1035: it reads the question and answers with  *)
(* what its zone holds, every name it repeats as a pointer.                *)

\* The labels of the question, in which there are no pointers.
Labels(m) ==
    LET labels[p \in Nat] ==
            IF ByteAt(m, p) = 0 THEN <<>>
            ELSE <<SubSeq(m, p + 2, p + 1 + ByteAt(m, p))>> \o labels[p + 1 + ByteAt(m, p)]
    IN  labels[HeaderSize]

Dotted(labels) ==
    FlattenSeq([k \in DOMAIN labels |->
                    labels[k] \o (IF k < Len(labels) THEN <<Dot>> ELSE <<>>)])

\* The name that is asked for, or nothing when the question is not well-formed.
Asked(request) ==
    LET name == Dotted(Labels(request))
        end == HeaderSize + Len(name) + 2
    IN  IF /\ ShortAt(request, 4) = 1 /\ Len(request) = end + 4
           /\ ShortAt(request, end) = 1 /\ ShortAt(request, end + 2) = 1
        THEN name ELSE <<>>

\* What every record starts with: a pointer to its name, type, class and TTL.
RecordHead(owner, type) ==
    <<192 + owner \div 256, owner % 256>> \o Short(type) \o Short(1) \o Short(0) \o Short(60)

\* The zone's records for a name: an address, or an alias with another first
\* label, to which the records that follow belong.
Response(request, rrs) ==
    LET parent == HeaderSize + ByteAt(request, HeaderSize) + 1
        Data(rr) == IF rr.type = DNS_HOST THEN rr.ip
                    ELSE <<Len(rr.label)>> \o rr.label \o <<192, parent>>
        records[k \in Nat, owner \in Nat, at \in Nat] ==
            IF k > Len(rrs) THEN <<>>
            ELSE RecordHead(owner, rrs[k].type) \o Short(Len(Data(rrs[k]))) \o Data(rrs[k])
                 \o records[k + 1, IF rrs[k].type = DNS_HOST THEN owner ELSE at + 12,
                            at + 12 + Len(Data(rrs[k]))]
    IN  SubSeq(request, 1, 2) \o Short(33152) \o Short(1) \o Short(Len(rrs)) \o Short(0) \o Short(0)
        \o SubSeq(request, HeaderSize + 1, Len(request))
        \o records[1, HeaderSize, Len(request)]
=============================================================================
