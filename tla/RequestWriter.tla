--------------------------- MODULE RequestWriter ---------------------------
(***************************************************************************)
(* How the client puts a batch of requests on its socket (src/client.rs):  *)
(* one request as groups of IoSlices that write_all_vectored pushes out,   *)
(* several through one buffer.  The socket takes as much of a write as it  *)
(* likes.  A slice is a sequence of words, Spaces and Ends, each of which  *)
(* the socket takes or leaves.  A request of the batch is [request,        *)
(* article]; the article of TAKETHIS is a sequence of normalised lines.    *)
(***************************************************************************)
EXTENDS RequestForms

CONSTANTS
  ArgWords, \* the words arguments are made of
  Articles,   \* the articles TAKETHIS sends
  Batches(_), \* of a set of queued requests, the batches
  MaxWrite    \* the most one write takes

Space == Word(" ", "space", 1)
End == Word("CRLF", "end", 2)
Stuffing == Word(".", "stuffing", 1)
EmptyLine == Word("", "blank", 0)

(* The bytes of words with a space between neighbours.                     *)
Spaced(words) == FlattenSeq([i \in DOMAIN words |-> IF i = 1 THEN <<words[i]>> ELSE <<Space, words[i]>>])

V(text) == <<Verb(text)>>

-----------------------------------------------------------------------------
(* The slices of each writer; CRLF is the last.                            *)
Simple(verb) == <<verb, <<End>>>>

OneArg(verb, arg) == <<verb \o <<Space>>, <<arg>>, <<End>>>>

TwoArg(verb, left, right) == <<verb \o <<Space>>, <<left>>, <<Space>>, <<right>>, <<End>>>>

OptionalArg(verb, args) == IF args = <<>> THEN Simple(verb) ELSE <<verb, <<Space>>, args, <<End>>>>

ArticleRef(verb, args) == IF args = <<>> THEN <<verb, <<End>>>> ELSE <<verb, <<Space>>, args, <<End>>>>

MessageId(verb, id) == <<verb \o <<Space>>, <<id>>, <<End>>>>

HeaderQueryOf(verb, args) ==
  IF Len(args) = 2 THEN <<verb, <<Space>>, <<args[1]>>, <<Space>>, <<args[2]>>, <<End>>>>
  ELSE <<verb, <<Space>>, args, <<End>>>>

ListGroup(args) ==
  CASE args = <<>> -> Simple(V("LISTGROUP"))
    [] Len(args) = 1 -> OneArg(V("LISTGROUP"), args[1])
    [] Len(args) = 2 -> TwoArg(V("LISTGROUP"), args[1], args[2])

Suffix(gmt) == IF gmt THEN <<Space, Gmt, End>> ELSE <<End>>

Datetime(args) ==
  <<V("NEWGROUPS") \o <<Space>>, <<args[1]>>, <<Space>>, <<args[2]>>, Suffix(Len(args) = 3)>>

NewNews(args) ==
  <<V("NEWNEWS") \o <<Space>>, <<args[1]>>, <<Space>>, <<args[2]>>, <<Space>>, <<args[3]>>, Suffix(Len(args) = 4)>>

ListVariant(kind, args) ==
  <<V("LIST") \o <<Space>>, <<Sub(ListKindWire(kind))>>>> \o (IF args = <<>> THEN <<>> ELSE <<<<Space>>, args>>) \o <<<<End>>>>

AuthInfo(name, value) == <<V("AUTHINFO") \o <<Space>>, <<name>>, <<Space>>, Spaced(value), <<End>>>>

(* write_dot_stuffed_article: a group of slices for each line.             *)
DotStuffed(lines) ==
  [i \in DOMAIN lines |-> IF lines[i].is = "dot" THEN <<<<Stuffing>>, <<lines[i]>>, <<End>>>> ELSE <<<<lines[i]>>, <<End>>>>]
  \o <<<<<<Stuffing, End>>>>>>

(* write_request_wire: the groups of slices of one request.                *)
Groups(queued) ==
  LET r == queued.request
  IN  CASE r.kind \in Retrieval -> <<ArticleRef(V(VerbOf(r.kind)), r.args)>>
        [] r.kind \in {"Over", "Xover"} -> <<OptionalArg(V(VerbOf(r.kind)), r.args)>>
        [] r.kind \in {"Hdr", "Xhdr"} -> <<HeaderQueryOf(V(VerbOf(r.kind)), r.args)>>
        [] r.kind \in {"Ihave", "Check"} -> <<MessageId(V(VerbOf(r.kind)), r.args[1])>>
        [] r.kind = "TakeThis" -> <<MessageId(V("TAKETHIS"), r.args[1])>> \o DotStuffed(queued.article)
        [] r.kind = "Group" -> <<OneArg(V("GROUP"), r.args[1])>>
        [] r.kind = "Capabilities" /\ r.args # <<>> -> <<OneArg(V("CAPABILITIES"), r.args[1])>>
        [] r.kind = "ListGroup" -> <<ListGroup(r.args)>>
        [] r.kind = "NewGroups" -> <<Datetime(r.args)>>
        [] r.kind = "NewNews" -> <<NewNews(r.args)>>
        [] r.kind \in {ListSubcommands[s] : s \in DOMAIN ListSubcommands} -> <<ListVariant(r.kind, r.args)>>
        [] r.kind = "AuthInfoUser" -> <<AuthInfo(Word("USER", "name", 4), r.args)>>
        [] r.kind = "AuthInfoPass" -> <<AuthInfo(Word("PASS", "name", 4), r.args)>>
        [] r.kind = "ModeReader" -> <<Simple(V("MODE") \o <<Space, Word("READER", "name", 6)>>)>>
        [] r.kind = "ModeStream" -> <<Simple(V("MODE") \o <<Space, Word("STREAM", "name", 6)>>)>>
        [] OTHER -> <<Simple(V(VerbOf(r.kind)))>>

(* The bytes of an empty slice are none.                                   *)
Bytes(slice) == SelectSeq(slice, LAMBDA u : u # EmptyLine)

GroupBytes(group) == Bytes(FlattenSeq(group))

(* write_requests_buffered: the VecSink takes every write whole.           *)
Buffered(batch) ==
  LET groups == FlattenSeq([i \in DOMAIN batch |-> Groups(batch[i])])
  IN  FlattenSeq([i \in DOMAIN groups |-> GroupBytes(groups[i])])

(* run_writer_task: what is to be written, group by group.                 *)
WriteBatch(batch) == IF Len(batch) = 1 THEN Groups(batch[1]) ELSE <<<<Buffered(batch)>>>>

-----------------------------------------------------------------------------
(* Fault: a slice the socket took a part of is given up.                   *)
Whole_Advance(group, n) ==
  LET step(s, slice) == IF s.left >= Len(slice) THEN [s EXCEPT !.left = @ - Len(slice)]
                        ELSE [left |-> 0, rest |-> IF s.left = 0 THEN Append(s.rest, slice) ELSE s.rest]
  IN  FoldLeft(step, [left |-> n, rest |-> <<>>], [i \in DOMAIN group |-> Bytes(group[i])]).rest

(* IoSlice::advance_slices.                                                *)
Advance(group, n) ==
  LET step(s, slice) == IF s.left >= Len(slice) THEN [s EXCEPT !.left = @ - Len(slice)]
                        ELSE [left |-> 0, rest |-> Append(s.rest, SubSeq(slice, s.left + 1, Len(slice)))]
  IN  FoldLeft(step, [left |-> n, rest |-> <<>>], [i \in DOMAIN group |-> Bytes(group[i])]).rest

VARIABLES
  batch,  \* the requests being written
  todo,   \* the groups of slices not written yet
  sent,   \* what the socket has taken
  failed

vars == <<batch, todo, sent, failed>>

Queued(r) == {[request |-> r, article |-> a] : a \in IF r.kind = "TakeThis" THEN Articles ELSE {<<>>}}

Init ==
  /\ batch \in Batches(UNION {Queued(r) : r \in Requests(ArgWords)})
  /\ todo = WriteBatch(batch) /\ sent = <<>> /\ failed = FALSE

(* write_all_vectored, one turn: the socket takes n bytes of the group.    *)
WriteSome(n) ==
  /\ ~failed /\ todo # <<>> /\ n <= Len(GroupBytes(Head(todo)))
  /\ sent' = sent \o SubSeq(GroupBytes(Head(todo)), 1, n)
  /\ \E rest \in {Advance(Head(todo), n)} : todo' = (IF rest = <<>> THEN <<>> ELSE <<rest>>) \o Tail(todo)
  /\ UNCHANGED <<batch, failed>>

(* A write of nothing is WriteZero; an error of the socket ends it too.    *)
WriteFails == ~failed /\ todo # <<>> /\ failed' = TRUE /\ UNCHANGED <<batch, todo, sent>>

Next == WriteFails \/ \E n \in 1 .. MaxWrite : WriteSome(n)

Spec == Init /\ [][Next]_vars

-----------------------------------------------------------------------------
(* The lines Request::write_wire_to writes for the batch, and the articles *)
(* of TAKETHIS with every dotted line stuffed.                             *)
ArticleWire(queued) ==
  IF queued.request.kind # "TakeThis" THEN <<>>
  ELSE LET lines == queued.article
           line(l) == (IF l.is = "dot" THEN <<Stuffing>> ELSE <<>>) \o Bytes(<<l>>) \o <<End>>
       IN  FlattenSeq([i \in DOMAIN lines |-> line(lines[i])]) \o <<Stuffing, End>>

Wire(queued) == Bytes(Spaced(WriteWire(queued.request))) \o <<End>> \o ArticleWire(queued)

(* However the socket splits the writes, and wherever they fail, what it   *)
(* took is a prefix of the requests' wire form in the order of the batch,  *)
(* and all of it once nothing is left: the client's writers and            *)
(* Request::write_wire_to are one encoder.                                 *)
WrittenIsWire ==
  LET wire == FlattenSeq([i \in DOMAIN batch |-> Wire(batch[i])])
  IN  IsPrefix(sent, wire) /\ (todo = <<>> => sent = wire)
=============================================================================
