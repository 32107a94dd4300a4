------------------------ MODULE CommandCoordination ------------------------
(***************************************************************************)
(* The rules that say how one NNTP command shares a connection with the    *)
(* commands around it: RequestKind::coordination in src/protocol.rs, the   *)
(* capability rules of src/client.rs, and the statuses that answer each    *)
(* command.  Everything here is constant; the client engine, and the       *)
(* lemmas about it, are built on these sets.                               *)
(***************************************************************************)
EXTENDS Integers

(* Commands that may share a pipeline and change nothing.                  *)
PipelinedKind ==
  {"Article", "Body", "Head", "Stat", "ListActive", "ListActiveTimes",
   "ListNewsgroups", "ListOverviewFmt", "ListHeaders", "ListDistribPats",
   "List", "Help", "Capabilities", "Date", "Over", "Xover", "Hdr", "Xhdr",
   "NewGroups", "NewNews", "Check", "TakeThis", "ModeStream"}

SessionPointerKind == {"Group", "ListGroup", "Last", "Next"}

ContinuationKind == {"Post", "Ihave"}

AuthKind == {"AuthInfo", "AuthInfoUser", "AuthInfoPass"}

RequestKind ==
  PipelinedKind \cup SessionPointerKind \cup ContinuationKind \cup AuthKind
    \cup {"StartTls", "ModeReader", "Quit", "Unknown"}

(* A later command may be written before this command's response arrives.  *)
AllowsFollowing(k) == k \in PipelinedKind \cup SessionPointerKind

(* No other command may be outstanding while this one runs.                *)
Exclusive(k) == k \in ContinuationKind \cup AuthKind \cup {"StartTls", "Quit"}

(* Commands that are preceded by CAPABILITIES when no list is stored.      *)
RequiresCapabilities(k) ==
  k \in {"Post", "Ihave", "Check", "TakeThis", "AuthInfoUser", "AuthInfoPass",
         "StartTls", "Over", "Xover", "Hdr", "Xhdr", "NewGroups", "NewNews"}

InvalidatesCapabilities(k) ==
  k \in {"AuthInfoUser", "AuthInfoPass", "AuthInfo", "ModeReader", "StartTls"}

(* Whether the response of a k command clears the stored list: AUTHINFO    *)
(* only on success, MODE READER and STARTTLS whatever the status.          *)
ResponseInvalidates(k, status) ==
  /\ InvalidatesCapabilities(k)
  /\ k \in AuthKind => status \in {"281", "283"}

(* The send barrier travels with the request until its response.           *)
RequiresBarrier(k) == ~AllowsFollowing(k)

(* The interim status that lets the writer send the article.               *)
Proceeds(k, status) == <<k, status>> \in {<<"Post", "340">>, <<"Ihave", "335">>}

-----------------------------------------------------------------------------
(* Which statuses answer which command, and whether a block of lines       *)
(* follows: RESPONSE_DESCRIPTORS.                                          *)
Lists == {"List", "ListActive", "ListActiveTimes", "ListNewsgroups", "ListOverviewFmt", "ListHeaders", "ListDistribPats"}

MultilineOf ==
  {<<"Article", 220>>, <<"Head", 221>>, <<"Body", 222>>, <<"ListGroup", 211>>, <<"Help", 100>>, <<"NewGroups", 231>>,
   <<"NewNews", 230>>, <<"Over", 224>>, <<"Xover", 224>>, <<"Hdr", 225>>, <<"Xhdr", 221>>, <<"Capabilities", 101>>}
  \cup (Lists \X {215})

SingleLineOf ==
  {<<"Stat", 223>>, <<"Group", 211>>, <<"Last", 223>>, <<"Next", 223>>, <<"Date", 111>>, <<"Post", 340>>, <<"Post", 240>>,
   <<"Ihave", 335>>, <<"Ihave", 235>>, <<"Check", 238>>, <<"TakeThis", 239>>, <<"AuthInfoUser", 381>>,
   <<"AuthInfoUser", 281>>, <<"AuthInfoPass", 281>>, <<"AuthInfo", 281>>, <<"AuthInfo", 283>>, <<"AuthInfo", 383>>,
   <<"ModeReader", 200>>, <<"ModeReader", 201>>, <<"ModeStream", 203>>, <<"Quit", 205>>, <<"StartTls", 382>>}

GenericErrors == {400, 401, 403, 480, 483, 500, 501, 502, 503, 504}

IsGenericError(kind, code) ==
  IF kind \in {"Capabilities", "Quit"} THEN code = 501
  ELSE /\ code \in GenericErrors
       /\ ~(kind \in {"Head", "Help", "Stat"} /\ code = 500)
       /\ ~(kind = "StartTls" /\ code \in {480, 483})
       /\ ~(kind \in AuthKind /\ code = 480)

IsSpecificError(kind, code) ==
  CASE kind \in {"Article", "Body", "Head", "Stat", "Over", "Hdr"} -> code \in {412, 420, 423, 430}
    [] kind = "Group" -> code = 411
    [] kind = "ListGroup" -> code \in {411, 412}
    [] kind = "Last" -> code \in {412, 420, 422}
    [] kind = "Next" -> code \in {412, 420, 421}
    [] kind = "Xover" -> code \in {412, 420}
    [] kind = "Xhdr" -> code \in {412, 420, 430}
    [] kind = "Post" -> code \in {440, 441}
    [] kind = "Ihave" -> code \in 435 .. 437
    [] kind = "Check" -> code \in {431, 438}
    [] kind = "TakeThis" -> code = 439
    [] kind \in AuthKind -> code \in {481, 482}
    [] kind = "StartTls" -> code = 580
    [] OTHER -> FALSE

StatusImpliesMultiline(code) == code \in {100, 101, 211, 215, 220, 221, 222, 224, 225, 230, 231, 282, 288}

(* ResponseDescriptor::for_request_status.                                 *)
Framing(kind, code) ==
  IF code >= 400 THEN
    IF kind = "Unknown" \/ IsGenericError(kind, code) \/ IsSpecificError(kind, code) THEN "SingleLine" ELSE "Unexpected"
  ELSE IF <<kind, code>> \in MultilineOf THEN "Multiline"
  ELSE IF <<kind, code>> \in SingleLineOf THEN "SingleLine"
  ELSE IF kind = "Unknown" THEN IF StatusImpliesMultiline(code) THEN "Multiline" ELSE "SingleLine"
  ELSE "Unexpected"
=============================================================================
