------------------------- MODULE MCClientConnection -------------------------
(* Small instances of ClientConnection: two callers and the calls each run *)
(* lets them make.                                                         *)
EXTENDS ClientConnection, TLC

CallOf(kind) == [kind |-> kind, article |-> FALSE, large |-> FALSE]

ArticleCall(kind) == [CallOf(kind) EXCEPT !.article = TRUE]

LargeCall == [CallOf("TakeThis") EXCEPT !.large = TRUE]

(* Commands that share the pipeline, one that carries an article, one that *)
(* ends the session.                                                       *)
SharedCalls == {CallOf("Date"), ArticleCall("Post"), CallOf("Quit")}

(* The same, with a POST that leaves the article out in place of QUIT.     *)
TransferCalls == {CallOf("Date"), ArticleCall("Post"), CallOf("Post")}

(* Commands that need the capability list, and those that change it.       *)
CapabilityCalls == {CallOf("Over"), CallOf("ModeReader"), CallOf("Capabilities")}

(* The same with authentication, and a command that the writer holds.      *)
AuthCalls == {CallOf("AuthInfoUser"), CallOf("Hdr"), LargeCall}

Symmetry == Permutations(Caller)
=============================================================================
