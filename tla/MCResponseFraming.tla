------------------------- MODULE MCResponseFraming -------------------------
(* The readers of multiline responses, one at a time: the framer, the      *)
(* client's receiver, the load session's reader and the block-wise         *)
(* scanners.  part says which one a behaviour is about; the variables of   *)
(* the others keep their initial values.                                   *)
EXTENDS Terminator, SequencesExt

VARIABLES
  part,
  text, framer, complete, end, content,
  stream, taken, frames, failed,
  pending, ready, step, kind, decoder, base,
  buffer, start, capacity, pc, expected, multiline, loadFramer, responseLen,
  scanner, data, offset, result, done

framerVars == <<text, framer, complete, end, content>>
streamVars == <<stream, taken, frames, failed>>
receiverVars == <<pending, ready, step, kind, decoder, base>>
loadVars == <<buffer, start, capacity, pc, expected, multiline, loadFramer, responseLen>>
scannerVars == <<scanner, data, offset, result, done>>

(* Every text of up to seven bytes over CR, LF, dot and one other byte.    *)
AllTexts == SeqOf({CR, LF, DOT, "x"}, 7)

(* A MultilineFramer fed one text in chunks of any size.                   *)
FramerInit ==
  /\ text \in AllTexts
  /\ framer = NewFramer
  /\ complete = FALSE /\ end = 0 /\ content = 0

(* push(chunk) for the next n bytes; the caller adds up what it consumed.  *)
Push(n) ==
  /\ ~complete /\ framer.fed + n <= Len(text)
  /\ LET progress == FramerPush(framer, SubSeq(text, framer.fed + 1, framer.fed + n))
     IN  /\ framer' = progress.framer
         /\ complete' = progress.complete
         /\ end' = IF progress.complete THEN framer.fed + progress.consumed ELSE 0
         /\ content' = progress.content
  /\ UNCHANGED text

FramerNext == \E n \in 0..Len(text) : Push(n)

(* Two responses, or a response and noise, in every combination of a few   *)
(* status lines and contents.                                              *)
Line(status) == <<status, CR, LF>>

Lines == {Line("2"), Line("4"), Line("9"), <<"2", "!", CR, LF>>, <<"2", LF>>,
          <<"2", "x", "x", CR, LF>>, <<"3", "x", "x", CR, LF>>,
          <<"3", "x", "x", "x", CR, LF>>}

Contents == {<<>>, <<DOT, CR, LF>>, <<"x", CR, LF, DOT, CR, LF>>,
             <<"!", CR, LF, DOT, CR, LF>>, <<DOT, CR, CR, LF, DOT, CR, LF>>,
             <<"x", CR, LF, DOT, CR>>}

TwoResponses ==
  {r \o s : r \in {l \o c : l \in {Line("2"), Line("4")}, c \in Contents},
            s \in {Line("4"), Line("2") \o DOT_TERMINATOR, Line("9")}}

ReceiverStreams == {l \o c : l \in Lines, c \in Contents} \cup TwoResponses

(* One to three responses to ARTICLE and STAT, some with an id, some not.  *)
IdLine(id) == <<"2">> \o id \o <<CR, LF>>

IdM == <<"<", "m", ">">>

IdN == <<"<", "n", ">">>

Articles == {IdLine(id) \o c : id \in {<<>>, IdM},
             c \in {<<DOT, CR, LF>>, <<"x", CR, LF, DOT, CR, LF>>, <<"x", "x", "x", "x", "x", CR, LF, DOT, CR, LF>>,
                    <<"x", CR, LF, DOT>>}}

Short == {<<"4", CR, LF>>, IdLine(IdN), <<"2", "<", "m", CR, LF>>, <<"9", CR, LF>>}

LoadStreams == {a \o b : a \in Articles \cup Short,
                         b \in {<<>>, IdLine(IdM), IdLine(<<>>) \o <<DOT, CR, LF>>, IdLine(IdM) \o <<DOT, CR>>}}

Expectations ==
  {[kind |-> "Article", id |-> <<>>], [kind |-> "Article", id |-> IdM], [kind |-> "Stat", id |-> IdM]}

(* Data with a terminator at each of seven places, between bytes that are  *)
(* its own or that collide under OR (form feed and SOH give CR), and data  *)
(* of the terminator's bytes alone.                                        *)
Scan == INSTANCE VectorScanner WITH
  Scanners <- {"repeat", "or_cr", "or_lf", "avx2"}, Texts <- {}, Width <- 2, Lane <- 4, Lanes <- 2, text <- data

ScanTexts ==
  {before \o Scan!Pattern \o after : before \in SeqOf({Scan!CR, Scan!LF, {2, 3}, {0}}, 6),
                                     after \in {<<>>, <<Scan!CR>>, <<Scan!LF, Scan!CR>>}}
    \cup SeqOf({Scan!CR, Scan!LF, Scan!Dot}, 7)

Scanner == INSTANCE VectorScanner WITH
  Scanners <- {"repeat", "or_cr", "or_lf", "avx2"}, Texts <- ScanTexts, Width <- 2, Lane <- 4, Lanes <- 2, text <- data

Receiver == INSTANCE ResponseReceiver WITH
  Streams <- ReceiverStreams, MaxLine <- 4, MaxSaslLine <- 5, MaxReceives <- 2

Load == INSTANCE LoadReader WITH
  Streams <- LoadStreams, MaxLine <- 7, MaxSaslLine <- 7, ReadBytes <- 4, MinSpare <- 2, MaxResponse <- 10,
  MaxResponses <- 3, framer <- loadFramer

-----------------------------------------------------------------------------
NoFramer == text = <<>> /\ framer = NewFramer /\ complete = FALSE /\ end = 0 /\ content = 0

NoStream == stream = <<>> /\ taken = 0 /\ frames = <<>> /\ failed = "none"

NoReceiver == pending = <<>> /\ ready = TRUE /\ step = "idle" /\ kind = "none" /\ decoder = "none" /\ base = 0

NoLoad ==
  /\ buffer = <<>> /\ start = 0 /\ capacity = 0 /\ pc = "idle" /\ expected = "none" /\ multiline = FALSE
  /\ loadFramer = NewFramer /\ responseLen = 0

NoScanner == scanner = "none" /\ data = <<>> /\ offset = 0 /\ result = 0 /\ done = FALSE

FramingInit ==
  \/ part = "framer" /\ FramerInit /\ NoStream /\ NoReceiver /\ NoLoad /\ NoScanner
  \/ part = "receiver" /\ Receiver!Init /\ NoFramer /\ NoLoad /\ NoScanner
  \/ part = "load" /\ Load!Init /\ NoFramer /\ NoReceiver /\ NoScanner
  \/ part = "scanner" /\ Scanner!Init /\ NoFramer /\ NoStream /\ NoReceiver /\ NoLoad

FramingNext ==
  \/ part = "framer" /\ FramerNext /\ UNCHANGED <<part, streamVars, receiverVars, loadVars, scannerVars>>
  \/ part = "receiver" /\ Receiver!Next /\ UNCHANGED <<part, framerVars, loadVars, scannerVars>>
  \/ part = "load" /\ Load!Next /\ UNCHANGED <<part, framerVars, receiverVars, scannerVars>>
  \/ part = "scanner" /\ Scanner!Next /\ UNCHANGED <<part, framerVars, streamVars, receiverVars, loadVars>>

FramingSpec ==
  FramingInit /\ [][FramingNext]_<<part, framerVars, streamVars, receiverVars, loadVars, scannerVars>>

-----------------------------------------------------------------------------
(* Whatever the chunks, the framer finds the block that                    *)
(* find_dot_terminated_block finds in the unsplit text: complete exactly   *)
(* there, with the content before the dot line, and incomplete as long as  *)
(* the bytes fed hold no block (MultilineFramer::push).                    *)
FramerExact ==
  IF complete
  THEN end = DotTerminatedBlockEnd(text, 0) /\ content = end - Len(DOT_TERMINATOR)
  ELSE DotTerminatedBlockEnd(SubSeq(text, 1, framer.fed), 0) = 0

(* The receiver hands out the frames ResponseFrame::parse finds in the     *)
(* whole stream, fails only for a cause in the bytes it was given, and     *)
(* hands out nothing after a failed or cancelled receive                   *)
(* (BufferedResponseReceiver::receive).                                    *)
ReceiverExact ==
  /\ [](part = "receiver" => Receiver!FramesExact /\ Receiver!FailsForCause)
  /\ Receiver!FailureIsFinal

(* LoadResponseReader's verdicts are those of try_consume_response on the  *)
(* whole stream, and its buffer does not grow with the responses.          *)
VerdictExact == part = "load" => Load!VerdictExact /\ Load!BufferBound

(* Every scanner of vector_scanner.rs finds the first terminator.          *)
ScanExact == part = "scanner" => Scanner!ScanExact
=============================================================================
