------------------------------ MODULE ClamdScan ------------------------------
(***************************************************************************)
(* The scanner drivers of app/scanner.py: one scan of a file, or one probe *)
(* of the daemon, against a clamd that may be down, wedge, refuse a large  *)
(* file, answer word by word or die at any point; and one run of the       *)
(* clamscan binary.                                                        *)
(*                                                                         *)
(* A connection is two logs with a cursor each, what was written and how   *)
(* much of it the other side has read: a TCP stream loses and reorders     *)
(* nothing, but ends anywhere.  A reply is told by its endings: the k-th   *)
(* element of `answer` is how the text ends once its k-th piece is there,  *)
(* which is all that scan and available look at.                           *)
(***************************************************************************)
EXTENDS Naturals, Sequences

CONSTANTS
  Files,      \* contents that may be scanned
  Size,       \* Size[f]: number of _CHUNKs of f
  Malware,    \* the files clamd has a signature for
  Name,       \* Name[f]: the endings of the signature's name as it arrives
  StreamMax,  \* clamd's StreamMaxLength, in chunks
  Buffer,     \* messages the socket takes before sendall blocks
  Timeout     \* AV_TIMEOUT, in ticks of the clock

Endings == {"OK", "FOUND", "PONG", "NUL", "other"}

ASSUME ConstantsOK ==
  /\ Size \in [Files -> Nat]
  /\ Malware \subseteq Files
  /\ Name \in [Files -> Seq({"OK", "other"})]
  /\ StreamMax \in Nat
  /\ Buffer \in Nat \ {0}
  /\ Timeout \in Nat

VARIABLES
  job,      \* "scan", "probe" or "clamscan"
  file,     \* the file of a scan
  pc,       \* where the driver has got to
  fed,      \* chunks it has sent
  sent,     \* everything it has written to the socket
  heard,    \* pieces of the answer it has received
  result,   \* what it returns: a status, "error" (ScanError) or "raised"
  waited,   \* ticks its present blocking call has taken
  elapsed,  \* ticks since it began
  daemon,   \* "up", "wedged" (serves nobody) or "down"
  conn,     \* the connection: "none", "open" or "closed" (by the daemon)
  taken,    \* messages the daemon has read
  got,      \* chunks among them
  answer,   \* the endings of its reply, once it has one
  spoken    \* pieces of the reply it has written

driverVars == <<job, file, pc, fed, sent, heard, result, waited, elapsed>>
daemonVars == <<daemon, conn, taken, got, answer, spoken>>
vars == <<driverVars, daemonVars>>

Results == {"none", "clean", "infected", "error", "raised", "available", "unavailable"}

TypeOK ==
  /\ job \in {"scan", "probe", "clamscan"}
  /\ file \in Files
  /\ pc \in {"connect", "command", "send", "receive", "child", "done"}
  /\ fed \in Nat
  /\ sent \in Seq({"INSTREAM", "PING", "chunk", "end"})
  /\ heard \in Nat
  /\ result \in Results
  /\ waited \in 0..Timeout
  /\ elapsed \in Nat
  /\ daemon \in {"up", "wedged", "down"}
  /\ conn \in {"none", "open", "closed"}
  /\ taken \in Nat
  /\ got \in Nat
  /\ answer \in Seq(Endings)
  /\ spoken \in Nat

Init ==
  /\ job \in {"scan", "probe", "clamscan"}
  /\ file \in Files
  /\ pc = IF job = "clamscan" THEN "child" ELSE "connect"
  /\ fed = 0 /\ sent = <<>> /\ heard = 0
  /\ result = "none"
  /\ waited = 0 /\ elapsed = 0
  /\ daemon \in {"up", "wedged", "down"}
  /\ conn = "none"
  /\ taken = 0 /\ got = 0 /\ answer = <<>> /\ spoken = 0

-----------------------------------------------------------------------------
(* What clamd and clamscan answer *)

Truth == IF file \in Malware THEN "infected" ELSE "clean"

CleanReply == <<"other", "OK", "NUL">>
ErrorReply == <<"other", "NUL">>
FoundReply == <<"other">> \o Name[file] \o <<"FOUND", "NUL">>

\* Of a stream that is not the whole file, the signature may be missing.
Verdict == IF file \in Malware /\ got = Size[file] THEN FoundReply ELSE CleanReply

-----------------------------------------------------------------------------
(* How the driver reads an answer *)

\* The last ending of the text, without the trailing NUL.
LastEnding(k) == IF k > 1 /\ answer[k] = "NUL" THEN answer[k - 1] ELSE answer[k]

\* (A slip, for the mutation runs, as are the definitions marked ... below.)
\* Whatever is not found is clean.
ParseUnlessFound(k) ==
  IF k = 0 THEN "error"
  ELSE IF LastEnding(k) = "FOUND" THEN "infected"
  ELSE "clean"

\* scan: body.upper().endswith("OK"), endswith("FOUND"), or a ScanError.
Parse(k) ==
  IF k = 0 THEN "error"
  ELSE IF LastEnding(k) = "OK" THEN "clean"
  ELSE IF LastEnding(k) = "FOUND" THEN "infected"
  ELSE "error"

\* available: bytes.strip takes off blanks and line ends, and no NUL.
ParsePong(k) == IF k = 1 /\ answer[1] = "PONG" THEN "available" ELSE "unavailable"

-----------------------------------------------------------------------------
(* The driver *)

Finish(r) ==
  /\ pc' = "done"
  /\ result' = r
  /\ waited' = 0

\* An OSError or a socket.timeout, in scan and in available.
Raise == Finish(IF job = "probe" THEN "unavailable" ELSE "error")

Connect ==
  /\ pc = "connect" /\ daemon = "up"
  /\ pc' = "command"
  /\ conn' = "open"
  /\ waited' = 0
  /\ UNCHANGED <<job, file, fed, sent, heard, result, elapsed, daemon, taken, got, answer, spoken>>

Refused ==
  /\ pc = "connect" /\ daemon = "down"
  /\ Raise
  /\ UNCHANGED <<job, file, fed, sent, heard, elapsed, daemonVars>>

\* The socket takes a message; what is written after the daemon has closed is
\* taken too, until its reset arrives.
Writable == conn = "closed" \/ Len(sent) - taken < Buffer

Write(message, place) ==
  /\ Writable
  /\ sent' = Append(sent, message)
  /\ pc' = place
  /\ waited' = 0
  /\ UNCHANGED <<job, file, heard, result, elapsed, daemonVars>>

SendCommand ==
  /\ pc = "command"
  /\ \/ job = "scan" /\ Write("INSTREAM", "send")
     \/ job = "probe" /\ Write("PING", "receive")
  /\ UNCHANGED fed

SendChunk ==
  /\ pc = "send" /\ fed < Size[file]
  /\ Write("chunk", "send")
  /\ fed' = fed + 1

\* ... with a loop that ends one chunk early.
SendEndEarly ==
  /\ pc = "send" /\ fed + 1 >= Size[file]
  /\ Write("end", "receive")
  /\ UNCHANGED fed

SendEnd ==
  /\ pc = "send" /\ fed = Size[file]
  /\ Write("end", "receive")
  /\ UNCHANGED fed

\* path.open or fp.read raises an OSError: a sweep has removed the blob.
ReadFails ==
  /\ pc = "send"
  /\ Raise
  /\ UNCHANGED <<job, file, fed, sent, heard, elapsed, daemonVars>>

\* recv returns some of what is there.  scan goes on until a NUL has come;
\* available takes what the first recv returns.
Receive(k) ==
  /\ pc = "receive"
  /\ k \in (heard + 1)..spoken
  /\ heard' = k
  /\ IF job = "probe" THEN Finish(ParsePong(k))
     ELSE IF answer[k] = "NUL" THEN Finish(Parse(k))
     ELSE waited' = 0 /\ UNCHANGED <<pc, result>>
  /\ UNCHANGED <<job, file, fed, sent, elapsed, daemonVars>>

\* ... without `if not part: break`.
EndOfReplySpins ==
  /\ pc = "receive" /\ conn = "closed" /\ heard = spoken
  /\ UNCHANGED vars

\* recv returns b"": scan reads what it has as the reply.
EndOfReply ==
  /\ pc = "receive" /\ conn = "closed" /\ heard = spoken
  /\ Finish(IF job = "probe" THEN "unavailable" ELSE Parse(heard))
  /\ UNCHANGED <<job, file, fed, sent, heard, elapsed, daemonVars>>

\* A reset instead, in any call on the socket; unread pieces are lost with it.
Reset ==
  /\ pc \in {"command", "send", "receive"} /\ conn = "closed"
  /\ Raise
  /\ UNCHANGED <<job, file, fed, sent, heard, elapsed, daemonVars>>

\* The call that the driver is in cannot go on.
Blocked ==
  \/ pc = "connect" /\ daemon = "wedged"
  \/ pc \in {"command", "send"} /\ ~Writable
  \/ pc = "receive" /\ conn = "open" /\ heard = spoken
  \/ pc = "child"

Tick ==
  /\ Blocked /\ waited < Timeout
  /\ waited' = waited + 1
  /\ elapsed' = elapsed + 1
  /\ UNCHANGED <<job, file, pc, fed, sent, heard, result, daemonVars>>

\* `except socket.timeout: continue` around the call.
TimeOutRetried ==
  /\ Blocked /\ waited = Timeout
  /\ waited' = 0
  /\ UNCHANGED <<job, file, pc, fed, sent, heard, result, elapsed, daemonVars>>

\* The timeout is one of each call, not of the scan.
TimeOut ==
  /\ Blocked /\ waited = Timeout
  /\ Raise
  /\ UNCHANGED <<job, file, fed, sent, heard, elapsed, daemonVars>>

\* subprocess.run returns: exit 0, 1, or anything else (an error, a signal); or
\* it raises: there is no such binary, or it may not be run (PermissionError).
ChildEnds ==
  /\ pc = "child"
  /\ \E r \in {Truth, "error", "raised"} : Finish(r)
  /\ UNCHANGED <<job, file, fed, sent, heard, elapsed, daemonVars>>

-----------------------------------------------------------------------------
(* clamd *)

\* It reads on until it has an answer; a stream beyond StreamMax is one, and so
\* is a failure of its own.
Take ==
  /\ daemon = "up" /\ conn = "open" /\ answer = <<>>
  /\ taken < Len(sent)
  /\ taken' = taken + 1
  /\ LET m == sent[taken + 1] IN
       /\ got' = IF m = "chunk" THEN got + 1 ELSE got
       /\ answer' \in CASE m = "PING" -> {<<"PONG", "NUL">>}
                        [] m = "INSTREAM" -> {<<>>}
                        [] m = "chunk" -> {IF got < StreamMax THEN <<>> ELSE ErrorReply}
                        [] m = "end" -> {Verdict, ErrorReply}
  /\ UNCHANGED <<driverVars, daemon, conn, spoken>>

Speak ==
  /\ daemon = "up" /\ conn = "open"
  /\ spoken < Len(answer)
  /\ spoken' = spoken + 1
  /\ UNCHANGED <<driverVars, daemon, conn, taken, got, answer>>

\* clamd closes after its reply, or dies and its kernel closes for it.
HangUp ==
  /\ conn = "open"
  /\ \/ answer # <<>> /\ spoken = Len(answer) /\ daemon' = daemon
     \/ daemon' = "down"
  /\ conn' = "closed"
  /\ UNCHANGED <<driverVars, taken, got, answer, spoken>>

Wedge ==
  /\ daemon = "up"
  /\ daemon' = "wedged"
  /\ UNCHANGED <<driverVars, conn, taken, got, answer, spoken>>

-----------------------------------------------------------------------------

\* What the driver does by itself.
Driver ==
  \/ Connect \/ Refused
  \/ SendCommand \/ SendChunk \/ SendEnd
  \/ \E k \in 1..Len(answer) : Receive(k)
  \/ EndOfReply
  \/ Tick \/ TimeOut

\* What others do to it.
Mishap == ReadFails \/ Reset \/ ChildEnds

Clamd == Take \/ Speak \/ HangUp \/ Wedge

Next == Driver \/ Mishap \/ Clamd

Spec == Init /\ [][Next]_vars

(***************************************************************************)
(* A driver that can go on does, and time passes while it cannot.  Nothing *)
(* is assumed of the daemon, of the binary or of the network.              *)
(***************************************************************************)
FairSpec == Spec /\ WF_vars(Driver)

-----------------------------------------------------------------------------

\* The reply was cut off before its terminator.
Torn == heard < Len(answer)

(***************************************************************************)
(* A verdict is the truth: whatever the daemon does, the driver calls no   *)
(* clean file infected, and calls malware clean in one case only, a reply  *)
(* that was cut inside the name of the signature, just after an "ok".      *)
(***************************************************************************)
TruthUnlessTorn ==
  result \in {"clean", "infected"} =>
    \/ result = Truth
    \/ /\ job = "scan" /\ Torn
       /\ heard > 1 /\ heard <= Len(Name[file]) + 1 /\ Name[file][heard - 1] = "OK"

(***************************************************************************)
(* clamd's verdict is about the whole file: no part of it was cut off by   *)
(* the end of the loop, by clamd's limit or by a connection that closed.   *)
(***************************************************************************)
VerdictOnWholeFile ==
  job = "scan" /\ result \in {"clean", "infected"} =>
    got = Size[file] /\ Size[file] <= StreamMax

(***************************************************************************)
(* How long a request may be kept: AV_TIMEOUT for each call on the socket, *)
(* of which there are as many as the file has chunks and the reply pieces, *)
(* and not AV_TIMEOUT in all.                                              *)
(***************************************************************************)
ScanTimeBounded ==
  elapsed <= Timeout * (Len(sent) + heard + 2)

(***************************************************************************)
(* Every scan and probe returns, whether the daemon answers, wedges or     *)
(* trickles.                                                               *)
(***************************************************************************)
ScanReturns == <>(pc = "done")

(***************************************************************************)
(* A daemon that answers a probe is available: build_scanner turns to None *)
(* only for a backend that is "not reachable".  scan waits for the NUL     *)
(* that ends an answer to a z-command, and takes it off; available leaves  *)
(* it on, and compares.                                                    *)
(***************************************************************************)
AnsweringDaemonIsAvailable ==
  job = "probe" /\ pc = "done" /\ answer # <<>> /\ heard = Len(answer) =>
    result = "available"

-----------------------------------------------------------------------------
(* The inductive invariant behind them. *)

\* A driver has one job to the end, and a result when it has done it.
OneJob ==
  /\ pc = "child" <=> job = "clamscan" /\ pc # "done"
  /\ pc # "done" => result = "none"
  /\ pc = "send" => job = "scan"

\* What was written: the command, the chunks one by one, and the end.
SentInOrder ==
  /\ pc \in {"connect", "command"} => sent = <<>> /\ fed = 0
  /\ job = "probe" => \A i \in 1..Len(sent) : sent[i] = "PING"
  /\ job = "clamscan" => sent = <<>>
  /\ job = "scan" =>
       /\ pc = "send" => Len(sent) = fed + 1
       /\ \A i \in 1..Len(sent) :
            sent[i] = IF i = 1 THEN "INSTREAM"
                      ELSE IF i = Size[file] + 2 THEN "end" ELSE "chunk"

\* What has been read of it, and of the answer.
ReadInOrder ==
  /\ taken <= Len(sent)
  /\ spoken <= Len(answer)
  /\ heard <= spoken
  /\ job = "scan" /\ answer = <<>> =>
       /\ got <= StreamMax
       /\ taken > 0 => taken = got + 1
       /\ taken = 0 => got = 0

\* What the daemon answers.
AnswerIsTrue ==
  job = "scan" =>
    \/ answer \in {<<>>, ErrorReply}
    \/ /\ answer = IF file \in Malware THEN FoundReply ELSE CleanReply
       /\ got = Size[file] /\ got <= StreamMax

\* What the driver returns of it.
ResultIsRead ==
  /\ job = "scan" /\ result \in {"clean", "infected"} => heard > 0 /\ result = Parse(heard)
  /\ job = "probe" => result \notin {"clean", "infected"}
  /\ job = "clamscan" => result \in {"none", "error", "raised", Truth}

\* The time that is used up by the calls that have returned, and this one.
TimeIsCounted ==
  /\ pc = "done" => waited = 0
  /\ pc # "done" => elapsed <= Timeout * (Len(sent) + heard + 1) + waited
  /\ pc \in {"connect", "child"} => elapsed <= waited

IInv ==
  /\ TypeOK
  /\ OneJob
  /\ SentInOrder
  /\ ReadInOrder
  /\ AnswerIsTrue
  /\ ResultIsRead
  /\ TimeIsCounted
  /\ ScanTimeBounded
=============================================================================
