--------------------------- MODULE ClamdScanProofs ---------------------------
(***************************************************************************)
(* Proofs about ClamdScan, for any files, sizes, signature names, limits,  *)
(* buffers and timeouts: what a verdict means, which part of the file it   *)
(* is about, and how long a scan may take.                                 *)
(***************************************************************************)
EXTENDS ClamdScan, TLAPS

-----------------------------------------------------------------------------
(* The replies *)

LEMMA NameOfFile ==
  ASSUME TypeOK
  PROVE  Name[file] \in Seq({"OK", "other"})
  BY ConstantsOK DEF TypeOK

LEMMA ReplyShapes ==
  /\ CleanReply \in Seq(Endings) /\ Len(CleanReply) = 3
  /\ CleanReply[1] = "other" /\ CleanReply[2] = "OK" /\ CleanReply[3] = "NUL"
  /\ ErrorReply \in Seq(Endings) /\ Len(ErrorReply) = 2
  /\ ErrorReply[1] = "other" /\ ErrorReply[2] = "NUL"
  /\ <<"PONG", "NUL">> \in Seq(Endings)
  /\ <<>> \in Seq(Endings)
  BY DEF CleanReply, ErrorReply, Endings

LEMMA FoundShape ==
  ASSUME TypeOK
  PROVE  /\ FoundReply \in Seq(Endings)
         /\ Len(FoundReply) = Len(Name[file]) + 3
         /\ FoundReply[1] = "other"
         /\ \A k \in 2..(Len(Name[file]) + 1) : FoundReply[k] = Name[file][k - 1]
         /\ \A k \in 1..Len(Name[file]) : Name[file][k] \in {"OK", "other"}
         /\ FoundReply[Len(Name[file]) + 2] = "FOUND"
         /\ FoundReply[Len(Name[file]) + 3] = "NUL"
<1> DEFINE n == Name[file]
<1>1. n \in Seq({"OK", "other"}) /\ n \in Seq(Endings) /\ Len(n) \in Nat
  BY NameOfFile DEF Endings
<1>2. <<"other">> \in Seq(Endings) /\ <<"FOUND", "NUL">> \in Seq(Endings)
  BY DEF Endings
<1> HIDE DEF n
<1>3. <<"other">> \o n \in Seq(Endings) /\ Len(<<"other">> \o n) = Len(n) + 1
  BY <1>1, <1>2
<1>4. /\ FoundReply = (<<"other">> \o n) \o <<"FOUND", "NUL">>
      /\ FoundReply \in Seq(Endings) /\ Len(FoundReply) = Len(n) + 3
  BY <1>1, <1>2, <1>3 DEF FoundReply, n
<1>5. \A k \in 1..(Len(n) + 1) : FoundReply[k] = (<<"other">> \o n)[k]
  BY <1>1, <1>3, <1>4
<1>6. \A k \in 2..(Len(n) + 1) : (<<"other">> \o n)[k] = n[k - 1]
  BY <1>1
<1>7. (<<"other">> \o n)[1] = "other"
  BY <1>1
<1>8. FoundReply[Len(n) + 2] = "FOUND" /\ FoundReply[Len(n) + 3] = "NUL"
  BY <1>1, <1>3, <1>4
<1>9. \A k \in 1..Len(n) : n[k] \in {"OK", "other"}
  BY <1>1
<1>10. \A k \in 2..(Len(n) + 1) : FoundReply[k] = n[k - 1]
  BY <1>1, <1>5, <1>6
<1>11. FoundReply[1] = "other"
  BY <1>1, <1>5, <1>7
<1> QED  BY <1>4, <1>8, <1>9, <1>10, <1>11 DEF n

\* What Parse makes of the first k pieces of each reply.
LEMMA ParseOfReplies ==
  ASSUME TypeOK, NEW k \in Nat, k > 0, k <= Len(answer)
  PROVE  /\ answer = ErrorReply => Parse(k) = "error"
         /\ answer = CleanReply => Parse(k) \in {"clean", "error"}
         /\ answer = FoundReply =>
              \/ Parse(k) \in {"infected", "error"}
              \/ /\ k < Len(answer) /\ k > 1 /\ k <= Len(Name[file]) + 1
                 /\ Name[file][k - 1] = "OK"
<1>1. ASSUME answer = ErrorReply PROVE Parse(k) = "error"
  <2>1. k = 1 \/ k = 2
    BY <1>1, ReplyShapes
  <2>2. answer[1] = "other" /\ answer[2] = "NUL"
    BY <1>1, ReplyShapes
  <2> QED  BY <2>1, <2>2 DEF Parse, LastEnding
<1>2. ASSUME answer = CleanReply PROVE Parse(k) \in {"clean", "error"}
  <2>1. k = 1 \/ k = 2 \/ k = 3
    BY <1>2, ReplyShapes
  <2>2. answer[1] = "other" /\ answer[2] = "OK" /\ answer[3] = "NUL"
    BY <1>2, ReplyShapes
  <2> QED  BY <2>1, <2>2 DEF Parse, LastEnding
<1>3. ASSUME answer = FoundReply
      PROVE  \/ Parse(k) \in {"infected", "error"}
             \/ /\ k < Len(answer) /\ k > 1 /\ k <= Len(Name[file]) + 1
                /\ Name[file][k - 1] = "OK"
  <2>1. Len(Name[file]) \in Nat /\ Len(answer) = Len(Name[file]) + 3
    BY <1>3, NameOfFile, FoundShape
  <2>2. CASE k = 1
    <3>1. answer[1] = "other"
      BY <1>3, FoundShape
    <3> QED  BY <2>2, <3>1 DEF Parse, LastEnding
  <2>3. CASE k > 1 /\ k <= Len(Name[file]) + 1
    <3>1. answer[k] = Name[file][k - 1] /\ Name[file][k - 1] \in {"OK", "other"}
      BY <1>3, <2>1, <2>3, FoundShape
    <3> QED  BY <2>1, <2>3, <3>1 DEF Parse, LastEnding
  <2>4. CASE k = Len(Name[file]) + 2
    <3>1. answer[k] = "FOUND"
      BY <1>3, <2>4, FoundShape
    <3> QED  BY <2>1, <2>4, <3>1 DEF Parse, LastEnding
  <2>5. CASE k = Len(Name[file]) + 3
    <3>1. answer[k] = "NUL" /\ answer[k - 1] = "FOUND"
      BY <1>3, <2>1, <2>5, FoundShape
    <3> QED  BY <2>1, <2>5, <3>1 DEF Parse, LastEnding
  <2> QED  BY <2>1, <2>2, <2>3, <2>4, <2>5
<1> QED  BY <1>1, <1>2, <1>3

-----------------------------------------------------------------------------
(* The properties follow from the invariant. *)

LEMMA TruthFollows == IInv => TruthUnlessTorn
<1> SUFFICES ASSUME IInv, result \in {"clean", "infected"}
             PROVE  TruthUnlessTorn
  BY DEF TruthUnlessTorn
<1>1. TypeOK /\ ResultIsRead /\ AnswerIsTrue /\ ReadInOrder
  BY DEF IInv
<1>2. CASE job = "clamscan"
  BY <1>1, <1>2 DEF ResultIsRead, TruthUnlessTorn
<1>3. CASE job = "scan"
  <2>1. heard > 0 /\ result = Parse(heard) /\ heard <= Len(answer) /\ heard \in Nat
    BY <1>1, <1>3 DEF ResultIsRead, ReadInOrder, TypeOK
  <2>2. answer # <<>>
    BY <2>1
  <2>3. /\ answer = ErrorReply => Parse(heard) = "error"
        /\ answer = CleanReply => Parse(heard) \in {"clean", "error"}
        /\ answer = FoundReply =>
             \/ Parse(heard) \in {"infected", "error"}
             \/ /\ heard < Len(answer) /\ heard > 1 /\ heard <= Len(Name[file]) + 1
                /\ Name[file][heard - 1] = "OK"
    BY <1>1, <2>1, ParseOfReplies
  <2>4. answer = IF file \in Malware THEN FoundReply ELSE CleanReply
    BY <1>1, <1>3, <2>1, <2>2, <2>3 DEF AnswerIsTrue
  <2> QED
    BY <1>3, <2>1, <2>3, <2>4 DEF TruthUnlessTorn, Truth, Torn
<1>4. CASE job = "probe"
  BY <1>1, <1>4 DEF ResultIsRead
<1> QED  BY <1>1, <1>2, <1>3, <1>4 DEF TypeOK

LEMMA WholeFileFollows == IInv => VerdictOnWholeFile
<1> SUFFICES ASSUME IInv, job = "scan", result \in {"clean", "infected"}
             PROVE  got = Size[file] /\ Size[file] <= StreamMax
  BY DEF VerdictOnWholeFile
<1>1. TypeOK /\ heard > 0 /\ result = Parse(heard) /\ heard <= Len(answer) /\ heard \in Nat
  BY DEF IInv, ResultIsRead, ReadInOrder, TypeOK
<1>2. answer # <<>> /\ answer # ErrorReply
  BY <1>1, ParseOfReplies
<1> QED  BY <1>2 DEF IInv, AnswerIsTrue

-----------------------------------------------------------------------------
(* The initial states, and one step.  What the driver does leaves the      *)
(* daemon alone, and the other way round, so each of the two is followed   *)
(* through the conjuncts it can disturb.                                   *)

LEMMA InitIInv == Init => IInv
<1> SUFFICES ASSUME Init PROVE IInv
  OBVIOUS
<1>1. Timeout \in Nat /\ Size[file] \in Nat
  BY ConstantsOK DEF Init
<1>2. TypeOK
  BY <1>1 DEF Init, TypeOK, Results
<1>3. OneJob /\ SentInOrder /\ ReadInOrder /\ AnswerIsTrue /\ ResultIsRead
  BY ConstantsOK DEF Init, OneJob, SentInOrder, ReadInOrder, AnswerIsTrue, ResultIsRead
<1>4. TimeIsCounted /\ ScanTimeBounded
  BY <1>1 DEF Init, TimeIsCounted, ScanTimeBounded
<1> QED  BY <1>2, <1>3, <1>4 DEF IInv

\* By what it does to the log and to the clock, a step of the driver connects,
\* writes, reads on, waits or ends.
Connects ==
  /\ pc = "connect" /\ pc' = "command" /\ waited' = 0
  /\ conn' = "open" /\ daemon' = daemon
  /\ UNCHANGED <<job, file, fed, sent, heard, result, elapsed, taken, got, answer, spoken>>

Writes(message, place) ==
  /\ pc' = place /\ waited' = 0
  /\ sent' = Append(sent, message)
  /\ UNCHANGED <<job, file, heard, result, elapsed, daemonVars>>
  /\ \/ /\ pc = "command" /\ fed' = fed
        /\ \/ job = "scan" /\ message = "INSTREAM" /\ place = "send"
           \/ job = "probe" /\ message = "PING" /\ place = "receive"
     \/ /\ pc = "send" /\ fed < Size[file] /\ fed' = fed + 1
        /\ message = "chunk" /\ place = "send"
     \/ /\ pc = "send" /\ fed = Size[file] /\ fed' = fed
        /\ message = "end" /\ place = "receive"

ReadsOn ==
  /\ pc = "receive" /\ waited' = 0
  /\ heard' \in (heard + 1)..spoken
  /\ UNCHANGED <<job, file, pc, fed, sent, result, elapsed, daemonVars>>

Waits ==
  /\ waited < Timeout /\ waited' = waited + 1 /\ elapsed' = elapsed + 1
  /\ pc # "done"
  /\ UNCHANGED <<job, file, pc, fed, sent, heard, result, daemonVars>>

Ends ==
  /\ pc # "done" /\ pc' = "done" /\ waited' = 0
  /\ heard' \in heard..spoken
  /\ result' \in Results
  /\ \/ result' = "error"
     \/ job = "clamscan" /\ result' \in {Truth, "raised"}
     \/ job = "scan" /\ result' = Parse(heard')
     \/ job = "probe" /\ result' \in {"available", "unavailable"}
  /\ UNCHANGED <<job, file, fed, sent, elapsed, daemonVars>>

DriverStep ==
  \/ Connects
  \/ \E message \in {"INSTREAM", "PING", "chunk", "end"}, place \in {"send", "receive"} :
       Writes(message, place)
  \/ ReadsOn
  \/ Waits
  \/ Ends

LEMMA DriverEffects ==
  ASSUME IInv, Driver \/ Mishap
  PROVE  DriverStep
<1>1. TypeOK /\ OneJob /\ ReadInOrder
  BY DEF IInv
<1>2. heard \in Nat /\ spoken \in Nat /\ heard \in heard..spoken
  BY <1>1 DEF TypeOK, ReadInOrder
<1>3. CASE Connect
  BY <1>3 DEF Connect, Connects, DriverStep
<1>4. CASE SendCommand
  <2>1. \/ Writes("INSTREAM", "send")
        \/ Writes("PING", "receive")
    BY <1>4 DEF SendCommand, Write, Writes
  <2> QED  BY <2>1 DEF DriverStep
<1>5. CASE SendChunk
  <2>1. Writes("chunk", "send")
    BY <1>5 DEF SendChunk, Write, Writes
  <2> QED  BY <2>1 DEF DriverStep
<1>6. CASE SendEnd
  <2>1. Writes("end", "receive")
    BY <1>6 DEF SendEnd, Write, Writes
  <2> QED  BY <2>1 DEF DriverStep
<1>7. ASSUME NEW k \in 1..Len(answer), Receive(k) PROVE DriverStep
  <2>1. pc = "receive" /\ k \in (heard + 1)..spoken /\ k \in heard..spoken /\ heard' = k
        /\ UNCHANGED <<job, file, fed, sent, elapsed, daemonVars>>
    BY <1>2, <1>7 DEF Receive
  <2>2. job \in {"scan", "probe"}
    BY <1>1, <2>1 DEF TypeOK, OneJob
  <2>3. CASE job = "probe"
    <3>1. Finish(ParsePong(k))
      BY <1>7, <2>3 DEF Receive
    <3>2. Ends
      BY <2>1, <2>3, <3>1 DEF Finish, ParsePong, Ends, Results
    <3> QED  BY <3>2 DEF DriverStep
  <2>4. CASE job = "scan" /\ answer[k] = "NUL"
    <3>1. Finish(Parse(k))
      BY <1>7, <2>4 DEF Receive
    <3>2. Parse(k) \in Results /\ result' = Parse(heard')
      BY <2>1, <3>1 DEF Finish, Parse, Results
    <3>3. Ends
      BY <2>1, <2>4, <3>1, <3>2 DEF Finish, Ends
    <3> QED  BY <3>3 DEF DriverStep
  <2>5. CASE job = "scan" /\ answer[k] # "NUL"
    <3>1. waited' = 0 /\ UNCHANGED <<pc, result>>
      BY <1>7, <2>5 DEF Receive
    <3>2. ReadsOn
      BY <2>1, <3>1 DEF ReadsOn
    <3> QED  BY <3>2 DEF DriverStep
  <2> QED  BY <2>2, <2>3, <2>4, <2>5
<1>8. CASE EndOfReply
  <2>1. job \in {"scan", "probe"} /\ pc = "receive" /\ heard' = heard
        /\ UNCHANGED <<job, file, fed, sent, elapsed, daemonVars>>
    BY <1>1, <1>8 DEF EndOfReply, TypeOK, OneJob
  <2>2. CASE job = "probe"
    <3>1. Ends
      BY <1>2, <1>8, <2>1, <2>2 DEF EndOfReply, Finish, Ends, Results
    <3> QED  BY <3>1 DEF DriverStep
  <2>3. CASE job = "scan"
    <3>1. Finish(Parse(heard))
      BY <1>8, <2>3 DEF EndOfReply
    <3>2. Parse(heard) \in Results /\ result' = Parse(heard')
      BY <2>1, <3>1 DEF Finish, Parse, Results
    <3>3. Ends
      BY <1>2, <2>1, <2>3, <3>1, <3>2 DEF Finish, Ends
    <3> QED  BY <3>3 DEF DriverStep
  <2> QED  BY <2>1, <2>2, <2>3
<1>9. CASE Tick
  <2>1. Waits
    BY <1>9 DEF Tick, Blocked, Waits
  <2> QED  BY <2>1 DEF DriverStep
<1>10. CASE Refused \/ TimeOut \/ ReadFails \/ Reset
  <2>1. Raise /\ pc # "done" /\ heard' = heard
        /\ UNCHANGED <<job, file, fed, sent, elapsed, daemonVars>>
    BY <1>10 DEF Refused, TimeOut, ReadFails, Reset, Blocked
  <2>2. Ends
    BY <1>2, <2>1 DEF Raise, Finish, Ends, Results
  <2> QED  BY <2>2 DEF DriverStep
<1>11. CASE ChildEnds
  <2>1. job = "clamscan" /\ pc = "child"
    BY <1>1, <1>11 DEF ChildEnds, OneJob
  <2>2. pc' = "done" /\ waited' = 0 /\ heard' = heard
        /\ result' \in {Truth, "error", "raised"}
        /\ UNCHANGED <<job, file, fed, sent, elapsed, daemonVars>>
    BY <1>11 DEF ChildEnds, Finish
  <2>3. Truth \in Results /\ "error" \in Results /\ "raised" \in Results
    BY DEF Truth, Results
  <2>4. Ends
    BY <1>2, <2>1, <2>2, <2>3 DEF Ends
  <2> QED  BY <2>4 DEF DriverStep
<1> QED
  BY <1>3, <1>4, <1>5, <1>6, <1>7, <1>8, <1>9, <1>10, <1>11 DEF Driver, Mishap

\* Everything the driver's steps are judged by.
LEMMA Facts ==
  ASSUME IInv
  PROVE  /\ TypeOK /\ OneJob /\ SentInOrder /\ ReadInOrder /\ AnswerIsTrue
         /\ ResultIsRead /\ TimeIsCounted /\ ScanTimeBounded
         /\ Timeout \in Nat /\ Size[file] \in Nat /\ StreamMax \in Nat
         /\ Len(sent) \in Nat /\ Len(answer) \in Nat
  BY ConstantsOK DEF IInv, TypeOK

LEMMA MoreCalls ==
  ASSUME NEW t \in Nat, NEW a \in Nat, NEW b \in Nat, a <= b
  PROVE  t * a <= t * b /\ t * (a + 1) = t * a + t /\ t * a \in Nat
  OBVIOUS

\* A call that has returned took a Timeout at most.
LEMMA Budget ==
  ASSUME NEW a \in Nat, NEW b \in Nat, NEW e \in Nat, NEW w \in Nat, a + 1 <= b,
         Timeout \in Nat, e <= Timeout * a + w, w <= Timeout
  PROVE  e <= Timeout * b /\ Timeout * b \in Nat
<1>1. Timeout * (a + 1) = Timeout * a + Timeout /\ Timeout * a \in Nat
  BY MoreCalls
<1>2. Timeout * (a + 1) <= Timeout * b /\ Timeout * b \in Nat
  <2>1. a + 1 \in Nat
    OBVIOUS
  <2> QED  BY <2>1, MoreCalls
<1> QED  BY <1>1, <1>2

LEMMA ConnectsKeeps ==
  ASSUME IInv, Connects
  PROVE  IInv'
<1> USE Facts
<1>1. TypeOK'
  BY DEF Connects, TypeOK
<1>2. OneJob' /\ SentInOrder'
  BY DEF Connects, OneJob, SentInOrder
<1>3. ReadInOrder' /\ AnswerIsTrue' /\ ResultIsRead'
  BY DEF Connects, ReadInOrder, AnswerIsTrue, ResultIsRead, ErrorReply, FoundReply, CleanReply,
         Parse, LastEnding, Truth
<1>4. elapsed <= Timeout /\ heard \in Nat /\ elapsed \in Nat
  BY DEF Connects, TypeOK, TimeIsCounted
<1>5. Timeout * 1 <= Timeout * (Len(sent) + heard + 1) /\ Timeout * 1 = Timeout
      /\ Timeout * 1 <= Timeout * (Len(sent) + heard + 2)
  BY <1>4, MoreCalls
<1>6. TimeIsCounted' /\ ScanTimeBounded'
  BY <1>4, <1>5 DEF Connects, TimeIsCounted, ScanTimeBounded
<1> QED  BY <1>1, <1>2, <1>3, <1>6 DEF IInv

LEMMA WritesKeeps ==
  ASSUME IInv, NEW message \in {"INSTREAM", "PING", "chunk", "end"},
         NEW place \in {"send", "receive"}, Writes(message, place)
  PROVE  IInv'
<1> USE Facts
<1>1. /\ job' = job /\ file' = file /\ heard' = heard /\ result' = result
      /\ elapsed' = elapsed /\ daemon' = daemon /\ conn' = conn /\ taken' = taken
      /\ got' = got /\ answer' = answer /\ spoken' = spoken
      /\ pc' = place /\ waited' = 0 /\ sent' = Append(sent, message)
  BY DEF Writes, daemonVars
<1>2. fed' \in Nat
  BY DEF Writes, TypeOK
<1>3. TypeOK'
  BY <1>1, <1>2 DEF TypeOK
<1>4. OneJob'
  BY <1>1 DEF Writes, OneJob
<1>5. /\ Len(sent') = Len(sent) + 1 /\ sent'[Len(sent) + 1] = message
      /\ \A i \in 1..Len(sent) : sent'[i] = sent[i]
  BY <1>1 DEF TypeOK
<1>6. pc \in {"command", "send"}
  BY DEF Writes
<1>7. SentInOrder'
  <2>1. CASE pc = "command" /\ job = "scan"
    <3>1. Len(sent) = 0 /\ fed' = 0 /\ message = "INSTREAM" /\ place = "send"
      BY <2>1 DEF Writes, SentInOrder
    <3> QED  BY <1>1, <1>5, <2>1, <3>1 DEF SentInOrder
  <2>2. CASE pc = "command" /\ job = "probe"
    <3>1. Len(sent) = 0 /\ message = "PING" /\ place = "receive"
      BY <2>2 DEF Writes, SentInOrder
    <3> QED  BY <1>1, <1>5, <2>2, <3>1 DEF SentInOrder
  <2>3. CASE pc = "send"
    <3>1. job = "scan" /\ Len(sent) = fed + 1 /\ fed \in Nat
      BY <2>3 DEF OneJob, SentInOrder, TypeOK
    <3>2. \/ fed < Size[file] /\ fed' = fed + 1 /\ message = "chunk" /\ place = "send"
          \/ fed = Size[file] /\ fed' = fed /\ message = "end" /\ place = "receive"
      BY <2>3 DEF Writes
    <3>3. message = IF Len(sent) + 1 = 1 THEN "INSTREAM"
                    ELSE IF Len(sent) + 1 = Size[file] + 2 THEN "end" ELSE "chunk"
      BY <3>1, <3>2
    <3>4. \A i \in 1..Len(sent') :
             sent'[i] = IF i = 1 THEN "INSTREAM"
                        ELSE IF i = Size[file] + 2 THEN "end" ELSE "chunk"
      BY <1>5, <3>1, <3>3 DEF SentInOrder
    <3> QED  BY <1>1, <1>5, <3>1, <3>2, <3>4 DEF SentInOrder
  <2> QED
    BY <1>6, <2>1, <2>2, <2>3 DEF TypeOK, OneJob
<1>8. ReadInOrder'
  BY <1>1, <1>5 DEF ReadInOrder, TypeOK
<1>9. AnswerIsTrue' /\ ResultIsRead'
  BY <1>1 DEF AnswerIsTrue, ResultIsRead, ErrorReply, FoundReply, CleanReply, Parse, LastEnding,
              Truth
<1>10. elapsed <= Timeout * (Len(sent) + heard + 1) + waited /\ waited <= Timeout
       /\ heard \in Nat /\ elapsed \in Nat /\ waited \in Nat
  BY <1>6 DEF TimeIsCounted, TypeOK
<1>11. /\ Len(sent) + heard + 1 \in Nat /\ Len(sent') + heard + 1 \in Nat
       /\ Len(sent') + heard + 2 \in Nat
       /\ (Len(sent) + heard + 1) + 1 <= Len(sent') + heard + 1
       /\ (Len(sent) + heard + 1) + 1 <= Len(sent') + heard + 2
  BY <1>5, <1>10
<1>12. /\ elapsed <= Timeout * (Len(sent') + heard + 1)
       /\ Timeout * (Len(sent') + heard + 1) \in Nat
       /\ elapsed <= Timeout * (Len(sent') + heard + 2)
  BY <1>10, <1>11, Budget
<1>13. TimeIsCounted' /\ ScanTimeBounded'
  BY <1>1, <1>12 DEF TimeIsCounted, ScanTimeBounded
<1> QED  BY <1>3, <1>4, <1>7, <1>8, <1>9, <1>13 DEF IInv

LEMMA ReadsOnKeeps ==
  ASSUME IInv, ReadsOn
  PROVE  IInv'
<1> USE Facts
<1>1. /\ pc' = pc /\ pc = "receive" /\ waited' = 0 /\ heard' \in (heard + 1)..spoken
      /\ UNCHANGED <<job, file, fed, sent, result, elapsed, daemon, conn, taken, got, answer,
                     spoken>>
  BY DEF ReadsOn, daemonVars
<1>2. heard \in Nat /\ spoken \in Nat /\ heard' \in Nat /\ waited \in Nat /\ elapsed \in Nat
      /\ waited <= Timeout /\ heard + 1 <= heard' /\ heard' <= spoken
  BY <1>1 DEF TypeOK
<1>3. TypeOK' /\ OneJob' /\ SentInOrder'
  BY <1>1, <1>2 DEF TypeOK, OneJob, SentInOrder
<1>4. ReadInOrder' /\ AnswerIsTrue'
  BY <1>1, <1>2 DEF ReadInOrder, AnswerIsTrue, ErrorReply, FoundReply, CleanReply
<1>5. ResultIsRead'
  BY <1>1 DEF OneJob, ResultIsRead, Truth
<1>6. /\ Len(sent) + heard + 1 \in Nat /\ Len(sent) + heard' + 1 \in Nat
      /\ Len(sent) + heard' + 2 \in Nat
      /\ (Len(sent) + heard + 1) + 1 <= Len(sent) + heard' + 1
      /\ (Len(sent) + heard + 1) + 1 <= Len(sent) + heard' + 2
  BY <1>2
<1>7. elapsed <= Timeout * (Len(sent) + heard + 1) + waited
  BY <1>1 DEF TimeIsCounted
<1>8. /\ elapsed <= Timeout * (Len(sent) + heard' + 1)
      /\ Timeout * (Len(sent) + heard' + 1) \in Nat
      /\ elapsed <= Timeout * (Len(sent) + heard' + 2)
  BY <1>2, <1>6, <1>7, Budget
<1>9. TimeIsCounted' /\ ScanTimeBounded'
  BY <1>1, <1>2, <1>8 DEF TimeIsCounted, ScanTimeBounded
<1> QED  BY <1>3, <1>4, <1>5, <1>9 DEF IInv

LEMMA WaitsKeeps ==
  ASSUME IInv, Waits
  PROVE  IInv'
<1> USE Facts
<1>1. /\ waited < Timeout /\ waited' = waited + 1 /\ elapsed' = elapsed + 1 /\ pc # "done"
      /\ UNCHANGED <<job, file, pc, fed, sent, heard, result, daemon, conn, taken, got, answer,
                     spoken>>
  BY DEF Waits, daemonVars
<1>2. heard \in Nat /\ waited \in Nat /\ elapsed \in Nat /\ waited + 1 <= Timeout
  BY <1>1 DEF TypeOK
<1>3. TypeOK' /\ OneJob' /\ SentInOrder'
  BY <1>1, <1>2 DEF TypeOK, OneJob, SentInOrder
<1>4. ReadInOrder' /\ AnswerIsTrue' /\ ResultIsRead'
  BY <1>1 DEF ReadInOrder, AnswerIsTrue, ResultIsRead, ErrorReply, FoundReply, CleanReply, Parse,
              LastEnding, Truth
<1>5. /\ Timeout * ((Len(sent) + heard + 1) + 1) = Timeout * (Len(sent) + heard + 1) + Timeout
      /\ (Len(sent) + heard + 1) + 1 = Len(sent) + heard + 2
      /\ Timeout * (Len(sent) + heard + 1) \in Nat
  BY <1>2, MoreCalls
<1>6. elapsed <= Timeout * (Len(sent) + heard + 1) + waited
      /\ (pc \in {"connect", "child"} => elapsed <= waited)
  BY <1>1 DEF TimeIsCounted
<1>7. TimeIsCounted' /\ ScanTimeBounded'
  BY <1>1, <1>2, <1>5, <1>6 DEF TimeIsCounted, ScanTimeBounded
<1> QED  BY <1>3, <1>4, <1>7 DEF IInv

LEMMA EndsKeeps ==
  ASSUME IInv, Ends
  PROVE  IInv'
<1> USE Facts
<1>1. /\ pc # "done" /\ pc' = "done" /\ waited' = 0 /\ heard' \in heard..spoken
      /\ UNCHANGED <<job, file, fed, sent, elapsed, daemon, conn, taken, got, answer, spoken>>
  BY DEF Ends, daemonVars
<1>2. heard \in Nat /\ spoken \in Nat /\ heard' \in Nat /\ waited \in Nat /\ elapsed \in Nat
      /\ waited <= Timeout /\ heard <= heard' /\ heard' <= spoken
  BY <1>1 DEF TypeOK
<1>3. TypeOK' /\ OneJob' /\ SentInOrder'
  BY <1>1, <1>2 DEF Ends, TypeOK, OneJob, SentInOrder
<1>4. ReadInOrder' /\ AnswerIsTrue'
  BY <1>1, <1>2 DEF ReadInOrder, AnswerIsTrue, ErrorReply, FoundReply, CleanReply
<1>5. ResultIsRead'
  <2>1. CASE result' = "error"
    BY <1>1, <2>1 DEF ResultIsRead
  <2>2. CASE job = "clamscan" /\ result' \in {Truth, "raised"}
    BY <1>1, <2>2 DEF ResultIsRead, Truth
  <2>3. CASE job = "scan" /\ result' = Parse(heard')
    <3>1. heard' = 0 => Parse(heard') = "error"
      BY DEF Parse
    <3> QED  BY <1>1, <1>2, <2>3, <3>1 DEF ResultIsRead, Parse, LastEnding
  <2>4. CASE job = "probe" /\ result' \in {"available", "unavailable"}
    BY <1>1, <2>4 DEF ResultIsRead
  <2> QED  BY <2>1, <2>2, <2>3, <2>4 DEF Ends
<1>6. /\ Len(sent) + heard + 1 \in Nat /\ Len(sent) + heard' + 2 \in Nat
      /\ (Len(sent) + heard + 1) + 1 <= Len(sent) + heard' + 2
  BY <1>2
<1>7. elapsed <= Timeout * (Len(sent) + heard + 1) + waited
  BY <1>1 DEF TimeIsCounted
<1>8. elapsed <= Timeout * (Len(sent) + heard' + 2)
  BY <1>2, <1>6, <1>7, Budget
<1>9. TimeIsCounted' /\ ScanTimeBounded'
  BY <1>1, <1>8 DEF TimeIsCounted, ScanTimeBounded
<1> QED  BY <1>3, <1>4, <1>5, <1>9 DEF IInv

\* What clamd does leaves the driver's side as it is.
LEMMA ClamdKeeps ==
  ASSUME IInv, Clamd
  PROVE  IInv'
<1> USE Facts
<1>1. UNCHANGED <<job, file, pc, fed, sent, heard, result, waited, elapsed>>
  BY DEF Clamd, Take, Speak, HangUp, Wedge, driverVars
<1>2. OneJob' /\ SentInOrder' /\ TimeIsCounted' /\ ScanTimeBounded'
  BY <1>1 DEF OneJob, SentInOrder, TimeIsCounted, ScanTimeBounded
<1>3. CASE Take
  <2>1. /\ answer = <<>> /\ taken < Len(sent) /\ taken' = taken + 1
        /\ UNCHANGED <<daemon, conn, spoken>>
    BY <1>3 DEF Take
  <2>2. spoken = 0 /\ heard = 0 /\ taken \in Nat /\ got \in Nat
    BY <2>1 DEF ReadInOrder, TypeOK
  <2> DEFINE m == sent[taken + 1]
  <2>3. /\ got' = IF m = "chunk" THEN got + 1 ELSE got
        /\ m = "PING" => answer' = <<"PONG", "NUL">>
        /\ m = "INSTREAM" => answer' = <<>>
        /\ m = "chunk" => answer' = IF got < StreamMax THEN <<>> ELSE ErrorReply
        /\ m = "end" => answer' \in {Verdict, ErrorReply}
    BY <1>3 DEF Take
  <2>4. m \in {"INSTREAM", "PING", "chunk", "end"}
    BY <2>1, <2>2 DEF TypeOK
  <2>5. Verdict \in Seq(Endings)
    BY ReplyShapes, FoundShape DEF Verdict
  <2> HIDE DEF m
  <2>6. answer' \in Seq(Endings) /\ got' \in Nat
    <3>1. <<"PONG", "NUL">> \in Seq(Endings) /\ ErrorReply \in Seq(Endings)
          /\ <<>> \in Seq(Endings)
      BY ReplyShapes
    <3>2. answer' \in {<<"PONG", "NUL">>, ErrorReply, <<>>, Verdict}
      BY <2>3, <2>4
    <3>3. got' \in Nat
      BY <2>2, <2>3
    <3>4. \A r \in {<<"PONG", "NUL">>, ErrorReply, <<>>, Verdict} : r \in Seq(Endings)
      BY <2>5, <3>1, Zenon
    <3> QED  BY <3>2, <3>3, <3>4, Zenon
  <2>7. TypeOK'
    BY <1>1, <2>1, <2>2, <2>6 DEF TypeOK
  <2>8. result \notin {"clean", "infected"} \/ job # "scan"
    BY <2>2 DEF ResultIsRead
  <2>9. ResultIsRead'
    BY <1>1, <2>8 DEF ResultIsRead, Truth
  <2>10. ASSUME job = "scan"
         PROVE  m = IF taken = 0 THEN "INSTREAM"
                    ELSE IF taken = Size[file] + 1 THEN "end" ELSE "chunk"
    BY <2>1, <2>2, <2>10 DEF SentInOrder, m
  <2>11. ReadInOrder' /\ AnswerIsTrue'
    <3>1. /\ taken' <= Len(sent') /\ heard' <= spoken' /\ spoken' <= Len(answer')
      BY <1>1, <2>1, <2>2, <2>6
    <3>2. CASE job # "scan"
      BY <1>1, <3>1, <3>2 DEF ReadInOrder, AnswerIsTrue
    <3>3. CASE job = "scan" /\ taken = 0
      BY <1>1, <2>1, <2>2, <2>3, <2>10, <3>1, <3>3 DEF ReadInOrder, AnswerIsTrue
    <3>4. CASE job = "scan" /\ taken = Size[file] + 1
      <4>1. m = "end" /\ got' = got /\ got = Size[file] /\ got <= StreamMax
        BY <2>1, <2>2, <2>3, <2>10, <3>4 DEF ReadInOrder
      <4>2. Verdict # <<>> /\ ErrorReply # <<>>
        <5>1. Len(CleanReply) > 0 /\ Len(ErrorReply) > 0 /\ Len(FoundReply) > 0
          BY ReplyShapes, FoundShape, NameOfFile
        <5> QED  BY <5>1 DEF Verdict
      <4>3. answer' \in {Verdict, ErrorReply} /\ answer' # <<>>
        BY <2>3, <4>1, <4>2
      <4>4. FoundReply' = FoundReply /\ CleanReply' = CleanReply /\ ErrorReply' = ErrorReply
        BY <1>1 DEF FoundReply, CleanReply, ErrorReply
      <4> QED
        BY <1>1, <3>1, <3>4, <4>1, <4>3, <4>4 DEF ReadInOrder, AnswerIsTrue, Verdict
    <3>5. CASE job = "scan" /\ taken # 0 /\ taken # Size[file] + 1
      <4>1. m = "chunk" /\ taken = got + 1 /\ got <= StreamMax
        BY <2>1, <2>2, <2>10, <3>5 DEF ReadInOrder
      <4>2. got' = got + 1 /\ answer' = IF got < StreamMax THEN <<>> ELSE ErrorReply
        BY <2>3, <4>1
      <4>3. ErrorReply # <<>> /\ ErrorReply' = ErrorReply
        BY ReplyShapes DEF ErrorReply
      <4> QED
        BY <1>1, <2>1, <2>2, <3>1, <3>5, <4>1, <4>2, <4>3 DEF ReadInOrder, AnswerIsTrue
    <3> QED  BY <3>2, <3>3, <3>4, <3>5
  <2> QED  BY <1>2, <2>7, <2>9, <2>11 DEF IInv
<1>4. CASE Speak \/ HangUp \/ Wedge
  <2>1. /\ UNCHANGED <<taken, got, answer>>
        /\ daemon' \in {"up", "wedged", "down"} /\ conn' \in {"none", "open", "closed"}
        /\ spoken' \in Nat /\ spoken <= spoken' /\ spoken' <= Len(answer)
    BY <1>4 DEF Speak, HangUp, Wedge, TypeOK, ReadInOrder
  <2>2. TypeOK'
    BY <1>1, <2>1 DEF TypeOK
  <2>3. ReadInOrder'
    BY <1>1, <2>1 DEF ReadInOrder, TypeOK
  <2>4. AnswerIsTrue' /\ ResultIsRead'
    BY <1>1, <2>1 DEF AnswerIsTrue, ResultIsRead, ErrorReply, FoundReply, CleanReply, Parse,
                      LastEnding, Truth
  <2> QED  BY <1>2, <2>2, <2>3, <2>4 DEF IInv
<1> QED  BY <1>3, <1>4 DEF Clamd

LEMMA NextIInv == IInv /\ [Next]_vars => IInv'
<1> SUFFICES ASSUME IInv, [Next]_vars PROVE IInv'
  OBVIOUS
<1>1. CASE Driver \/ Mishap
  BY <1>1, DriverEffects, ConnectsKeeps, WritesKeeps, ReadsOnKeeps, WaitsKeeps, EndsKeeps
  DEF DriverStep
<1>2. CASE Clamd
  BY <1>2, ClamdKeeps
<1>3. CASE UNCHANGED vars
  BY <1>3
  DEF vars, driverVars, daemonVars, IInv, TypeOK, OneJob, SentInOrder, ReadInOrder, AnswerIsTrue,
      ResultIsRead, TimeIsCounted, ScanTimeBounded, ErrorReply, FoundReply, CleanReply, Parse,
      LastEnding, Truth
<1> QED  BY <1>1, <1>2, <1>3 DEF Next

-----------------------------------------------------------------------------

(* The invariant of a scan: what was written, read and answered, in order, *)
(* what was made of it, and the time it took.                              *)
THEOREM Invariance == Spec => []IInv
  BY InitIInv, NextIInv, PTL DEF Spec

(* A verdict is the truth but for a reply that was cut inside the name of  *)
(* a signature, after an "ok".                                             *)
THEOREM VerdictsAreTrue == Spec => []TruthUnlessTorn
  BY Invariance, TruthFollows, PTL

(* A verdict of clamd is about all of the file.                            *)
THEOREM VerdictsAreComplete == Spec => []VerdictOnWholeFile
  BY Invariance, WholeFileFollows, PTL

(* A scan takes at most a Timeout for each call on the socket.             *)
THEOREM TimeIsBounded == Spec => []ScanTimeBounded
<1>1. IInv => ScanTimeBounded
  BY DEF IInv
<1> QED  BY <1>1, Invariance, PTL
=============================================================================
