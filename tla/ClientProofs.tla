---------------------------- MODULE ClientProofs ----------------------------
(***************************************************************************)
(* Proofs about Client: a call never returns the verdict on another one,   *)
(* for any number of calls and queues of any size.                         *)
(***************************************************************************)
EXTENDS Client, SequenceTheorems, TLAPS

-----------------------------------------------------------------------------
(* Queues.                                                                 *)

\* What is left of a queue was in it, one place behind.
LEMMA TailElements ==
    ASSUME NEW S, NEW s \in Seq(S), s # <<>>
    PROVE  /\ Head(s) \in S /\ Tail(s) \in Seq(S)
           /\ 1 \in DOMAIN s /\ Head(s) = s[1]
           /\ \A i \in DOMAIN Tail(s) :
                 i \in Nat \ {0} /\ i + 1 \in DOMAIN s /\ Tail(s)[i] = s[i + 1]
<1>1. /\ Head(s) \in S /\ Tail(s) \in Seq(S) /\ Len(Tail(s)) = Len(s) - 1
      /\ \A i \in 1..Len(Tail(s)) : Tail(s)[i] = s[i + 1]
  BY HeadTailProperties
<1>2. Len(s) \in Nat \ {0} /\ DOMAIN s = 1..Len(s) /\ DOMAIN Tail(s) = 1..Len(Tail(s))
  BY <1>1, LenProperties, EmptySeq
<1>3. Head(s) = s[1]
  BY <1>2
<1> QED
  BY <1>1, <1>2, <1>3

\* What is in a queue that grew was in it, or is the new frame at its end.
LEMMA AppendElements ==
    ASSUME NEW S, NEW s \in Seq(S), NEW e \in S
    PROVE  /\ Append(s, e) \in Seq(S)
           /\ \A i \in DOMAIN Append(s, e) :
                 \/ i \in DOMAIN s /\ Append(s, e)[i] = s[i]
                 \/ i = Len(s) + 1 /\ Append(s, e)[i] = e
<1>1. /\ Append(s, e) \in Seq(S) /\ Len(Append(s, e)) = Len(s) + 1
      /\ \A i \in 1..Len(s) : Append(s, e)[i] = s[i]
      /\ Append(s, e)[Len(s) + 1] = e
  BY AppendProperties
<1>2. Len(s) \in Nat /\ DOMAIN s = 1..Len(s)
      /\ DOMAIN Append(s, e) = 1..Len(Append(s, e))
  BY <1>1, LenProperties
<1> QED
  BY <1>1, <1>2

-----------------------------------------------------------------------------
(* Types.                                                                  *)

FrameTypes == ControlCalls \cup {"Hello", "Heartbeat", "Result", "Error",
                                 "ReportResult", "AssignWork", "ShutdownNotice",
                                 "nothing"}

Says == {"", "ok", "refused", "error"}

FrameRecord == [type : FrameTypes, n : Nat, says : Says]

ThreadRecord == [at : {"idle", "awake", "asleep", "done"}, step : Nat \ {0},
                 n : Nat, result : Says \cup {"none", "unsent", "lost"}]

\* Reports are an agent's own; its reader has some to send while it reports.
Typed ==
    /\ peer \in {"agent", "control"}
    /\ up \in Seq(FrameRecord) /\ down \in Seq(FrameRecord)
    /\ correlation \in 1..(MaxCalls + 1)
    /\ thread \in [Threads -> ThreadRecord]
    /\ slot \in FrameRecord
    /\ owed \in Seq([type : ReportTypes, n : Nat, says : Says])
    /\ reader # "none" => peer = "agent"
    /\ reader = "report" => owed # <<>>
    /\ answering \in FrameRecord
    /\ pushed \in Nat
    /\ decided \in [1..MaxCalls -> Says \cup {"open"}]

\* Frames are typed.
LEMMA FrameType ==
    ASSUME NEW type \in FrameTypes, NEW n \in Nat, NEW says \in Says
    PROVE  Frame(type, n, says) \in FrameRecord
  BY DEF Frame, FrameRecord

\* A thread that is back from its call has the number of the call and its result.
LEMMA ReturnedThread ==
    ASSUME thread \in [Threads -> ThreadRecord], NEW t \in Threads, NEW n \in Nat,
           NEW result \in Says \cup {"none", "unsent", "lost"}
    PROVE  /\ Returned(t, n, result) \in [Threads -> ThreadRecord]
           /\ Returned(t, n, result)[t].n = n
           /\ Returned(t, n, result)[t].result = result
           /\ \A u \in Threads \ {t} : Returned(t, n, result)[u] = thread[u]
  BY DEF Returned, ThreadRecord

\* Waking threads changes neither their calls nor their results.
LEMMA AwokenThreads ==
    ASSUME thread \in [Threads -> ThreadRecord]
    PROVE  /\ Awoken \in [Threads -> ThreadRecord]
           /\ \A t \in Threads : /\ Awoken[t].n = thread[t].n
                                 /\ Awoken[t].result = thread[t].result
  BY DEF Awoken, ThreadRecord

\* What a call puts into the queue is a request.
LEMMA CallKinds ==
    ASSUME Typed, Calls
    PROVE  \E t \in Threads, type \in FrameTypes : Call(t, type)
<1>1. "run" \in Threads /\ "user" \in Threads
  BY DEF Threads
<1>2. CASE InSetup("run") /\ Call("run", Setup[thread["run"].step])
  <2>1. thread["run"].step \in Nat \ {0}
    BY <1>1 DEF Typed, ThreadRecord
  <2>2. thread["run"].step \in 1..6
    BY <1>2, <2>1 DEF InSetup, Setup
  <2>3. \A i \in 1..6 : Setup[i] \in FrameTypes
    BY DEF Setup, FrameTypes, ControlCalls
  <2> QED
    BY <1>1, <1>2, <2>2, <2>3
<1>3. {"Hello", "Heartbeat"} \subseteq FrameTypes /\ UserCalls \subseteq FrameTypes
      /\ ControlCalls \subseteq FrameTypes
  BY DEF FrameTypes, UserCalls, ControlCalls
<1> QED
  BY <1>1, <1>2, <1>3 DEF Calls

\* The first frame of a queue and the rest of it are typed.
LEMMA FrameOut ==
    ASSUME Typed
    PROVE  /\ up # <<>> => /\ Head(up) \in FrameRecord /\ Head(up).n \in Nat
                           /\ Tail(up) \in Seq(FrameRecord)
           /\ down # <<>> => /\ Head(down) \in FrameRecord /\ Head(down).n \in Nat
                             /\ Head(down).says \in Says
                             /\ Tail(down) \in Seq(FrameRecord)
<1>1. up \in Seq(FrameRecord) /\ down \in Seq(FrameRecord)
  BY DEF Typed
<1>2. \A f \in FrameRecord : f.n \in Nat /\ f.says \in Says
  BY DEF FrameRecord
<1> QED
  BY <1>1, <1>2, TailElements

\* Every step keeps the types.
LEMMA TypedStep ==
    ASSUME Typed, [ClientNext]_vars
    PROVE  Typed'
<1>0. MaxCalls \in Nat \ {0}
  BY Sizes
<1>1. CASE UNCHANGED vars
  BY <1>1 DEF vars, calls, session, server, Typed
<1>2. CASE Calls
  <2>1. PICK t \in Threads, type \in FrameTypes : Call(t, type)
    BY <1>2, CallKinds
  <2>2. correlation \in Nat /\ correlation' = correlation + 1 /\ correlation \in 1..MaxCalls
    <3>1. correlation <= MaxCalls /\ correlation' = correlation + 1
      BY <2>1 DEF Call
    <3>2. correlation \in 1..(MaxCalls + 1)
      BY DEF Typed
    <3> QED
      BY <1>0, <3>1, <3>2
  <2> DEFINE r == [at |-> "awake", step |-> thread[t].step, n |-> correlation,
                   result |-> "none"]
  <2>3. thread' = Returned(t, correlation, "unsent") \/ thread' = [thread EXCEPT ![t] = r]
    <3>1. thread \in [Threads -> ThreadRecord]
      BY DEF Typed
    <3>2. [thread[t] EXCEPT !.at = "awake", !.n = correlation, !.result = "none"] = r
      <4> DEFINE r1 == [at |-> "awake", step |-> thread[t].step, n |-> thread[t].n,
                        result |-> thread[t].result]
      <4> DEFINE r2 == [at |-> "awake", step |-> thread[t].step, n |-> correlation,
                        result |-> thread[t].result]
      <4>1. thread[t] \in ThreadRecord
        BY <3>1
      <4>2. [thread[t] EXCEPT !.at = "awake"] = r1
        BY <4>1 DEF ThreadRecord
      <4>3. [r1 EXCEPT !.n = correlation] = r2 /\ [r2 EXCEPT !.result = "none"] = r
        OBVIOUS
      <4> HIDE DEF r1, r2, r
      <4> QED
        BY <4>2, <4>3
    <3>3. \/ thread' = Returned(t, correlation, "unsent")
          \/ thread' = [thread EXCEPT ![t].at = "awake", ![t].n = correlation,
                                      ![t].result = "none"]
      BY <2>1 DEF Call
    <3>4. [thread EXCEPT ![t].at = "awake", ![t].n = correlation, ![t].result = "none"]
            = [thread EXCEPT ![t] = [thread[t] EXCEPT !.at = "awake", !.n = correlation,
                                                      !.result = "none"]]
      BY <3>1
    <3> QED
      BY <3>2, <3>3, <3>4
  <2>4. thread' \in [Threads -> ThreadRecord]
    <3>1. Returned(t, correlation, "unsent") \in [Threads -> ThreadRecord]
      BY <2>2, ReturnedThread DEF Typed
    <3>2. thread \in [Threads -> ThreadRecord]
      BY DEF Typed
    <3>3. thread[t].step \in Nat \ {0}
      BY <3>2 DEF ThreadRecord
    <3>4. r \in ThreadRecord
      BY <2>2, <3>3 DEF ThreadRecord
    <3> HIDE DEF r
    <3> QED
      BY <2>3, <3>1, <3>2, <3>4
  <2>5. up' \in Seq(FrameRecord)
    <3>1. Frame(type, correlation, "") \in FrameRecord
      BY <2>2, FrameType DEF Says
    <3>2. up' = up \/ up' = Append(up, Frame(type, correlation, ""))
      BY <2>1 DEF Call
    <3>3. up \in Seq(FrameRecord)
      BY DEF Typed
    <3>4. Append(up, Frame(type, correlation, "")) \in Seq(FrameRecord)
      BY <3>1, <3>3, AppendProperties
    <3> QED
      BY <3>2, <3>3, <3>4
  <2>6. decided' \in [1..MaxCalls -> Says \cup {"open"}]
    <3>1. decided' = [n \in DOMAIN decided |->
                       IF n = thread[t].n THEN "open" ELSE decided[n]]
      BY <2>1 DEF Call
    <3>2. decided \in [1..MaxCalls -> Says \cup {"open"}]
      BY DEF Typed
    <3> QED
      BY <3>1, <3>2
  <2>7. UNCHANGED <<peer, down, slot, owed, reader, answering, pushed>>
    BY <2>1 DEF Call, session
  <2>8. correlation' \in 1..(MaxCalls + 1)
    BY <1>0, <2>2
  <2> QED
    BY <2>4, <2>5, <2>6, <2>7, <2>8 DEF Typed
<1>3. ASSUME NEW t \in Threads, Wake(t)
      PROVE  Typed'
  <2>1. slot.says \in Says /\ thread[t].n \in Nat
    BY DEF Typed, FrameRecord, ThreadRecord
  <2>2. thread' \in [Threads -> ThreadRecord]
    <3>1. [thread EXCEPT ![t].at = "asleep"] \in [Threads -> ThreadRecord]
      BY DEF Typed, ThreadRecord
    <3>2. \/ thread' = Returned(t, thread[t].n, slot.says)
          \/ thread' = Returned(t, thread[t].n, "lost")
          \/ thread' = [thread EXCEPT ![t].at = "asleep"]
      BY <1>3 DEF Wake
    <3>3. thread \in [Threads -> ThreadRecord]
      BY DEF Typed
    <3> QED
      BY <2>1, <3>1, <3>2, <3>3, ReturnedThread
  <2>3. slot' \in FrameRecord
    <3>1. Empty \in FrameRecord
      BY FrameType DEF Empty, FrameTypes, Says
    <3> QED
      BY <1>3, <3>1 DEF Wake, Typed
  <2>4. UNCHANGED <<peer, up, down, correlation, owed, reader, answering, pushed, decided>>
    BY <1>3 DEF Wake, session, server
  <2> QED
    BY <2>2, <2>3, <2>4 DEF Typed
<1>4. CASE RunEnds \/ OnClosed \/ StopEnds
  <2>1. "run" \in Threads
    BY DEF Threads
  <2>2. [thread EXCEPT !["run"].at = "done"] \in [Threads -> ThreadRecord]
    BY <2>1 DEF Typed, ThreadRecord
  <2>3. thread' \in [Threads -> ThreadRecord]
    BY <1>4, <2>2, AwokenThreads DEF RunEnds, OnClosed, StopEnds, LetGo, Typed
  <2>4. \/ (reader' # "none" => peer = "agent") /\ reader' # "report"
        \/ reader' = reader
    BY <1>4 DEF RunEnds, OnClosed, StopEnds, session, Typed
  <2>5. UNCHANGED <<peer, up, down, correlation, slot, owed, answering, pushed, decided>>
    BY <1>4 DEF RunEnds, OnClosed, StopEnds, session, server
  <2> QED
    BY <2>3, <2>4, <2>5 DEF Typed
<1>5. CASE ControlReads
  <2>1. "run" \in Threads
    BY DEF Threads
  <2>2. thread["run"].n \in Nat
    BY <2>1 DEF Typed, ThreadRecord
  <2>3. down # <<>> => Tail(down) \in Seq(FrameRecord) /\ Head(down).says \in Says
    BY FrameOut
  <2>4. down' \in Seq(FrameRecord)
    BY <1>5, <2>3 DEF ControlReads, Typed
  <2>5. thread' \in [Threads -> ThreadRecord]
    BY <1>5, <2>1, <2>2, <2>3, ReturnedThread DEF ControlReads, Typed
  <2> QED
    BY <1>5, <2>4, <2>5 DEF ControlReads, Typed, session, server
<1>6. CASE ReadFrame
  <2>1. /\ Head(down) \in FrameRecord /\ Tail(down) \in Seq(FrameRecord)
        /\ Head(down).n \in Nat
    BY <1>6, FrameOut DEF ReadFrame
  <2>2. down' \in Seq(FrameRecord) /\ slot' \in FrameRecord
    BY <1>6, <2>1 DEF ReadFrame, Typed
  <2>3. thread' \in [Threads -> ThreadRecord]
    BY <1>6, AwokenThreads DEF ReadFrame, Typed
  <2>4. \A n \in Nat : Reports(n) \in Seq([type : ReportTypes, n : Nat, says : Says])
                       /\ Reports(n) # <<>>
    BY DEF Reports, Frame, ReportTypes, Says
  <2>5. /\ owed' \in Seq([type : ReportTypes, n : Nat, says : Says])
        /\ reader' # "none" => peer = "agent"
        /\ reader' = "report" => owed' # <<>>
    BY <1>6, <2>1, <2>4 DEF ReadFrame, Typed
  <2> QED
    BY <1>6, <2>2, <2>3, <2>5 DEF ReadFrame, Typed, server
<1>7. CASE QueueReport
  <2> DEFINE R == [type : ReportTypes, n : Nat, says : Says]
  <2>1. owed \in Seq(R) /\ owed # <<>>
    BY <1>7 DEF QueueReport, Typed
  <2>2. Head(owed) \in R /\ Tail(owed) \in Seq(R) /\ Len(Tail(owed)) = Len(owed) - 1
        /\ Len(owed) \in Nat
    BY <2>1, HeadTailProperties, LenProperties
  <2>3. Head(owed) \in FrameRecord
    <3>1. ReportTypes \subseteq FrameTypes
      BY DEF ReportTypes, FrameTypes, ControlCalls
    <3> QED
      BY <2>2, <3>1 DEF FrameRecord
  <2>4. up' \in Seq(FrameRecord)
    BY <1>7, <2>3, AppendElements DEF QueueReport, Typed
  <2>5. reader' = "report" => Tail(owed) # <<>>
    <3>1. Tail(owed) = <<>> => Len(Tail(owed)) = 0
      BY EmptySeq
    <3> QED
      BY <1>7, <2>2, <3>1 DEF QueueReport
  <2> QED
    BY <1>7, <2>2, <2>4, <2>5 DEF QueueReport, Typed, calls, server
<1>8. CASE Connect \/ ReaderEnds \/ StopBegins \/ StopJoins
  BY <1>8 DEF Connect, ReaderEnds, StopBegins, StopJoins, Typed, calls, server
<1>9. CASE StopCloses \/ Cut
  <2>1. <<>> \in Seq(FrameRecord)
    BY EmptySeq
  <2> QED
    BY <1>9, <2>1 DEF StopCloses, Cut, Typed, calls, session, server
<1>10. CASE Handle
  <2>1. /\ Head(up) \in FrameRecord /\ Tail(up) \in Seq(FrameRecord)
        /\ Head(up).n \in Nat
    BY <1>10, FrameOut DEF Handle
  <2>2. Frame("ReportResult", 0, "") \in FrameRecord
    BY FrameType DEF FrameTypes, Says
  <2>3. \A type : Verdicts(type) \subseteq Says \ {""}
    BY DEF Verdicts, Says
  <2>4. \A says \in Says : /\ Frame("Error", Head(up).n, says) \in FrameRecord
                           /\ Frame("Result", Head(up).n, says) \in FrameRecord
    BY <2>1, FrameType DEF FrameTypes
  <2>5. answering' \in FrameRecord
    BY <1>10, <2>2, <2>3, <2>4 DEF Handle
  <2>6. decided' \in [1..MaxCalls -> Says \cup {"open"}]
    <3>1. decided' = decided
            \/ \E says \in Says : decided' = [decided EXCEPT ![Head(up).n] = says]
      BY <1>10, <2>3 DEF Handle
    <3>2. decided \in [1..MaxCalls -> Says \cup {"open"}]
      BY DEF Typed
    <3> QED
      BY <3>1, <3>2
  <2> QED
    BY <1>10, <2>1, <2>5, <2>6 DEF Handle, Typed, calls, session
<1>11. CASE Answer \/ Push \/ Notice
  <2>1. pushed \in Nat /\ answering \in FrameRecord /\ down \in Seq(FrameRecord)
    BY DEF Typed
  <2>2. Frame("AssignWork", pushed + 1, "") \in FrameRecord
        /\ Frame("ShutdownNotice", 0, "") \in FrameRecord
        /\ Empty \in FrameRecord
    <3>1. pushed + 1 \in Nat /\ "" \in Says
      BY <2>1 DEF Says
    <3>2. {"AssignWork", "ShutdownNotice", "nothing"} \subseteq FrameTypes
      BY DEF FrameTypes
    <3> QED
      BY <3>1, <3>2, FrameType DEF Empty
  <2>3. \/ down' = down
        \/ \E f \in FrameRecord : down' = Append(down, f)
    BY <1>11, <2>1, <2>2 DEF Answer, Push, Notice
  <2>4. down' \in Seq(FrameRecord)
    <3>1. \A f \in FrameRecord : Append(down, f) \in Seq(FrameRecord)
      BY <2>1, AppendProperties
    <3> QED
      BY <2>1, <2>3, <3>1
  <2>5. /\ answering' = answering \/ answering' = Empty
        /\ pushed' = pushed \/ pushed' = pushed + 1
    BY <1>11 DEF Answer, Push, Notice, server
  <2>6. UNCHANGED <<peer, up, correlation, thread, slot, owed, reader, decided>>
    BY <1>11 DEF Answer, Push, Notice, calls, session, server
  <2>7. answering' \in FrameRecord
    BY <2>1, <2>2, <2>5
  <2>8. pushed' \in Nat
    BY <2>1, <2>5
  <2> QED
    BY <2>4, <2>6, <2>7, <2>8 DEF Typed
<1> QED
  BY <1>1, <1>2, <1>3, <1>4, <1>5, <1>6, <1>7, <1>8, <1>9, <1>10, <1>11
     DEF ClientNext, Stop

-----------------------------------------------------------------------------
(* Whose verdict a call returns.                                           *)

\* The replies that are still to be fetched, wherever they are.
Replies == {r \in {slot, answering} \cup {down[i] : i \in DOMAIN down} :
               r.type \in {"Result", "Error"}}

\* The places in the queue of the calls that are still to be answered.
Asked == {i \in DOMAIN up : peer = "control" \/ up[i].type \notin ReportTypes}

\* Thread t's last call returned a verdict.
Concluded(t) == thread[t].result \in {"ok", "refused", "error"}

\* A call is asked, or answered, or concluded, each at most once, under its own
\* number; a reply that a thread may still fetch says what was decided.
VerdictInv ==
    /\ Typed
    /\ slot = Empty \/ slot.type = "Result"
    /\ \A i \in Asked :
         /\ up[i].n \in 1..(correlation - 1)
         /\ \A j \in Asked : up[j].n = up[i].n => j = i
         /\ \A r \in Replies : r.n # up[i].n
         /\ \A t \in Threads : Concluded(t) => thread[t].n # up[i].n
    /\ \A r \in Replies :
         /\ r.n \in 1..(correlation - 1)
         /\ \A t \in Threads : thread[t].n = r.n => decided[r.n] = r.says
    /\ \A t \in Threads :
         /\ thread[t].n \in 0..(correlation - 1)
         /\ Concluded(t) => thread[t].n # 0
         /\ \A u \in Threads : thread[u].n = thread[t].n /\ u # t => thread[t].n = 0
    /\ VerdictIsOwn


\* Typed steps that add neither calls nor replies, and let a thread conclude
\* only with what a reply to it says.
LEMMA Quiet ==
    ASSUME VerdictInv, Typed', correlation' = correlation, decided' = decided,
           slot' = Empty \/ slot'.type = "Result",
           NEW d \in {0, 1},
           \A i \in Asked' : i + d \in Asked /\ up'[i] = up[i + d],
           Replies' \subseteq Replies,
           \A t \in Threads :
             /\ thread'[t].n = thread[t].n
             /\ \/ ~Concluded(t)'
                \/ Concluded(t) /\ thread'[t].result = thread[t].result
                \/ \E r \in Replies : r.n = thread[t].n /\ thread'[t].result = r.says
    PROVE  VerdictInv'
<1>1. \A i \in Asked' : i \in Nat
  <2>1. DOMAIN up' = 1..Len(up') /\ Len(up') \in Nat
    BY LenProperties DEF Typed
  <2> QED
    BY <2>1 DEF Asked
<1>2. ASSUME NEW i \in Asked'
      PROVE  /\ up'[i].n \in 1..(correlation' - 1)
             /\ \A j \in Asked' : up'[j].n = up'[i].n => j = i
             /\ \A r \in Replies' : r.n # up'[i].n
             /\ \A t \in Threads : Concluded(t)' => thread'[t].n # up'[i].n
  <2>1. /\ up'[i].n \in 1..(correlation - 1)
        /\ \A j \in Asked : up[j].n = up'[i].n => j = i + d
        /\ \A r \in Replies : r.n # up'[i].n
        /\ \A t \in Threads : Concluded(t) => thread[t].n # up'[i].n
    BY DEF VerdictInv
  <2>2. \A j \in Asked' : up'[j].n = up'[i].n => j = i
    <3>1. ASSUME NEW j \in Asked', up'[j].n = up'[i].n
          PROVE  j = i
      <4>1. j + d = i + d
        BY <2>1, <3>1
      <4> QED
        BY <1>1, <4>1
    <3> QED
      BY <3>1
  <2> QED
    BY <2>1, <2>2
<1>3. \A r \in Replies' :
         /\ r.n \in 1..(correlation' - 1)
         /\ \A t \in Threads : thread'[t].n = r.n => decided'[r.n] = r.says
  BY DEF VerdictInv
<1>4. \A t \in Threads :
         /\ thread'[t].n \in 0..(correlation' - 1)
         /\ \A u \in Threads : thread'[u].n = thread'[t].n /\ u # t => thread'[t].n = 0
  BY DEF VerdictInv
<1>5. ASSUME NEW t \in Threads, Concluded(t)'
      PROVE  thread'[t].n # 0 /\ decided'[thread'[t].n] = thread'[t].result
  <2>1. CASE Concluded(t) /\ thread'[t].result = thread[t].result
    BY <2>1 DEF VerdictInv, VerdictIsOwn, Concluded
  <2>2. CASE \E r \in Replies : r.n = thread[t].n /\ thread'[t].result = r.says
    BY <2>2 DEF VerdictInv
  <2> QED
    BY <1>5, <2>1, <2>2
<1>6. VerdictIsOwn'
  BY <1>5 DEF VerdictIsOwn, Concluded
<1>7. slot' = Empty' \/ slot'.type = "Result"
  BY DEF Empty, Frame
<1>8. \A t \in Threads :
         /\ thread'[t].n \in 0..(correlation' - 1)
         /\ Concluded(t)' => thread'[t].n # 0
         /\ \A u \in Threads : thread'[u].n = thread'[t].n /\ u # t => thread'[t].n = 0
  BY <1>4, <1>5
<1> QED
  BY <1>2, <1>3, <1>6, <1>7, <1>8 DEF VerdictInv

\* A queue of calls that stays, loses what is in it, or gains a report.
LEMMA CallsAsked ==
    ASSUME Typed, Typed', peer' = peer,
           \/ up' = up
           \/ up' = <<>>
           \/ /\ peer = "agent"
              /\ \E f \in FrameRecord : f.type \in ReportTypes /\ up' = Append(up, f)
    PROVE  \A i \in Asked' : i + 0 \in Asked /\ up'[i] = up[i + 0]
<1> SUFFICES ASSUME NEW i \in Asked'
             PROVE  i + 0 \in Asked /\ up'[i] = up[i + 0]
  OBVIOUS
<1>1. i \in DOMAIN up' /\ DOMAIN up' = 1..Len(up') /\ Len(up') \in Nat
  BY LenProperties DEF Typed, Asked
<1>2. i + 0 = i
  <2>1. i \in 1..Len(up')
    BY <1>1
  <2>2. \A k \in 1..Len(up') : k + 0 = k
    OBVIOUS
  <2> QED
    BY <2>1, <2>2
<1>3. CASE up' = up
  BY <1>2, <1>3 DEF Asked
<1>4. CASE up' = <<>>
  <2>1. DOMAIN up' = {}
    BY <1>4
  <2> QED
    BY <1>1, <2>1
<1>5. ASSUME peer = "agent", NEW f \in FrameRecord, f.type \in ReportTypes,
             up' = Append(up, f)
      PROVE  i + 0 \in Asked /\ up'[i] = up[i + 0]
  <2>1. up \in Seq(FrameRecord)
    BY DEF Typed
  <2>2. (i \in DOMAIN up /\ up'[i] = up[i]) \/ up'[i] = f
    BY <1>1, <1>5, <2>1, AppendElements
  <2>3. up'[i] # f
    BY <1>5 DEF Asked
  <2> QED
    BY <1>2, <2>2, <2>3 DEF Asked
<1> QED
  BY <1>3, <1>4, <1>5

\* Replies that move on, and frames that are none.
LEMMA RepliesMove ==
    ASSUME Typed,
           slot' = slot \/ slot' = Empty \/ slot' \in Replies,
           answering' = answering \/ answering' = Empty
             \/ answering'.type \notin {"Result", "Error"},
           \A i \in DOMAIN down' :
             \/ down'[i].type \notin {"Result", "Error"}
             \/ down'[i] = answering
             \/ \E j \in DOMAIN down : down'[i] = down[j]
    PROVE  Replies' \subseteq Replies
<1>1. Empty.type = "nothing"
  BY DEF Empty, Frame
<1> QED
  BY <1>1 DEF Replies

\* What the queue to the client may become without a new reply in it.
LEMMA DownMoves ==
    ASSUME Typed,
           \/ down' = down
           \/ down' = <<>>
           \/ down # <<>> /\ down' = Tail(down)
           \/ \E f \in FrameRecord : /\ f.type \notin {"Result", "Error"} \/ f = answering
                                     /\ down' = Append(down, f)
    PROVE  \A i \in DOMAIN down' :
             \/ down'[i].type \notin {"Result", "Error"}
             \/ down'[i] = answering
             \/ \E j \in DOMAIN down : down'[i] = down[j]
<1>1. down \in Seq(FrameRecord)
  BY DEF Typed
<1>2. CASE down' = down
  BY <1>2
<1>3. CASE down' = <<>>
  <2>1. DOMAIN down' = {}
    BY <1>3
  <2> QED
    BY <2>1
<1>4. CASE down # <<>> /\ down' = Tail(down)
  <2>1. \A i \in DOMAIN Tail(down) : i + 1 \in DOMAIN down /\ Tail(down)[i] = down[i + 1]
    BY <1>1, <1>4, TailElements
  <2> QED
    BY <1>4, <2>1
<1>5. ASSUME NEW f \in FrameRecord, f.type \notin {"Result", "Error"} \/ f = answering,
             down' = Append(down, f)
      PROVE  \A i \in DOMAIN down' :
               \/ down'[i].type \notin {"Result", "Error"}
               \/ down'[i] = answering
               \/ \E j \in DOMAIN down : down'[i] = down[j]
  <2>1. \A i \in DOMAIN down' :
          (i \in DOMAIN down /\ down'[i] = down[i]) \/ down'[i] = f
    BY <1>1, <1>5, AppendElements
  <2> QED
    BY <1>5, <2>1
<1> QED
  BY <1>2, <1>3, <1>4, <1>5

\* A thread that returns the reply in hand, and one that returns without.
LEMMA Fetched ==
    ASSUME Typed, NEW t \in Threads, NEW n, n = thread[t].n,
           NEW result \in Says \cup {"none", "unsent", "lost"},
           \/ result \notin {"ok", "refused", "error"}
           \/ \E r \in Replies : r.n = n /\ result = r.says,
           thread' = Returned(t, n, result)
    PROVE  \A u \in Threads :
             /\ thread'[u].n = thread[u].n
             /\ \/ ~Concluded(u)'
                \/ Concluded(u) /\ thread'[u].result = thread[u].result
                \/ \E r \in Replies : r.n = thread[u].n /\ thread'[u].result = r.says
<1>1. thread \in [Threads -> ThreadRecord] /\ n \in Nat
  BY DEF Typed, ThreadRecord
<1>2. thread'[t].n = n /\ thread'[t].result = result
      /\ \A u \in Threads \ {t} : thread'[u] = thread[u]
  BY <1>1, ReturnedThread
<1>3. ASSUME NEW u \in Threads, u # t
      PROVE  /\ thread'[u].n = thread[u].n
             /\ (~Concluded(u)' \/ (Concluded(u) /\ thread'[u].result = thread[u].result))
  <2>1. thread'[u] = thread[u]
    BY <1>2, <1>3
  <2> QED
    BY <2>1 DEF Concluded
<1>4. ~Concluded(t)' \/ \E r \in Replies : r.n = n /\ thread'[t].result = r.says
  BY <1>2 DEF Concluded
<1> QED
  BY <1>2, <1>3, <1>4

\* Threads that stay as they are, or are woken.
LEMMA Undisturbed ==
    ASSUME Typed,
           \A u \in Threads : /\ thread'[u].n = thread[u].n
                              /\ thread'[u].result = thread[u].result
    PROVE  \A u \in Threads :
             /\ thread'[u].n = thread[u].n
             /\ \/ ~Concluded(u)'
                \/ Concluded(u) /\ thread'[u].result = thread[u].result
                \/ \E r \in Replies : r.n = thread[u].n /\ thread'[u].result = r.says
  BY DEF Concluded

\* Steps that leave the calls alone, or wake their threads.
LEMMA AsideSteps ==
    ASSUME VerdictInv, [ClientNext]_vars,
           \/ UNCHANGED vars \/ Connect \/ RunEnds \/ QueueReport \/ ReaderEnds
           \/ OnClosed \/ StopBegins \/ Stop \/ Answer \/ Push \/ Notice \/ Cut
    PROVE  VerdictInv'
<1>1. Typed /\ Typed'
  BY TypedStep DEF VerdictInv
<1>2. UNCHANGED <<peer, correlation, decided, slot>>
  <2>1. CASE UNCHANGED vars \/ Connect \/ RunEnds \/ QueueReport
    BY <2>1 DEF vars, Connect, RunEnds, QueueReport, calls, session, server
  <2>2. CASE ReaderEnds \/ OnClosed \/ StopBegins \/ Stop
    BY <2>2 DEF ReaderEnds, OnClosed, StopBegins, Stop, StopCloses, StopJoins, StopEnds,
                calls, session, server
  <2>3. CASE Answer \/ Push \/ Notice \/ Cut
    BY <2>3 DEF Answer, Push, Notice, Cut, calls, session, server
  <2> QED
    BY <2>1, <2>2, <2>3
<1>3. \A u \in Threads : thread'[u].n = thread[u].n /\ thread'[u].result = thread[u].result
  <2>1. CASE RunEnds
    BY <1>1, <2>1 DEF RunEnds, Typed, ThreadRecord
  <2>2. CASE OnClosed \/ StopEnds
    BY <1>1, <2>2, AwokenThreads DEF OnClosed, StopEnds, LetGo, Typed
  <2>3. CASE UNCHANGED vars \/ Connect \/ QueueReport \/ ReaderEnds \/ StopBegins
    BY <2>3 DEF vars, Connect, QueueReport, ReaderEnds, StopBegins, calls
  <2>4. CASE StopCloses \/ StopJoins \/ Answer \/ Push \/ Notice \/ Cut
    BY <2>4 DEF StopCloses, StopJoins, Answer, Push, Notice, Cut, calls
  <2> QED
    BY <2>1, <2>2, <2>3, <2>4 DEF Stop
<1>4. \/ up' = up
      \/ up' = <<>>
      \/ /\ peer = "agent"
         /\ \E f \in FrameRecord : f.type \in ReportTypes /\ up' = Append(up, f)
  <2>1. CASE QueueReport
    <3> DEFINE R == [type : ReportTypes, n : Nat, says : Says]
    <3>1. peer = "agent" /\ owed \in Seq(R) /\ owed # <<>>
      BY <1>1, <2>1 DEF QueueReport, Typed
    <3>2. Head(owed) \in R
      BY <3>1, HeadTailProperties
    <3>3. ReportTypes \subseteq FrameTypes
      BY DEF ReportTypes, FrameTypes, ControlCalls
    <3>4. Head(owed) \in FrameRecord /\ Head(owed).type \in ReportTypes
      BY <3>2, <3>3 DEF FrameRecord
    <3>5. up' = up \/ up' = Append(up, Head(owed))
      BY <2>1 DEF QueueReport
    <3> QED
      BY <3>1, <3>4, <3>5
  <2>2. CASE UNCHANGED vars \/ Connect \/ RunEnds \/ ReaderEnds \/ OnClosed
    BY <2>2 DEF vars, Connect, RunEnds, ReaderEnds, OnClosed
  <2>3. CASE StopBegins \/ Stop \/ Answer \/ Push \/ Notice \/ Cut
    BY <2>3 DEF StopBegins, Stop, StopCloses, StopJoins, StopEnds, Answer, Push, Notice, Cut
  <2> QED
    BY <2>1, <2>2, <2>3
<1>5. \/ down' = down
      \/ down' = <<>>
      \/ down # <<>> /\ down' = Tail(down)
      \/ \E f \in FrameRecord : /\ f.type \notin {"Result", "Error"} \/ f = answering
                                /\ down' = Append(down, f)
  <2>1. CASE UNCHANGED vars \/ Connect \/ RunEnds \/ QueueReport \/ ReaderEnds \/ OnClosed
    BY <2>1 DEF vars, Connect, RunEnds, QueueReport, ReaderEnds, OnClosed
  <2>2. CASE StopBegins \/ Stop \/ Cut
    BY <2>2 DEF StopBegins, Stop, StopCloses, StopJoins, StopEnds, Cut
  <2>3. CASE Answer
    BY <1>1, <2>3 DEF Answer, Typed
  <2>4. CASE Push
    <3>0. pushed \in Nat
      BY <1>1 DEF Typed
    <3>1. pushed + 1 \in Nat /\ "" \in Says /\ "AssignWork" \in FrameTypes
      BY <3>0 DEF Says, FrameTypes
    <3>2. Frame("AssignWork", pushed + 1, "") \in FrameRecord
      BY <3>1, FrameType
    <3>3. Frame("AssignWork", pushed + 1, "").type \notin {"Result", "Error"}
      BY DEF Frame
    <3> QED
      BY <2>4, <3>2, <3>3 DEF Push
  <2>5. CASE Notice
    <3>1. 0 \in Nat /\ "" \in Says /\ "ShutdownNotice" \in FrameTypes
      BY DEF Says, FrameTypes
    <3>2. Frame("ShutdownNotice", 0, "") \in FrameRecord
      BY <3>1, FrameType
    <3>3. Frame("ShutdownNotice", 0, "").type \notin {"Result", "Error"}
      BY DEF Frame
    <3> QED
      BY <2>5, <3>2, <3>3 DEF Notice
  <2> QED
    BY <2>1, <2>2, <2>3, <2>4, <2>5
<1>6. answering' = answering \/ answering' = Empty
  <2>1. CASE UNCHANGED vars \/ Connect \/ RunEnds \/ QueueReport \/ ReaderEnds \/ OnClosed
    BY <2>1 DEF vars, Connect, RunEnds, QueueReport, ReaderEnds, OnClosed, server
  <2>2. CASE StopBegins \/ Stop \/ Answer \/ Push \/ Notice \/ Cut
    BY <2>2 DEF StopBegins, Stop, StopCloses, StopJoins, StopEnds, Answer, Push, Notice, Cut,
                server
  <2> QED
    BY <2>1, <2>2
<1>7. Replies' \subseteq Replies
  <2>1. \A i \in DOMAIN down' :
          \/ down'[i].type \notin {"Result", "Error"}
          \/ down'[i] = answering
          \/ \E j \in DOMAIN down : down'[i] = down[j]
    BY <1>1, <1>5, DownMoves
  <2> QED
    BY <1>1, <1>2, <1>6, <2>1, RepliesMove
<1>8. \A i \in Asked' : i + 0 \in Asked /\ up'[i] = up[i + 0]
  BY <1>1, <1>2, <1>4, CallsAsked
<1>9. slot' = Empty \/ slot'.type = "Result"
  BY <1>2 DEF VerdictInv
<1> QED
  BY <1>1, <1>2, <1>3, <1>7, <1>8, <1>9, Quiet, Undisturbed

\* A thread of an agent looks into the slot.
LEMMA WakeStep ==
    ASSUME VerdictInv, [ClientNext]_vars, NEW t \in Threads, Wake(t)
    PROVE  VerdictInv'
<1>1. Typed /\ Typed'
  BY TypedStep DEF VerdictInv
<1>2. thread \in [Threads -> ThreadRecord] /\ slot \in FrameRecord
  BY <1>1 DEF Typed
<1>3. slot.says \in Says
  BY <1>2 DEF FrameRecord
<1>4. UNCHANGED <<peer, up, down, correlation, answering, decided>>
  BY DEF Wake, session, server
<1>5. \/ Answered(t) /\ thread' = Returned(t, thread[t].n, slot.says) /\ slot' = Empty
      \/ thread' = Returned(t, thread[t].n, "lost") /\ slot' = slot
      \/ thread' = [thread EXCEPT ![t].at = "asleep"] /\ slot' = slot
  BY DEF Wake
<1>6. Answered(t) => slot \in Replies /\ slot.n = thread[t].n
  BY DEF Answered, Replies, VerdictInv
<1>7. \A u \in Threads :
         /\ thread'[u].n = thread[u].n
         /\ \/ ~Concluded(u)'
            \/ Concluded(u) /\ thread'[u].result = thread[u].result
            \/ \E r \in Replies : r.n = thread[u].n /\ thread'[u].result = r.says
  <2>1. CASE Answered(t) /\ thread' = Returned(t, thread[t].n, slot.says)
    <3>1. \E r \in Replies : r.n = thread[t].n /\ slot.says = r.says
      BY <1>6, <2>1
    <3>2. slot.says \in Says \cup {"none", "unsent", "lost"}
      BY <1>3
    <3> QED
      BY <1>1, <2>1, <3>1, <3>2, Fetched
  <2>2. CASE thread' = Returned(t, thread[t].n, "lost")
    BY <1>1, <2>2, Fetched
  <2>3. CASE thread' = [thread EXCEPT ![t].at = "asleep"]
    <3>1. \A u \in Threads : thread'[u].n = thread[u].n
                             /\ thread'[u].result = thread[u].result
      BY <1>2, <2>3 DEF ThreadRecord
    <3> QED
      BY <1>1, <3>1, Undisturbed
  <2> QED
    BY <1>5, <2>1, <2>2, <2>3
<1>8. slot' = slot \/ slot' = Empty
  BY <1>5
<1>9. Replies' \subseteq Replies
  <2>1. \A i \in DOMAIN down' : \E j \in DOMAIN down : down'[i] = down[j]
    BY <1>4
  <2> QED
    BY <1>1, <1>4, <1>8, <2>1, RepliesMove
<1>10. \A i \in Asked' : i + 0 \in Asked /\ up'[i] = up[i + 0]
  BY <1>1, <1>4, CallsAsked
<1>11. slot' = Empty \/ slot'.type = "Result"
  BY <1>8 DEF VerdictInv
<1> QED
  BY <1>1, <1>4, <1>7, <1>9, <1>10, <1>11, Quiet

\* A control client reads.
LEMMA ControlReadsStep ==
    ASSUME VerdictInv, [ClientNext]_vars, ControlReads
    PROVE  VerdictInv'
<1>1. Typed /\ Typed'
  BY TypedStep DEF VerdictInv
<1>2. UNCHANGED <<peer, up, correlation, slot, answering, decided>>
  BY DEF ControlReads, session, server
<1> DEFINE n == thread["run"].n
<1>3. \/ down = <<>> /\ thread' = Returned("run", n, "lost") /\ down' = down
      \/ /\ down # <<>> /\ Answers(Head(down), n) /\ down' = Tail(down)
         /\ thread' = Returned("run", n, Head(down).says)
      \/ down # <<>> /\ thread' = thread /\ down' = Tail(down)
  BY DEF ControlReads
<1>4. "run" \in Threads
  BY DEF Threads
<1>5. \A u \in Threads :
         /\ thread'[u].n = thread[u].n
         /\ \/ ~Concluded(u)'
            \/ Concluded(u) /\ thread'[u].result = thread[u].result
            \/ \E r \in Replies : r.n = thread[u].n /\ thread'[u].result = r.says
  <2>1. CASE thread' = Returned("run", n, "lost")
    BY <1>1, <1>4, <2>1, Fetched
  <2>2. CASE /\ down # <<>> /\ Answers(Head(down), n)
             /\ thread' = Returned("run", n, Head(down).says)
    <3>1. Head(down).says \in Says \cup {"none", "unsent", "lost"}
      BY <1>1, <2>2, FrameOut
    <3>2. down \in Seq(FrameRecord)
      BY <1>1 DEF Typed
    <3>3. 1 \in DOMAIN down /\ Head(down) = down[1]
      BY <2>2, <3>2, TailElements
    <3>4. Head(down) \in Replies /\ Head(down).n = n
      BY <2>2, <3>3 DEF Replies, Answers
    <3> HIDE DEF n
    <3>5. \E r \in Replies : r.n = n /\ Head(down).says = r.says
      BY <3>4
    <3> QED
      BY <1>1, <1>4, <2>2, <3>1, <3>5, Fetched DEF n
  <2>3. CASE thread' = thread
    BY <1>1, <2>3, Undisturbed
  <2> QED
    BY <1>3, <2>1, <2>2, <2>3
<1>6. Replies' \subseteq Replies
  <2>1. \A i \in DOMAIN down' :
          \/ down'[i].type \notin {"Result", "Error"}
          \/ down'[i] = answering
          \/ \E j \in DOMAIN down : down'[i] = down[j]
    BY <1>1, <1>3, DownMoves
  <2> QED
    BY <1>1, <1>2, <2>1, RepliesMove
<1>7. \A i \in Asked' : i + 0 \in Asked /\ up'[i] = up[i + 0]
  BY <1>1, <1>2, CallsAsked
<1>8. slot' = Empty \/ slot'.type = "Result"
  BY <1>2 DEF VerdictInv
<1> QED
  BY <1>1, <1>2, <1>5, <1>6, <1>7, <1>8, Quiet

\* The session's reader takes a frame.
LEMMA ReadFrameStep ==
    ASSUME VerdictInv, [ClientNext]_vars, ReadFrame
    PROVE  VerdictInv'
<1>1. Typed /\ Typed'
  BY TypedStep DEF VerdictInv
<1>2. UNCHANGED <<peer, up, correlation, answering, decided>>
  BY DEF ReadFrame, server
<1>3. down # <<>> /\ down' = Tail(down)
  BY DEF ReadFrame
<1>4. down \in Seq(FrameRecord) /\ thread \in [Threads -> ThreadRecord]
  BY <1>1 DEF Typed
<1>5. \/ slot' = slot /\ thread' = thread
      \/ Head(down).type = "Result" /\ slot' = Head(down) /\ thread' = Awoken
  BY DEF ReadFrame
<1>6. \A u \in Threads : thread'[u].n = thread[u].n /\ thread'[u].result = thread[u].result
  BY <1>4, <1>5, AwokenThreads
<1>7. 1 \in DOMAIN down /\ Head(down) = down[1]
  BY <1>3, <1>4, TailElements
<1>8. \/ slot' = slot
      \/ slot' \in Replies /\ slot'.type = "Result"
  <2>1. Head(down).type = "Result" => Head(down) \in Replies
    BY <1>7 DEF Replies
  <2> QED
    BY <1>5, <2>1
<1>9. Replies' \subseteq Replies
  <2>1. \A i \in DOMAIN down' :
          \/ down'[i].type \notin {"Result", "Error"}
          \/ down'[i] = answering
          \/ \E j \in DOMAIN down : down'[i] = down[j]
    BY <1>1, <1>3, DownMoves
  <2> QED
    BY <1>1, <1>2, <1>8, <2>1, RepliesMove
<1>10. \A i \in Asked' : i + 0 \in Asked /\ up'[i] = up[i + 0]
  BY <1>1, <1>2, CallsAsked
<1>11. slot' = Empty \/ slot'.type = "Result"
  BY <1>8 DEF VerdictInv
<1>12. \A u \in Threads :
         /\ thread'[u].n = thread[u].n
         /\ \/ ~Concluded(u)'
            \/ Concluded(u) /\ thread'[u].result = thread[u].result
            \/ \E r \in Replies : r.n = thread[u].n /\ thread'[u].result = r.says
  BY <1>1, <1>6, Undisturbed
<1> QED
  BY <1>1, <1>2, <1>9, <1>10, <1>11, <1>12, Quiet

\* A call takes a number of its own.
LEMMA CallStep ==
    ASSUME VerdictInv, [ClientNext]_vars, Calls
    PROVE  VerdictInv'
<1>1. Typed /\ Typed'
  BY TypedStep DEF VerdictInv
<1>2. PICK t \in Threads, type \in FrameTypes : Call(t, type)
  BY <1>1, CallKinds
<1>3. correlation \in Nat \ {0} /\ correlation' = correlation + 1
  <2>1. correlation' = correlation + 1
    BY <1>2 DEF Call
  <2>2. correlation \in 1..(MaxCalls + 1) /\ MaxCalls \in Nat \ {0}
    BY <1>1, Sizes DEF Typed
  <2> QED
    BY <2>1, <2>2
<1>4. thread \in [Threads -> ThreadRecord] /\ up \in Seq(FrameRecord)
      /\ decided \in [1..MaxCalls -> Says \cup {"open"}]
  BY <1>1 DEF Typed
<1>5. /\ thread'[t].n = correlation /\ ~Concluded(t)'
      /\ \A u \in Threads \ {t} : thread'[u] = thread[u]
  <2>1. CASE thread' = Returned(t, correlation, "unsent")
    BY <1>3, <1>4, <2>1, ReturnedThread DEF Concluded
  <2>2. CASE thread' = [thread EXCEPT ![t].at = "awake", ![t].n = correlation,
                                      ![t].result = "none"]
    BY <1>4, <2>2 DEF Concluded, ThreadRecord
  <2> QED
    BY <1>2, <2>1, <2>2 DEF Call
<1>6. UNCHANGED <<peer, down, slot, answering>>
  BY <1>2 DEF Call, session
<1>7. /\ decided' = [n \in DOMAIN decided |->
                       IF n = thread[t].n THEN "open" ELSE decided[n]]
      /\ up' = up \/ up' = Append(up, Frame(type, correlation, ""))
  BY <1>2 DEF Call
<1>8. Replies' = Replies
  BY <1>6 DEF Replies
<1>9. \A r \in Replies : r.n \in 1..(correlation - 1) /\ r.n # correlation
  BY <1>3 DEF VerdictInv
<1>10. \A u \in Threads : thread[u].n \in 0..(correlation - 1) /\ thread[u].n # correlation
  BY <1>3 DEF VerdictInv
<1>11. \A n \in 1..(correlation - 1) : n # thread[t].n => decided'[n] = decided[n]
  <2>1. \A n \in 1..(correlation - 1) : n \in DOMAIN decided
    <3>1. correlation \in 1..(MaxCalls + 1) /\ MaxCalls \in Nat \ {0}
      BY <1>1, Sizes DEF Typed
    <3>2. DOMAIN decided = 1..MaxCalls
      BY <1>4
    <3> QED
      BY <3>1, <3>2
  <2> QED
    BY <1>7, <2>1
<1>12. ASSUME NEW r \in Replies'
       PROVE  /\ r.n \in 1..(correlation' - 1)
              /\ \A u \in Threads : thread'[u].n = r.n => decided'[r.n] = r.says
  <2>1. r \in Replies /\ r.n \in 1..(correlation - 1) /\ r.n # correlation
    BY <1>8, <1>9
  <2>2. ASSUME NEW u \in Threads, thread'[u].n = r.n
        PROVE  decided'[r.n] = r.says
    <3>1. u # t
      BY <1>5, <2>1, <2>2
    <3>2. thread[u].n = r.n
      BY <1>5, <2>2, <3>1
    <3>3. thread[t].n # r.n
      BY <2>1, <3>1, <3>2 DEF VerdictInv
    <3>4. decided[r.n] = r.says
      BY <2>1, <3>2 DEF VerdictInv
    <3> QED
      BY <1>11, <2>1, <3>3, <3>4
  <2> QED
    BY <1>3, <2>1, <2>2
<1>13. ASSUME NEW i \in Asked'
       PROVE  \/ i \in Asked /\ up'[i] = up[i]
              \/ i = Len(up) + 1 /\ up'[i].n = correlation
  <2>1. CASE up' = up
    BY <1>6, <2>1 DEF Asked
  <2>2. CASE up' = Append(up, Frame(type, correlation, ""))
    <3>1. Frame(type, correlation, "") \in FrameRecord
      BY <1>3, FrameType DEF Says
    <3>2. Frame(type, correlation, "").n = correlation
      BY DEF Frame
    <3>3. i \in DOMAIN up'
      BY DEF Asked
    <3>4. \/ i \in DOMAIN up /\ up'[i] = up[i]
          \/ i = Len(up) + 1 /\ up'[i] = Frame(type, correlation, "")
      BY <1>4, <2>2, <3>1, <3>3, AppendElements
    <3> QED
      BY <1>6, <3>2, <3>4 DEF Asked
  <2> QED
    BY <1>7, <2>1, <2>2
<1>14. \A i \in Asked : up[i].n \in 1..(correlation - 1) /\ up[i].n # correlation
  BY <1>3 DEF VerdictInv
<1>15. ASSUME NEW u \in Threads
       PROVE  \/ u = t
              \/ /\ thread'[u] = thread[u] /\ thread[u].n # correlation
                 /\ Concluded(u)' => Concluded(u)
  BY <1>5, <1>10 DEF Concluded
<1>16. ASSUME NEW i \in Asked'
       PROVE  /\ up'[i].n \in 1..(correlation' - 1)
              /\ \A j \in Asked' : up'[j].n = up'[i].n => j = i
              /\ \A r \in Replies' : r.n # up'[i].n
              /\ \A u \in Threads : Concluded(u)' => thread'[u].n # up'[i].n
  <2>1. CASE i \in Asked /\ up'[i] = up[i]
    <3>1. /\ up[i].n \in 1..(correlation - 1) /\ up[i].n # correlation
          /\ \A j \in Asked : up[j].n = up[i].n => j = i
          /\ \A r \in Replies : r.n # up[i].n
          /\ \A u \in Threads : Concluded(u) => thread[u].n # up[i].n
      BY <1>14, <2>1 DEF VerdictInv
    <3>2. \A j \in Asked' : up'[j].n = up'[i].n => j = i
      BY <1>13, <2>1, <3>1
    <3>3. \A u \in Threads : Concluded(u)' => thread'[u].n # up'[i].n
      BY <1>5, <1>15, <2>1, <3>1
    <3>4. up'[i].n \in 1..(correlation' - 1)
      BY <1>3, <2>1, <3>1
    <3> QED
      BY <1>8, <2>1, <3>1, <3>2, <3>3, <3>4
  <2>2. CASE i = Len(up) + 1 /\ up'[i].n = correlation
    <3>1. up'[i].n \in 1..(correlation' - 1)
      BY <1>3, <2>2
    <3>2. \A j \in Asked' : up'[j].n = up'[i].n => j = i
      BY <1>13, <1>14, <2>2
    <3>3. \A r \in Replies' : r.n # up'[i].n
      BY <1>8, <1>9, <2>2
    <3>4. \A u \in Threads : Concluded(u)' => thread'[u].n # up'[i].n
      BY <1>5, <1>15, <2>2
    <3> QED
      BY <3>1, <3>2, <3>3, <3>4
  <2> QED
    BY <1>13, <2>1, <2>2
<1>17. ASSUME NEW u \in Threads
       PROVE  /\ thread'[u].n \in 0..(correlation' - 1)
              /\ Concluded(u)' => thread'[u].n # 0
              /\ \A v \in Threads : thread'[v].n = thread'[u].n /\ v # u => thread'[u].n = 0
  <2>1. CASE u = t
    <3>1. thread'[u].n \in 0..(correlation' - 1) /\ ~Concluded(u)'
      BY <1>3, <1>5, <2>1
    <3>2. \A v \in Threads : v # u => thread'[v].n # thread'[u].n
      BY <1>5, <1>15, <2>1
    <3> QED
      BY <3>1, <3>2
  <2>2. CASE u # t
    <3>1. thread'[u] = thread[u] /\ thread[u].n # correlation
          /\ (Concluded(u)' => Concluded(u))
      BY <1>15, <2>2
    <3>2. thread[u].n \in 0..(correlation - 1) /\ (Concluded(u) => thread[u].n # 0)
      BY DEF VerdictInv
    <3>3. thread'[u].n \in 0..(correlation' - 1)
      BY <1>3, <3>1, <3>2
    <3>4. \A v \in Threads : thread'[v].n = thread'[u].n /\ v # u => thread'[u].n = 0
      <4>1. ASSUME NEW v \in Threads, thread'[v].n = thread'[u].n, v # u
            PROVE  thread'[u].n = 0
        <5>1. v # t
          BY <1>5, <3>1, <4>1
        <5> QED
          BY <1>15, <3>1, <4>1, <5>1 DEF VerdictInv
      <4> QED
        BY <4>1
    <3> QED
      BY <3>1, <3>2, <3>3, <3>4
  <2> QED
    BY <2>1, <2>2
<1>18. VerdictIsOwn'
  <2>1. ASSUME NEW u \in Threads, Concluded(u)'
        PROVE  decided'[thread'[u].n] = thread'[u].result
    <3>1. u # t
      BY <1>5, <2>1
    <3>2. thread'[u] = thread[u] /\ Concluded(u)
      BY <1>15, <2>1, <3>1
    <3>3. thread[u].n \in 1..(correlation - 1)
      BY <1>3, <3>2 DEF VerdictInv
    <3>4. thread[t].n # thread[u].n
      BY <3>1, <3>2 DEF VerdictInv
    <3>5. decided[thread[u].n] = thread[u].result
      BY <3>2 DEF VerdictInv, VerdictIsOwn, Concluded
    <3> QED
      BY <1>11, <3>2, <3>3, <3>4, <3>5
  <2> QED
    BY <2>1 DEF VerdictIsOwn, Concluded
<1>19. slot' = Empty' \/ slot'.type = "Result"
  BY <1>6 DEF VerdictInv, Empty, Frame
<1> QED
  BY <1>1, <1>12, <1>16, <1>17, <1>18, <1>19 DEF VerdictInv

\* The coordinator takes a call or a report from the queue.
LEMMA HandleStep ==
    ASSUME VerdictInv, [ClientNext]_vars, Handle
    PROVE  VerdictInv'
<1>1. Typed /\ Typed'
  BY TypedStep DEF VerdictInv
<1>2. UNCHANGED <<peer, correlation, down, thread, slot>>
  BY DEF Handle, calls
<1>3. up # <<>> /\ up' = Tail(up) /\ up \in Seq(FrameRecord) /\ answering = Empty
  BY <1>1 DEF Handle, Typed
<1>4. /\ 1 \in DOMAIN up /\ Head(up) = up[1]
      /\ \A i \in DOMAIN up' : i \in Nat \ {0} /\ i + 1 \in DOMAIN up /\ up'[i] = up[i + 1]
  BY <1>3, TailElements
<1>5. \A i \in Asked' : i \in Nat \ {0} /\ i + 1 \in Asked /\ up'[i] = up[i + 1]
  BY <1>2, <1>4 DEF Asked
<1>6. \A i \in DOMAIN down' : \E j \in DOMAIN down : down'[i] = down[j]
  BY <1>2
<1>7. slot' = Empty \/ slot'.type = "Result"
  BY <1>2 DEF VerdictInv
<1>8. CASE peer = "agent" /\ Head(up).type \in ReportTypes
  <2>1. answering' = Frame("ReportResult", 0, "") /\ decided' = decided
    BY <1>8 DEF Handle
  <2>2. answering'.type \notin {"Result", "Error"}
    BY <2>1 DEF Frame
  <2>3. Replies' \subseteq Replies
    BY <1>1, <1>2, <1>6, <2>2, RepliesMove
  <2>4. \A u \in Threads :
         /\ thread'[u].n = thread[u].n
         /\ \/ ~Concluded(u)'
            \/ Concluded(u) /\ thread'[u].result = thread[u].result
            \/ \E r \in Replies : r.n = thread[u].n /\ thread'[u].result = r.says
    BY <1>1, <1>2, Undisturbed
  <2>5. 1 \in {0, 1} /\ \A i \in Asked' : i + 1 \in Asked /\ up'[i] = up[i + 1]
    BY <1>5
  <2> QED
    BY <1>1, <1>2, <1>7, <2>1, <2>3, <2>4, <2>5, Quiet
<1>9. CASE ~(peer = "agent" /\ Head(up).type \in ReportTypes)
  <2> DEFINE m == Head(up).n
  <2>1. PICK says \in Verdicts(Head(up).type) :
          /\ answering' = Frame(IF says = "error" THEN "Error" ELSE "Result", m, says)
          /\ decided' = [decided EXCEPT ![m] = says]
    BY <1>9 DEF Handle
  <2>2. answering'.n = m /\ answering'.says = says
    BY <2>1 DEF Frame
  <2>3. 1 \in Asked /\ m = up[1].n
    BY <1>1, <1>4, <1>9 DEF Asked, Typed
  <2> HIDE DEF m
  <2>4. /\ m \in 1..(correlation - 1)
        /\ \A j \in Asked : up[j].n = m => j = 1
        /\ \A r \in Replies : r.n # m
        /\ \A t \in Threads : Concluded(t) => thread[t].n # m
    BY <2>3 DEF VerdictInv
  <2>5. decided'[m] = says /\ \A n : n # m => decided'[n] = decided[n]
    <3>1. decided \in [1..MaxCalls -> Says \cup {"open"}]
          /\ correlation \in 1..(MaxCalls + 1) /\ MaxCalls \in Nat \ {0}
      BY <1>1, Sizes DEF Typed
    <3>2. m \in DOMAIN decided
      <4>1. m \in 1..MaxCalls
        BY <2>4, <3>1
      <4> QED
        BY <3>1, <4>1
    <3> QED
      BY <2>1, <3>1, <3>2
  <2>6. \A r \in Replies' : r \in Replies \/ r = answering'
    BY <1>2 DEF Replies
  <2>7. ASSUME NEW r \in Replies'
        PROVE  /\ r.n \in 1..(correlation' - 1)
               /\ \A t \in Threads : thread'[t].n = r.n => decided'[r.n] = r.says
    <3>1. CASE r \in Replies
      <4>1. r.n # m
        BY <2>4, <3>1
      <4> QED
        BY <1>2, <2>5, <3>1, <4>1 DEF VerdictInv
    <3>2. CASE r = answering'
      BY <1>2, <2>2, <2>4, <2>5, <3>2
    <3> QED
      BY <2>6, <3>1, <3>2
  <2>8. ASSUME NEW i \in Asked'
        PROVE  /\ up'[i].n \in 1..(correlation' - 1)
               /\ \A j \in Asked' : up'[j].n = up'[i].n => j = i
               /\ \A r \in Replies' : r.n # up'[i].n
               /\ \A t \in Threads : Concluded(t)' => thread'[t].n # up'[i].n
    <3>1. i \in Nat \ {0} /\ i + 1 \in Asked /\ up'[i] = up[i + 1]
      BY <1>5
    <3>2. /\ up'[i].n \in 1..(correlation - 1)
          /\ \A j \in Asked : up[j].n = up'[i].n => j = i + 1
          /\ \A r \in Replies : r.n # up'[i].n
          /\ \A t \in Threads : Concluded(t) => thread[t].n # up'[i].n
      BY <3>1 DEF VerdictInv
    <3>3. up'[i].n # m
      <4>1. i + 1 # 1
        BY <3>1
      <4> QED
        BY <2>4, <3>1, <4>1
    <3>4. \A j \in Asked' : up'[j].n = up'[i].n => j = i
      <4>1. ASSUME NEW j \in Asked', up'[j].n = up'[i].n
            PROVE  j = i
        <5>1. j \in Nat \ {0} /\ j + 1 = i + 1
          BY <1>5, <3>2, <4>1
        <5> QED
          BY <3>1, <5>1
      <4> QED
        BY <4>1
    <3>5. \A r \in Replies' : r.n # up'[i].n
      BY <2>2, <2>6, <3>2, <3>3
    <3>6. \A t \in Threads : Concluded(t)' => thread'[t].n # up'[i].n
      BY <1>2, <3>2 DEF Concluded
    <3> QED
      BY <1>2, <3>2, <3>4, <3>5, <3>6
  <2>9. \A t \in Threads :
           /\ thread'[t].n \in 0..(correlation' - 1)
           /\ Concluded(t)' => thread'[t].n # 0
           /\ \A u \in Threads : thread'[u].n = thread'[t].n /\ u # t => thread'[t].n = 0
    BY <1>2 DEF VerdictInv, Concluded
  <2>10. VerdictIsOwn'
    <3>1. ASSUME NEW t \in Threads, Concluded(t)
          PROVE  decided'[thread[t].n] = thread[t].result
      <4>1. thread[t].n # m
        BY <2>4, <3>1
      <4> QED
        BY <2>5, <3>1, <4>1 DEF VerdictInv, VerdictIsOwn, Concluded
    <3> QED
      BY <1>2, <3>1 DEF VerdictIsOwn, Concluded
  <2>11. slot' = Empty' \/ slot'.type = "Result"
    BY <1>7 DEF Empty, Frame
  <2> QED
    BY <1>1, <2>7, <2>8, <2>9, <2>10, <2>11 DEF VerdictInv
<1> QED
  BY <1>8, <1>9

\* Nothing has been asked at first.
LEMMA VerdictInit ==
    ASSUME ClientInit
    PROVE  VerdictInv
<1>1. MaxCalls \in Nat \ {0}
  BY Sizes
<1>2. Empty \in FrameRecord /\ Empty.type = "nothing"
  BY FrameType DEF Empty, Frame, FrameTypes, Says
<1>3. \A S : <<>> \in Seq(S)
  BY EmptySeq
<1>4. thread \in [Threads -> ThreadRecord]
      /\ \A t \in Threads : thread[t].n = 0 /\ thread[t].result = "none"
  BY DEF ClientInit, ThreadRecord
<1>5. decided \in [1..MaxCalls -> Says \cup {"open"}]
  BY DEF ClientInit
<1>6. correlation \in 1..(MaxCalls + 1) /\ correlation = 1
  BY <1>1 DEF ClientInit
<1>7. Typed
  BY <1>2, <1>3, <1>4, <1>5, <1>6 DEF ClientInit, Typed
<1>8. Asked = {} /\ Replies = {}
  <2>1. up = <<>> /\ down = <<>> /\ slot = Empty /\ answering = Empty
    BY DEF ClientInit
  <2>2. DOMAIN up = {} /\ DOMAIN down = {}
    BY <2>1
  <2> QED
    BY <1>2, <2>1, <2>2 DEF Asked, Replies
<1>9. slot = Empty
  BY DEF ClientInit
<1> QED
  BY <1>4, <1>6, <1>7, <1>8, <1>9 DEF VerdictInv, VerdictIsOwn, Concluded

\* A call never returns the verdict on another call: whatever order replies,
\* pushed assignments and notices arrive in, whichever of them are lost in full
\* queues or with the connection, and although the threads of an agent share
\* one slot for replies.
THEOREM VerdictsAreOwn == ClientSpec => []VerdictIsOwn
<1>1. ClientInit => VerdictInv
  BY VerdictInit
<1>2. VerdictInv /\ [ClientNext]_vars => VerdictInv'
  BY CallStep, WakeStep, ControlReadsStep, ReadFrameStep, HandleStep, AsideSteps
     DEF ClientNext
<1>3. VerdictInv => VerdictIsOwn
  BY DEF VerdictInv
<1> QED
  BY <1>1, <1>2, <1>3, PTL DEF ClientSpec

=============================================================================
