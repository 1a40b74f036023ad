----------------------------- MODULE ScriptProofs -----------------------------
(***************************************************************************)
(* Proofs about scripts.  UiRequests, for every number of calls of every   *)
(* kind: what a script may believe of the answers of the user interface.   *)
(* ScriptRunner, for every number of editors, script threads and tabs:     *)
(* what the button of an editor says of the script it has started.         *)
(*                                                                         *)
(* The argument follows the one request that a call has under way.  While  *)
(* all calls so far can be trusted it is in one place: queued for the GUI  *)
(* thread, or its reply is queued for the script thread, or its slot has   *)
(* run.  A call that was given up, or that waits for nothing, leaves a     *)
(* stray request behind, and from then on nothing is known.                *)
(***************************************************************************)
EXTENDS UiRequests, ScriptRunner, FiniteSetTheorems, TLAPS


Request == [call : Nat, kind : {"view", "curve", "dialog", "channel"}]

RequestTypes ==
  /\ calls \in 0..MaxCalls
  /\ state \in {"idle", "waiting", "quit"}
  /\ toGui \in Seq(Request) /\ \A i \in DOMAIN toGui : toGui[i].call \in 1..calls
  /\ DOMAIN returned = Calls
  /\ timedOut \subseteq 1..calls /\ added \subseteq 1..calls
  /\ \A n \in (calls + 1)..MaxCalls : returned[n] = Running
  /\ state # "idle" => calls # 0 /\ returned[calls] = Running

Outcome(n) == IF n \in added THEN n ELSE Empty

(* The places of the request of the current call.                          *)
Asked(k) ==
  /\ toGui = <<[call |-> calls, kind |-> k]>> /\ toScript = <<>>
  /\ state = "waiting" /\ calls \notin added
Answered ==
  /\ toGui = <<>> /\ toScript = <<[call |-> calls, value |-> Outcome(calls)]>>
  /\ state = "waiting"
Taken ==
  /\ toGui = <<>> /\ toScript = <<>>
  /\ state = "quit" /\ result = Outcome(calls)

(* A call that waits is connected to its own reply and has one request in  *)
(* one of these places; between two calls nothing is under way, but for    *)
(* the request of the kind of call that waits for no reply.                *)
CurrentInv ==
  Trusted(calls) =>
    IF state = "idle"
    THEN /\ conns = {} /\ toScript = <<>>
         /\ toGui = <<>> \/ (calls # 0 /\ returned[calls] = Void)
    ELSE \E k \in {"view", "curve", "dialog"} :
           /\ conns = {[call |-> calls, signal |-> k]}
           /\ Asked(k) \/ Answered \/ Taken

(* A call that has returned has told the truth, and no request of it is    *)
(* left that could make it wrong later.                                    *)
PastInv ==
  \A n \in 1..calls : Trusted(n) /\ (n < calls \/ state = "idle") =>
    \/ returned[n] = Void
    \/ /\ returned[n] = Outcome(n)
       /\ \A i \in DOMAIN toGui : toGui[i].call # n

RequestInv == RequestTypes /\ CurrentInv /\ PastInv

-----------------------------------------------------------------------------
(* What SetToSeq makes of no slot and of one.                              *)
LEMMA SetToSeqEmpty == SetToSeq({}) = <<>>
<1>1. Cardinality({}) = 0
  BY FS_EmptySet
<1>2. \A f \in [1..0 -> {}] : f = <<>>
  OBVIOUS
<1>3. <<>> \in [1..0 -> {}] /\ IsInjective(<<>>)
  BY DEF IsInjective
<1> QED
  BY <1>1, <1>2, <1>3 DEF SetToSeq

LEMMA SetToSeqSingleton == \A x : SetToSeq({x}) = <<x>>
<1> TAKE x
<1>1. Cardinality({x}) = 1
  BY FS_Singleton
<1>2. \A f \in [1..1 -> {x}] : f = <<x>>
  OBVIOUS
<1>3. <<x>> \in [1..1 -> {x}] /\ IsInjective(<<x>>)
  BY DEF IsInjective
<1> QED
  BY <1>1, <1>2, <1>3 DEF SetToSeq

(* A reply that nobody waits for is lost; one that a slot waits for is     *)
(* queued once, for the call that has connected it.                        *)
LEMMA EmitToNobody ==
  ASSUME NEW signal, NEW value, conns = {}, toScript = <<>>, Emit(signal, value)
  PROVE  toScript' = <<>>
<1>1. {c \in conns : c.signal = signal} = {}
  OBVIOUS
<1> QED
  BY <1>1, SetToSeqEmpty DEF Emit

LEMMA EmitToOne ==
  ASSUME NEW signal, NEW value, NEW n,
         conns = {[call |-> n, signal |-> signal]}, toScript = <<>>, Emit(signal, value)
  PROVE  toScript' = <<[call |-> n, value |-> value]>>
<1> DEFINE slot == [call |-> n, signal |-> signal]
<1>1. {c \in conns : c.signal = signal} = {slot}
  OBVIOUS
<1>2. SetToSeq({c \in conns : c.signal = signal}) = <<slot>>
  BY <1>1, SetToSeqSingleton
<1> QED
  BY <1>2 DEF Emit

(* The first request and those behind it are requests of the queue.        *)
LEMMA HeadOfQueue ==
  ASSUME toGui \in Seq(Request), toGui # <<>>
  PROVE  /\ Head(toGui) \in Request /\ Head(toGui) = toGui[1] /\ 1 \in DOMAIN toGui
         /\ Tail(toGui) \in Seq(Request)
         /\ \A i \in DOMAIN Tail(toGui) : i + 1 \in DOMAIN toGui /\ Tail(toGui)[i] = toGui[i + 1]
OBVIOUS

-----------------------------------------------------------------------------
LEMMA RequestInit == Init => RequestInv
<1> SUFFICES ASSUME Init
             PROVE  RequestInv
  OBVIOUS
<1>1. RequestTypes
  BY ConstantsOK DEF Init, RequestTypes, Calls, Request
<1>2. CurrentInv /\ PastInv
  BY DEF Init, CurrentInv, PastInv
<1> QED
  BY <1>1, <1>2 DEF RequestInv

LEMMA CallStep ==
  ASSUME RequestInv, NEW k \in Kinds, Call(k)
  PROVE  RequestInv'
<1> USE DEF RequestInv, RequestTypes
<1>1. /\ state = "idle" /\ calls' = calls + 1 /\ calls' \in Calls /\ calls \in Nat
      /\ toGui' = Append(toGui, [call |-> calls', kind |-> k])
      /\ toScript' = toScript /\ added' = added /\ timedOut' = timedOut
  BY ConstantsOK DEF Call, Calls
<1>2. k \in {"view", "curve", "dialog", "channel"} /\ [call |-> calls', kind |-> k] \in Request
  BY <1>1, ConstantsOK DEF Request
<1>3. toGui' \in Seq(Request)
  BY <1>1, <1>2
<1>4. \/ /\ k = "channel" /\ returned' = [returned EXCEPT ![calls'] = Void]
         /\ state' = "idle" /\ conns' = conns
      \/ /\ k # "channel" /\ returned' = returned /\ state' = "waiting"
         /\ conns' = conns \cup {[call |-> calls', signal |-> k]}
  BY <1>1 DEF Call, Connect
<1>5. /\ DOMAIN returned' = Calls
      /\ \A n \in Calls : n # calls' => returned'[n] = returned[n]
      /\ k = "channel" => returned'[calls'] = Void
  <2>1. DOMAIN returned = Calls /\ calls' \in Calls
    BY <1>1
  <2> QED
    BY ONLY <1>4, <2>1
<1>6. \A n \in 1..calls : returned'[n] = returned[n]
  BY <1>1, <1>5, ConstantsOK DEF Calls
<1>7. RequestTypes'
  <2>1. DOMAIN returned' = Calls
    BY <1>5
  <2>2. \A n \in (calls' + 1)..MaxCalls : returned'[n] = Running
    BY <1>1, <1>5, ConstantsOK DEF Calls
  <2>3. state' # "idle" => returned'[calls'] = Running
    BY <1>1, <1>4, ConstantsOK DEF Calls
  <2> QED
    BY <1>1, <1>3, <1>4, <2>1, <2>2, <2>3, ConstantsOK DEF Calls
<1>8. Trusted(calls)' => Trusted(calls) /\ (calls # 0 => returned[calls] # Void)
  <2> SUFFICES ASSUME Trusted(calls)'
               PROVE  Trusted(calls) /\ (calls # 0 => returned[calls] # Void)
    OBVIOUS
  <2>1. (\A m \in timedOut : m > calls + 1) /\ \A m \in 1..calls : returned'[m] # Void
    BY ONLY <1>1, Trusted(calls)' DEF Trusted
  <2>2. timedOut \subseteq 1..calls /\ calls \in Nat
    BY <1>1
  <2>3. timedOut = {}
    BY ONLY <2>1, <2>2
  <2>4. \A m \in 1..calls : returned[m] # Void
    BY ONLY <1>6, <2>1
  <2> QED
    BY ONLY <2>2, <2>3, <2>4 DEF Trusted
<1>9. CurrentInv'
  <2> SUFFICES ASSUME Trusted(calls)'
               PROVE  CurrentInv'
    BY DEF CurrentInv
  <2>1. conns = {} /\ toScript = <<>> /\ toGui = <<>>
    BY <1>1, <1>8 DEF CurrentInv
  <2>2. calls' \notin added'
    BY <1>1
  <2>3. CASE k = "channel"
    <3>1. returned'[calls'] = Void
      BY <1>5, <2>3
    <3> QED
      BY <1>1, <1>4, <2>1, <2>3, <3>1 DEF CurrentInv
  <2>4. CASE k # "channel"
    <3>1. conns' = {[call |-> calls', signal |-> k]} /\ Asked(k)'
      BY <1>1, <1>4, <2>1, <2>2, <2>4 DEF Asked
    <3>2. k \in {"view", "curve", "dialog"} /\ state' # "idle"
      BY <1>2, <1>4, <2>4
    <3> QED
      BY <3>1, <3>2 DEF CurrentInv
  <2> QED
    BY <2>3, <2>4
<1>10. PastInv'
  <2> SUFFICES ASSUME NEW n \in 1..calls', Trusted(n)', n < calls' \/ state' = "idle"
               PROVE  \/ returned'[n] = Void
                      \/ /\ returned'[n] = Outcome(n)'
                         /\ \A i \in DOMAIN toGui' : toGui'[i].call # n
    BY DEF PastInv
  <2>1. CASE n = calls'
    BY <1>1, <1>4, <1>5, <2>1
  <2>2. CASE n # calls'
    <3>1. n \in 1..calls
      BY <1>1, <2>2
    <3>2. Trusted(n)
      BY <1>1, <1>6, <3>1 DEF Trusted
    <3>3. returned[n] = Void \/ (returned[n] = Outcome(n) /\ \A i \in DOMAIN toGui : toGui[i].call # n)
      BY <1>1, <3>1, <3>2 DEF PastInv
    <3>4. \A i \in DOMAIN toGui' : toGui'[i].call = calls' \/ (i \in DOMAIN toGui /\ toGui'[i] = toGui[i])
      BY <1>1, <1>2
    <3> QED
      BY <1>1, <1>6, <2>2, <3>1, <3>3, <3>4 DEF Outcome
  <2> QED
    BY <2>1, <2>2
<1> QED
  BY <1>7, <1>9, <1>10

(* The reply of a call that can be trusted is its own.                     *)
LEMMA HandleReplyStep ==
  ASSUME RequestInv, HandleReply
  PROVE  RequestInv'
<1> USE DEF RequestInv, RequestTypes
<1>1. /\ state # "idle" /\ state' = "quit" /\ toScript # <<>> /\ toScript' = Tail(toScript)
      /\ calls' = calls /\ conns' = conns /\ toGui' = toGui
      /\ returned' = returned /\ added' = added /\ timedOut' = timedOut
  BY DEF HandleReply, Quit, histVars
<1>2. RequestTypes'
  BY <1>1
<1>3. CurrentInv'
  <2> SUFFICES ASSUME Trusted(calls)
               PROVE  CurrentInv'
    BY <1>1 DEF CurrentInv, Trusted
  <2>1. PICK k \in {"view", "curve", "dialog"} :
          conns = {[call |-> calls, signal |-> k]} /\ (Asked(k) \/ Answered \/ Taken)
    BY <1>1 DEF CurrentInv
  <2>2. Answered
    BY <1>1, <2>1 DEF Asked, Taken
  <2>3. Head(toScript) = [call |-> calls, value |-> Outcome(calls)] /\ Tail(toScript) = <<>>
    BY <2>2 DEF Answered
  <2>4. result' = Outcome(calls)
    BY <2>3 DEF HandleReply
  <2>5. Taken'
    BY <1>1, <2>2, <2>3, <2>4 DEF Taken, Answered, Outcome
  <2> QED
    BY <1>1, <2>1, <2>5 DEF CurrentInv
<1>4. PastInv'
  BY <1>1 DEF PastInv, Trusted, Outcome
<1> QED
  BY <1>2, <1>3, <1>4

LEMMA TimeOutStep ==
  ASSUME RequestInv, TimeOut
  PROVE  RequestInv'
<1> USE DEF RequestInv, RequestTypes
<1>1. /\ state = "waiting" /\ state' = "quit" /\ timedOut' = timedOut \cup {calls}
      /\ calls' = calls /\ toGui' = toGui /\ returned' = returned /\ added' = added
  BY DEF TimeOut, Quit
<1>2. calls \in 1..calls
  BY <1>1, ConstantsOK
<1>3. RequestTypes'
  BY <1>1, <1>2
<1>4. ~Trusted(calls)'
  BY <1>1, <1>2 DEF Trusted
<1>5. \A n \in 1..calls : Trusted(n)' => Trusted(n)
  BY <1>1 DEF Trusted
<1>6. PastInv'
  BY <1>1, <1>5 DEF PastInv, Outcome
<1> QED
  BY <1>1, <1>3, <1>4, <1>6 DEF CurrentInv, Trusted

LEMMA FinishStep ==
  ASSUME RequestInv, Finish
  PROVE  RequestInv'
<1> USE DEF RequestInv, RequestTypes
<1>1. /\ state = "quit" /\ state' = "idle" /\ conns' = {}
      /\ returned' = [returned EXCEPT ![calls] = result]
      /\ calls' = calls /\ toGui' = toGui /\ toScript' = toScript
      /\ added' = added /\ timedOut' = timedOut
  BY DEF Finish, Disconnect
<1>2. calls \in 1..calls /\ calls \in Calls
  BY <1>1, ConstantsOK DEF Calls
<1>3. \A n \in Calls : n # calls => returned'[n] = returned[n]
  BY <1>1, <1>2
<1>4. RequestTypes'
  <2>1. DOMAIN returned' = Calls
    BY <1>1
  <2> QED
    BY <1>1, <1>2, <1>3, <2>1 DEF Calls
<1>5. \A n \in 1..calls : Trusted(n)' => Trusted(n)
  BY <1>1, <1>2, <1>3 DEF Trusted, Calls
<1>6. Trusted(calls) => Taken
  <2> SUFFICES ASSUME Trusted(calls)
               PROVE  Taken
    OBVIOUS
  <2>1. PICK k \in {"view", "curve", "dialog"} : Asked(k) \/ Answered \/ Taken
    BY <1>1 DEF CurrentInv
  <2> QED
    BY <1>1, <2>1 DEF Asked, Answered
<1>7. CurrentInv'
  BY <1>1, <1>2, <1>5, <1>6 DEF CurrentInv, Taken, Trusted
<1>8. PastInv'
  <2> SUFFICES ASSUME NEW n \in 1..calls, Trusted(n)'
               PROVE  \/ returned'[n] = Void
                      \/ /\ returned'[n] = Outcome(n)'
                         /\ \A i \in DOMAIN toGui' : toGui'[i].call # n
    BY <1>1 DEF PastInv
  <2>1. CASE n = calls
    <3>1. toGui' = <<>> /\ returned'[n] = Outcome(n)'
      BY <1>1, <1>2, <1>5, <1>6, <2>1 DEF Taken, Outcome
    <3> QED
      BY <3>1
  <2>2. CASE n # calls
    <3>1. n < calls /\ n \in Calls
      BY <1>2, <2>2, ConstantsOK DEF Calls
    <3>2. returned[n] = Void \/ (returned[n] = Outcome(n) /\ \A i \in DOMAIN toGui : toGui[i].call # n)
      BY <1>5, <3>1 DEF PastInv
    <3> QED
      BY <1>1, <1>3, <2>2, <3>1, <3>2 DEF Outcome
  <2> QED
    BY <2>1, <2>2
<1> QED
  BY <1>4, <1>7, <1>8

(* The GUI thread carries out a request of the current call, or one that   *)
(* makes no call wrong.                                                    *)
LEMMA ServeStep ==
  ASSUME RequestInv, NEW ok \in BOOLEAN, Serve(ok)
  PROVE  RequestInv'
<1> USE DEF RequestInv, RequestTypes
<1> DEFINE r == Head(toGui)
<1>1. /\ toGui # <<>> /\ toGui' = Tail(toGui)
      /\ Emit(Signal(r.kind, ok), Answer(ok, r))
      /\ added' = (IF ok THEN added \cup {r.call} ELSE added)
      /\ calls' = calls /\ state' = state /\ conns' = conns /\ result' = result
      /\ returned' = returned /\ timedOut' = timedOut
  BY DEF Serve, scriptVars
<1>2. /\ r \in Request /\ r.call \in 1..calls
      /\ toGui' \in Seq(Request)
      /\ \A i \in DOMAIN toGui' : \E j \in DOMAIN toGui : toGui'[i] = toGui[j]
  BY <1>1, HeadOfQueue
<1>3. RequestTypes'
  <2>1. \A i \in DOMAIN toGui' : toGui'[i].call \in 1..calls
    BY <1>2
  <2> QED
    BY <1>1, <1>2, <2>1
<1>4. \A n : Trusted(n)' <=> Trusted(n)
  BY <1>1 DEF Trusted
<1>5. CurrentInv'
  <2> SUFFICES ASSUME Trusted(calls)
               PROVE  CurrentInv'
    BY <1>1, <1>4 DEF CurrentInv
  <2>1. CASE state = "idle"
    <3>1. /\ conns = {} /\ toScript = <<>>
          /\ toGui = <<>> \/ (calls # 0 /\ returned[calls] = Void)
      BY <2>1 DEF CurrentInv
    <3>2. toScript' = <<>>
      BY <1>1, <3>1, EmitToNobody
    <3> QED
      BY <1>1, <2>1, <3>1, <3>2 DEF CurrentInv
  <2>2. CASE state # "idle"
    <3>1. PICK k \in {"view", "curve", "dialog"} :
            conns = {[call |-> calls, signal |-> k]} /\ (Asked(k) \/ Answered \/ Taken)
      BY <2>2 DEF CurrentInv
    <3>2. Asked(k)
      BY <1>1, <3>1 DEF Answered, Taken
    <3>3. r.call = calls /\ r.kind = k /\ toGui' = <<>>
      BY <1>1, <3>2 DEF Asked
    <3>4. Signal(r.kind, ok) = k /\ Answer(ok, r) = (IF ok THEN calls ELSE Empty)
      BY <3>3 DEF Signal, Answer
    <3>5. toScript' = <<[call |-> calls, value |-> Answer(ok, r)]>>
      <4>1. toScript = <<>>
        BY <3>2 DEF Asked
      <4>2. Emit(k, Answer(ok, r))
        BY <1>1, <3>4
      <4> QED
        BY ONLY <3>1, <4>1, <4>2, EmitToOne
    <3>6. Outcome(calls)' = Answer(ok, r)
      BY <1>1, <3>2, <3>3, <3>4 DEF Outcome, Asked
    <3>7. Answered'
      BY <1>1, <3>2, <3>3, <3>5, <3>6 DEF Answered, Asked
    <3> QED
      BY <1>1, <2>2, <3>1, <3>7 DEF CurrentInv
  <2> QED
    BY <2>1, <2>2
<1>6. PastInv'
  <2> SUFFICES ASSUME NEW n \in 1..calls, Trusted(n), n < calls \/ state = "idle"
               PROVE  \/ returned[n] = Void
                      \/ /\ returned[n] = Outcome(n)'
                         /\ \A i \in DOMAIN toGui' : toGui'[i].call # n
    BY <1>1, <1>4 DEF PastInv
  <2>1. CASE returned[n] # Void
    <3>1. returned[n] = Outcome(n) /\ \A i \in DOMAIN toGui : toGui[i].call # n
      BY <2>1 DEF PastInv
    <3>2. r.call # n
      BY <1>1, <3>1, HeadOfQueue
    <3> QED
      BY <1>1, <1>2, <3>1, <3>2 DEF Outcome
  <2> QED
    BY <2>1
<1> QED
  BY <1>3, <1>5, <1>6

LEMMA RequestStep == RequestInv /\ [Next]_vars => RequestInv'
<1>1. ASSUME RequestInv, UNCHANGED vars
      PROVE  RequestInv'
  BY <1>1 DEF vars, scriptVars, histVars, RequestInv, RequestTypes, CurrentInv, PastInv,
     Trusted, Outcome, Asked, Answered, Taken
<1> QED
  BY <1>1, CallStep, HandleReplyStep, TimeOutStep, FinishStep, ServeStep
  DEF Next, Script, Gui

(* An answer a script can trust says what has happened in the window, for  *)
(* any number of calls and any delay of either thread.                     *)
THEOREM TrueAnswers == Spec => []AnswersAreTrue
<1>1. RequestInv => AnswersAreTrue
  <2> SUFFICES ASSUME RequestInv, NEW n \in Calls, Trusted(n), returned[n] \notin {Running, Void}
               PROVE  returned[n] = Outcome(n)
    BY DEF AnswersAreTrue, Outcome
  <2> USE DEF RequestInv, RequestTypes
  <2>1. n \in 1..calls
    BY ConstantsOK DEF Calls
  <2>2. n < calls \/ state = "idle"
    BY <2>1, ConstantsOK
  <2> QED
    BY <2>1, <2>2 DEF PastInv
<1> QED
  BY <1>1, RequestInit, RequestStep, PTL DEF Spec

-----------------------------------------------------------------------------
(* The Run button of an editor                                             *)

(* The variables the proofs read.  The runner and the queue do not matter: *)
(* a signal may arrive in any state of an editor.                          *)
ButtonTypes ==
  /\ own \in [Editors -> BOOLEAN]
  /\ checked \in [Editors -> BOOLEAN]
  /\ asking \in Editors \cup {None}

(* The editor with the open dialog has been clicked and waits for its      *)
(* answer: its button is down, and it owns no script yet, so that no end   *)
(* of a script lifts the button before the answer starts one.              *)
AskingInv == asking # None => checked[asking] /\ ~own[asking]

ButtonInv == ButtonTypes /\ OwnIsChecked /\ AskingInv

(* What every action does to the three variables, for one editor.          *)
LEMMA StartFromHereOwns ==
  ASSUME NEW e, StartFromHere(e)
  PROVE  own' = [own EXCEPT ![e] = TRUE]
BY DEF StartFromHere

LEMMA ButtonInit == InitRunner => ButtonInv
BY DEF InitRunner, ButtonInv, ButtonTypes, OwnIsChecked, AskingInv, Nowhere

(* Whatever order clicks and signals come in, every step keeps the button  *)
(* of an editor that owns a script down.                                   *)
LEMMA ButtonStep == ButtonInv /\ [RunnerNext]_scriptingVars => ButtonInv'
<1> SUFFICES ASSUME ButtonInv, [RunnerNext]_scriptingVars
             PROVE  ButtonInv'
  OBVIOUS
<1> USE DEF ButtonInv, ButtonTypes, OwnIsChecked, AskingInv
<1> None \notin Editors
  BY RunnerConstantsOK
<1>1. ASSUME UNCHANGED <<own, checked, asking>>
      PROVE  ButtonInv'
  BY <1>1
<1>2. ASSUME NEW t \in Threads, ScriptThread(t)
      PROVE  ButtonInv'
  BY <1>1, <1>2 DEF ScriptThread, ThreadStarts, CreateInterpreter, ScriptEnds,
     ThreadStops, DestroyInterpreter, Step, editorVars
<1>3. ASSUME NEW s, TreeHears(s)
      PROVE  ButtonInv'
  BY <1>1, <1>3 DEF TreeHears, Delivered
<1>4. ASSUME NEW e \in Editors, EditorHearsStarted(e)
      PROVE  ButtonInv'
  BY <1>1, <1>4 DEF EditorHearsStarted, Delivered
<1>5. ASSUME NEW e \in Editors, EditorHearsFinished(e)
      PROVE  ButtonInv'
  <2>1. asking' = asking
    BY <1>5 DEF EditorHearsFinished, Delivered
  <2>2. CASE own[e]
    <3>1. /\ checked' = [checked EXCEPT ![e] = FALSE]
          /\ own' = [own EXCEPT ![e] = FALSE]
      BY <1>5, <2>2 DEF EditorHearsFinished, Release
    <3>2. asking # e
      BY <2>2
    <3> QED
      BY <2>1, <3>1, <3>2
  <2>3. CASE ~own[e]
    BY <1>1, <1>5, <2>1, <2>3 DEF EditorHearsFinished
  <2> QED
    BY <2>2, <2>3
<1>6. ASSUME NEW e \in Editors, OpenEditor(e)
      PROVE  ButtonInv'
  BY <1>6 DEF OpenEditor, User
<1>7. ASSUME NEW e \in Editors, CloseEditor(e)
      PROVE  ButtonInv'
  BY <1>1, <1>7 DEF CloseEditor
<1>8. ASSUME NEW e \in Editors, ClickRun(e)
      PROVE  ButtonInv'
  <2>1. asking = None /\ checked' = [checked EXCEPT ![e] = TRUE] /\ ~own[e]
    BY <1>8 DEF ClickRun, User
  <2>2. \/ own' = [own EXCEPT ![e] = TRUE] /\ asking' = asking
        \/ own' = own /\ asking' = e
    BY <1>8, StartFromHereOwns DEF ClickRun
  <2> QED
    BY <2>1, <2>2
<1>9. ASSUME AnswerAsk
      PROVE  ButtonInv'
  <2>1. asking \in Editors /\ asking' = None /\ checked' = checked
    BY <1>9 DEF AnswerAsk
  <2>2. own' = [own EXCEPT ![asking] = TRUE] \/ own' = own
    BY <1>9, StartFromHereOwns DEF AnswerAsk
  <2> QED
    BY <2>1, <2>2
<1>10. ASSUME NEW e \in Editors, ClickStop(e)
       PROVE  ButtonInv'
  BY <1>10 DEF ClickStop, User
<1>11. ASSUME ClickTree
       PROVE  ButtonInv'
  BY <1>1, <1>11 DEF ClickTree, editorVars
<1>12. ASSUME UNCHANGED scriptingVars
       PROVE  ButtonInv'
  BY <1>1, <1>12 DEF scriptingVars, editorVars
<1> QED
  BY <1>2, <1>3, <1>4, <1>5, <1>6, <1>7, <1>8, <1>9, <1>10, <1>11, <1>12
  DEF RunnerNext, Deliver, Clicks

(* The editor that believes to have started the script shows Stop, in      *)
(* whatever order clicks and signals came.                                 *)
THEOREM OwnButtons == RunnerSpec => []OwnIsChecked
<1>1. ButtonInv => OwnIsChecked
  BY DEF ButtonInv
<1> QED
  BY <1>1, ButtonInit, ButtonStep, PTL DEF RunnerSpec

=============================================================================
