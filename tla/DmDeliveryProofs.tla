-------------------------- MODULE DmDeliveryProofs --------------------------
(***************************************************************************)
(* Theorems about DmDelivery, for any number of tasks, contacts, parts and *)
(* attempts, over a mesh that loses, delays, duplicates and reorders.      *)
(***************************************************************************)
EXTENDS DmDelivery, TLAPS

Places == {"delay", "sending", "waiting", "acked", "done"}
Endings == {"none", "error", "blind", "acked", "lost"}

(* What TypeOK leaves open of the shape of the variables.                  *)
Shapes ==
    /\ part \in [Senders -> Nat]
    /\ attempt \in [Senders -> Nat]
    /\ DOMAIN outcome = Senders
    /\ \A s \in Senders : outcome[s] \in [PartsOf(s) -> Endings]

(* Parts are done in their order: those before the current one have ended, *)
(* and the current one has if it is the last and the task is over.         *)
Ordered ==
    \A s \in Senders : \A p \in PartsOf(s) :
        outcome[s][p] = "none" <=> p > part[s] \/ (p = part[s] /\ pc[s] # "done")

(* A message is that of a part which was begun, and those of the current   *)
(* part carry its time and the attempts made so far.                       *)
Current(m, s) == m.by = <<s, part[s]>>

MeshSound ==
    /\ \A m \in mesh : \E s \in Senders, p \in Nat :
         m.by = <<s, p>> /\ p \in PartsOf(s) /\ p <= part[s]
    /\ \A m \in mesh, s \in Senders : Current(m, s) =>
         /\ pc[s] # "delay"
         /\ m.ts = stamp[s]
         /\ m.attempt <= attempt[s]

(* A task has been woken by the acknowledgement of its own part.           *)
Arrived(s, p) == \E m \in inbox : m.to = PeerOf[s] /\ m.text = TextOf[s][p]

WokenByOwn == \A s \in Senders : pc[s] = "acked" => Arrived(s, part[s])

DmInv ==
    TypeOK /\ Shapes /\ Ordered /\ MeshSound /\ WokenByOwn /\ ShownOnce /\ AckedWasReceived

-----------------------------------------------------------------------------
LEMMA InitDm == Init => DmInv
<1> USE DmAssumption
<1> SUFFICES ASSUME Init PROVE DmInv
  OBVIOUS
<1>1. TypeOK
  BY DEF Init, TypeOK, PartsOf
<1>2. Shapes
  BY DEF Init, Shapes, Endings, PartsOf
<1>3. Ordered
  BY DEF Init, Ordered, PartsOf
<1>4. MeshSound /\ WokenByOwn /\ ShownOnce /\ AckedWasReceived
  BY DEF Init, MeshSound, WokenByOwn, ShownOnce, AckedWasReceived
<1> QED
  BY <1>1, <1>2, <1>3, <1>4 DEF DmInv

(* A message goes out: the first of a part that is about to be sent, or a  *)
(* further attempt with the same time.                                     *)
LEMMA TransmitDm ==
  ASSUME DmInv, NEW s \in Senders, NEW t \in Nat, NEW n \in 0 .. MaxAttempts - 1,
         Transmit(s, t, n), stamp' = [stamp EXCEPT ![s] = t],
         pc[s] \in {"delay", "waiting"},
         pc[s] = "waiting" => t = stamp[s] /\ n >= attempt[s],
         UNCHANGED <<clock, part, inbox, outcome>>
  PROVE  DmInv'
<1> DEFINE sent == [by |-> <<s, part[s]>>, to |-> PeerOf[s],
                    text |-> TextOf[s][part[s]], ts |-> t, attempt |-> n]
<1> USE DmAssumption
<1>0. TypeOK /\ Shapes /\ Ordered /\ MeshSound /\ WokenByOwn /\ ShownOnce /\ AckedWasReceived
  BY DEF DmInv
<1>1. /\ pc' = [pc EXCEPT ![s] = "sending"]
      /\ attempt' = [attempt EXCEPT ![s] = n]
      /\ mesh' = mesh \cup {sent}
  BY DEF Transmit, Goto
<1>2. sent.by = <<s, part[s]>> /\ sent.ts = t /\ sent.attempt = n
  OBVIOUS
<1>3. part[s] \in PartsOf(s) /\ part[s] \in Nat
  BY <1>0 DEF TypeOK, Shapes
<1> HIDE DEF sent
<1>4. TypeOK'
  BY <1>0, <1>1, <1>2 DEF TypeOK, Shapes
<1>5. Shapes'
  BY <1>0, <1>1 DEF Shapes
<1>6. Ordered'
  BY <1>0, <1>1 DEF Ordered, TypeOK
<1>7. MeshSound'
  <2>1. ASSUME NEW m \in mesh'
        PROVE  \E q \in Senders, p \in Nat : m.by = <<q, p>> /\ p \in PartsOf(q) /\ p <= part[q]
    BY <1>0, <1>1, <1>2, <1>3, <2>1 DEF MeshSound
  <2>2. ASSUME NEW m \in mesh', NEW q \in Senders, m.by = <<q, part[q]>>
        PROVE  pc'[q] # "delay" /\ m.ts = stamp'[q] /\ m.attempt <= attempt'[q]
    <3>1. CASE m = sent
      BY <1>0, <1>1, <1>2, <2>2, <3>1 DEF TypeOK, Shapes
    <3>2. CASE m \in mesh /\ q = s
      BY <1>0, <1>1, <2>2, <3>2 DEF TypeOK, Shapes, MeshSound, Current
    <3>3. CASE m \in mesh /\ q # s
      BY <1>0, <1>1, <2>2, <3>3 DEF TypeOK, Shapes, MeshSound, Current
    <3> QED
      BY <1>1, <3>1, <3>2, <3>3
  <2> QED
    BY <2>1, <2>2 DEF MeshSound, Current
<1>8. WokenByOwn'
  BY <1>0, <1>1 DEF WokenByOwn, Arrived, TypeOK
<1>9. ShownOnce'
  <2>1. ASSUME NEW m \in mesh, m.by = <<s, part[s]>> PROVE m.ts = t
    BY <1>0, <2>1 DEF MeshSound, Current
  <2> QED
    BY <1>0, <1>1, <1>2, <2>1 DEF ShownOnce
<1>10. AckedWasReceived'
  BY <1>0 DEF AckedWasReceived
<1> QED
  BY <1>4, <1>5, <1>6, <1>7, <1>8, <1>9, <1>10 DEF DmInv

LEMMA FinishDm ==
  ASSUME DmInv, NEW s \in Senders, NEW how \in Endings \ {"none"},
         Finish(s, how), pc[s] \in {"sending", "waiting", "acked"},
         how = "acked" => pc[s] = "acked",
         UNCHANGED <<clock, attempt, stamp, mesh, inbox>>
  PROVE  DmInv'
<1> USE DmAssumption
<1>0. TypeOK /\ Shapes /\ Ordered /\ MeshSound /\ WokenByOwn /\ ShownOnce /\ AckedWasReceived
  BY DEF DmInv
<1>1. part[s] \in PartsOf(s) /\ part[s] \in Nat /\ PartsOf(s) \subseteq Nat
  BY <1>0 DEF TypeOK, Shapes, PartsOf
<1>2. /\ outcome' = [outcome EXCEPT ![s] = [outcome[s] EXCEPT ![part[s]] = how]]
      /\ outcome'[s] \in [PartsOf(s) -> Endings]
      /\ outcome'[s][part[s]] = how
      /\ \A p \in PartsOf(s) \ {part[s]} : outcome'[s][p] = outcome[s][p]
      /\ \A q \in Senders \ {s} : outcome'[q] = outcome[q]
      /\ DOMAIN outcome' = Senders
  BY <1>0, <1>1 DEF Finish, Shapes
<1>3. \/ /\ Last(s)
         /\ pc' = [pc EXCEPT ![s] = "done"] /\ part' = part
      \/ /\ part[s] + 1 \in PartsOf(s)
         /\ pc' = [pc EXCEPT ![s] = "delay"]
         /\ part' = [part EXCEPT ![s] = part[s] + 1]
  <2>1. CASE Last(s)
    BY <2>1 DEF Finish, Goto
  <2>2. CASE ~ Last(s)
    <3>1. PICK p \in PartsOf(s) : ~ (p <= part[s])
      BY <2>2 DEF Last
    <3>2. part[s] + 1 \in 1 .. p /\ 1 .. p \subseteq PartsOf(s)
      BY <1>1, <3>1 DEF PartsOf
    <3> QED
      BY <2>2, <3>2 DEF Finish, Goto
  <2> QED
    BY <2>1, <2>2
<1>4. /\ \A q \in Senders \ {s} : pc'[q] = pc[q] /\ part'[q] = part[q]
      /\ pc' \in [Senders -> Places] /\ part' \in [Senders -> Nat]
      /\ pc'[s] \in {"delay", "done"}
      /\ part'[s] \in PartsOf(s)
      /\ \/ pc'[s] = "done" /\ part'[s] = part[s] /\ Last(s)
         \/ pc'[s] = "delay" /\ part'[s] = part[s] + 1
  BY <1>0, <1>1, <1>3 DEF TypeOK, Shapes, Places
<1>5. TypeOK'
  BY <1>0, <1>4 DEF TypeOK, Places
<1>6. Shapes'
  BY <1>0, <1>2, <1>4 DEF Shapes
<1>7. Ordered'
  <2>1. ASSUME NEW q \in Senders \ {s}, NEW p \in PartsOf(q)
        PROVE  outcome'[q][p] = "none" <=> p > part'[q] \/ (p = part'[q] /\ pc'[q] # "done")
    BY <1>0, <1>2, <1>4 DEF Ordered
  <2>2. ASSUME NEW p \in PartsOf(s)
        PROVE  outcome'[s][p] = "none" <=> p > part'[s] \/ (p = part'[s] /\ pc'[s] # "done")
    <3>1. p \in Nat /\ (outcome[s][p] = "none" <=> p > part[s] \/ p = part[s])
      BY <1>0, <1>1 DEF Ordered
    <3>2. CASE p = part[s]
      BY <1>1, <1>2, <1>4, <3>2
    <3>3. CASE p # part[s]
      BY <1>1, <1>2, <1>4, <3>1, <3>3 DEF Last
    <3> QED
      BY <3>2, <3>3
  <2> QED
    BY <2>1, <2>2 DEF Ordered
<1>8. MeshSound'
  <2>1. ASSUME NEW m \in mesh
        PROVE  \E q \in Senders, p \in Nat : m.by = <<q, p>> /\ p \in PartsOf(q) /\ p <= part'[q]
    <3>1. PICK q \in Senders, p \in Nat : m.by = <<q, p>> /\ p \in PartsOf(q) /\ p <= part[q]
      BY <1>0 DEF MeshSound
    <3>2. p \in Nat /\ part[q] \in Nat /\ part'[q] \in Nat /\ part[q] <= part'[q]
      BY <1>0, <1>1, <1>4 DEF Shapes, PartsOf
    <3> QED
      BY <3>1, <3>2
  <2>2. ASSUME NEW m \in mesh, NEW q \in Senders, m.by = <<q, part'[q]>>
        PROVE  pc'[q] # "delay" /\ m.ts = stamp[q] /\ m.attempt <= attempt[q]
    <3>1. CASE q # s
      BY <1>0, <1>4, <2>2, <3>1 DEF MeshSound, Current
    <3>2. CASE q = s /\ pc'[s] = "done"
      BY <1>0, <1>4, <2>2, <3>2 DEF MeshSound, Current
    <3>3. CASE q = s /\ pc'[s] = "delay"
      <4>1. PICK r \in Senders, p \in Nat : m.by = <<r, p>> /\ p <= part[r]
        BY <1>0 DEF MeshSound
      <4>2. r = s /\ p = part[s] + 1
        BY <1>4, <2>2, <3>3, <4>1
      <4> QED
        BY <1>1, <4>1, <4>2
    <3> QED
      BY <1>4, <3>1, <3>2, <3>3
  <2> QED
    BY <2>1, <2>2 DEF MeshSound, Current
<1>9. WokenByOwn'
  BY <1>0, <1>4 DEF WokenByOwn, Arrived
<1>10. ShownOnce'
  BY <1>0 DEF ShownOnce
<1>11. AckedWasReceived'
  <2>1. ASSUME NEW q \in Senders, NEW p \in PartsOf(q), outcome'[q][p] = "acked"
        PROVE  Arrived(q, p)
    <3>1. CASE q = s /\ p = part[s]
      BY <1>0, <1>2, <2>1, <3>1 DEF WokenByOwn
    <3>2. CASE ~ (q = s /\ p = part[s])
      BY <1>0, <1>2, <2>1, <3>2 DEF AckedWasReceived, Arrived
    <3> QED
      BY <3>1, <3>2
  <2> QED
    BY <2>1 DEF AckedWasReceived, Arrived
<1> QED
  BY <1>5, <1>6, <1>7, <1>8, <1>9, <1>10, <1>11 DEF DmInv

(* The wait for the ACK begins.                                            *)
LEMMA WaitDm ==
  ASSUME DmInv, NEW s \in Senders, SendOk(s) PROVE DmInv'
<1>0. TypeOK /\ Shapes /\ Ordered /\ MeshSound /\ WokenByOwn /\ ShownOnce /\ AckedWasReceived
  BY DEF DmInv
<1>1. /\ pc[s] = "sending" /\ pc' = [pc EXCEPT ![s] = "waiting"]
      /\ UNCHANGED <<clock, part, attempt, stamp, mesh, inbox, outcome>>
  BY DEF SendOk, Goto
<1>2. TypeOK' /\ Shapes'
  BY <1>0, <1>1 DEF TypeOK, Shapes
<1>3. Ordered' /\ MeshSound' /\ WokenByOwn'
  BY <1>0, <1>1 DEF Ordered, MeshSound, Current, WokenByOwn, Arrived, TypeOK
<1>4. ShownOnce' /\ AckedWasReceived'
  BY <1>0, <1>1 DEF ShownOnce, AckedWasReceived
<1> QED
  BY <1>2, <1>3, <1>4 DEF DmInv

LEMMA TaskDm ==
  ASSUME DmInv, NEW s \in Senders, Step(s) PROVE DmInv'
<1> USE DmAssumption
<1>0. TypeOK /\ Shapes
  BY DEF DmInv
<1>1. CASE Start(s)
  <2>1. clock \in Nat /\ 0 \in 0 .. MaxAttempts - 1
    BY <1>0 DEF TypeOK
  <2> QED
    BY <1>1, <2>1, TransmitDm DEF Start
<1>2. CASE Resend(s)
  <2>1. /\ stamp[s] \in Nat /\ attempt[s] + 1 \in 0 .. MaxAttempts - 1
        /\ attempt[s] + 1 >= attempt[s]
        /\ stamp' = [stamp EXCEPT ![s] = stamp[s]]
    BY <1>0, <1>2 DEF Resend, TypeOK, Shapes
  <2> QED
    BY <1>2, <2>1, TransmitDm DEF Resend
<1>3. CASE SendOk(s)
  BY <1>3, WaitDm
<1>4. CASE SendError(s) \/ SendBlind(s) \/ Acked(s) \/ GiveUp(s)
  BY <1>4, FinishDm DEF SendError, SendBlind, Acked, GiveUp, Endings
<1> QED
  BY <1>1, <1>2, <1>3, <1>4 DEF Step

(* What the contacts have received stays received; an acknowledgement of   *)
(* the code that a task expects is that of the part it is at.              *)
LEMMA MeshDm ==
  ASSUME DmInv, Receive \/ HearAck \/ Tick \/ UNCHANGED vars PROVE DmInv'
<1>0. TypeOK /\ Shapes /\ Ordered /\ MeshSound /\ WokenByOwn /\ ShownOnce /\ AckedWasReceived
  BY DEF DmInv
<1>1. CASE Receive
  <2>1. /\ inbox \subseteq inbox' /\ inbox' \subseteq mesh
        /\ UNCHANGED <<clock, pc, part, attempt, stamp, mesh, outcome>>
    BY <1>0, <1>1 DEF Receive, TypeOK
  <2>2. TypeOK' /\ Shapes' /\ Ordered'
    BY <1>0, <2>1 DEF TypeOK, Shapes, Ordered
  <2>3. MeshSound' /\ ShownOnce'
    BY <1>0, <2>1 DEF MeshSound, Current, ShownOnce
  <2>4. WokenByOwn' /\ AckedWasReceived'
    BY <1>0, <2>1 DEF WokenByOwn, Arrived, AckedWasReceived
  <2> QED
    BY <2>2, <2>3, <2>4 DEF DmInv
<1>2. CASE HearAck
  <2>1. PICK c \in Acks :
          pc' = [s \in Senders |->
                   IF pc[s] = "waiting" /\ Expected(s) = c THEN "acked" ELSE pc[s]]
    BY <1>2 DEF HearAck
  <2>2. UNCHANGED <<clock, part, attempt, stamp, mesh, inbox, outcome>>
    BY <1>2 DEF HearAck
  <2>3. PICK m \in inbox : c = CodeOf(m)
    BY DEF Acks
  <2>4. \A s \in Senders : pc'[s] = pc[s] \/
          (pc[s] = "waiting" /\ pc'[s] = "acked" /\ Expected(s) = c)
    BY <2>1
  <2>5. TypeOK' /\ Shapes'
    BY <1>0, <2>1, <2>2 DEF TypeOK, Shapes
  <2>6. Ordered' /\ MeshSound'
    BY <1>0, <2>2, <2>4 DEF Ordered, MeshSound, Current
  <2>7. ASSUME NEW s \in Senders, pc'[s] = "acked" PROVE Arrived(s, part[s])
    <3>1. CASE pc[s] = "acked"
      BY <1>0, <3>1 DEF WokenByOwn
    <3>2. CASE Expected(s) = c
      <4>1. m.to = PeerOf[s] /\ m.text = TextOf[s][part[s]]
        BY <2>3, <3>2 DEF Expected, CodeOf
      <4> QED
        BY <2>3, <4>1 DEF Arrived
    <3> QED
      BY <2>4, <2>7, <3>1, <3>2
  <2>8. WokenByOwn'
    BY <2>2, <2>7 DEF WokenByOwn, Arrived
  <2>9. ShownOnce' /\ AckedWasReceived'
    BY <1>0, <2>2 DEF ShownOnce, AckedWasReceived
  <2> QED
    BY <2>5, <2>6, <2>8, <2>9 DEF DmInv
<1>3. CASE Tick
  <2>1. clock' \in Nat /\ UNCHANGED <<pc, part, attempt, stamp, mesh, inbox, outcome>>
    BY <1>0, <1>3 DEF Tick, TypeOK
  <2>2. TypeOK' /\ Shapes' /\ Ordered' /\ MeshSound'
    BY <1>0, <2>1 DEF TypeOK, Shapes, Ordered, MeshSound, Current
  <2>3. WokenByOwn' /\ ShownOnce' /\ AckedWasReceived'
    BY <1>0, <2>1 DEF WokenByOwn, Arrived, ShownOnce, AckedWasReceived
  <2> QED
    BY <2>2, <2>3 DEF DmInv
<1>4. CASE UNCHANGED vars
  <2>1. TypeOK' /\ Shapes' /\ Ordered' /\ MeshSound'
    BY <1>0, <1>4 DEF vars, TypeOK, Shapes, Ordered, MeshSound, Current
  <2>2. WokenByOwn' /\ ShownOnce' /\ AckedWasReceived'
    BY <1>0, <1>4 DEF vars, WokenByOwn, Arrived, ShownOnce, AckedWasReceived
  <2> QED
    BY <2>1, <2>2 DEF DmInv
<1> QED
  BY <1>1, <1>2, <1>3, <1>4

LEMMA StepDm == DmInv /\ [Next]_vars => DmInv'
  BY TaskDm, MeshDm DEF Next

LEMMA InvariantDm == Spec => []DmInv
  BY InitDm, StepDm, PTL DEF Spec

-----------------------------------------------------------------------------
(* The variables keep their types: no part beyond the last one, no attempt *)
(* beyond dm_delivery.max_attempts, and nobody receives what was not sent. *)
THEOREM TypeCorrect == Spec => []TypeOK
<1>1. DmInv => TypeOK
  BY DEF DmInv
<1> QED
  BY <1>1, InvariantDm, PTL

(* A part counts as acknowledged only if its contact has received it, in   *)
(* whatever order, how late and how often acknowledgements are heard.      *)
THEOREM AckedIsReceived == Spec => []AckedWasReceived
<1>1. DmInv => AckedWasReceived
  BY DEF DmInv
<1> QED
  BY <1>1, InvariantDm, PTL

(* All attempts of a part carry one time, so its reader is shown it once.  *)
THEOREM EachIsShownOnce == Spec => []ShownOnce
<1>1. DmInv => ShownOnce
  BY DEF DmInv
<1> QED
  BY <1>1, InvariantDm, PTL

(* A part is on the mesh only when those before it have ended.             *)
THEOREM PartsKeepOrder == Spec => []PartsInOrder
<1>1. DmInv => PartsInOrder
  <2> SUFFICES ASSUME DmInv, NEW m \in mesh, NEW p \in PartsOf(m.by[1]), p < m.by[2]
               PROVE  outcome[m.by[1]][p] # "none"
    BY DEF PartsInOrder
  <2>1. TypeOK /\ Shapes /\ Ordered /\ MeshSound
    BY DEF DmInv
  <2>2. PICK s \in Senders, q \in Nat : m.by = <<s, q>> /\ q <= part[s]
    BY <2>1 DEF MeshSound
  <2>3. p \in PartsOf(s) /\ p \in Nat /\ part[s] \in Nat /\ p < q
    BY <2>1, <2>2, DmAssumption DEF Shapes, PartsOf
  <2> QED
    BY <2>1, <2>2, <2>3 DEF Ordered
<1> QED
  BY <1>1, InvariantDm, PTL

(* The codes of all attempts of a part differ.                             *)
THEOREM AttemptsDiffer == Spec => AttemptsAreDistinct
<1> DEFINE Differ ==
      \A s \in Senders : Start(s) \/ Resend(s) =>
        \A m \in mesh : m.by = <<s, part[s]>> => CodeOf(m) # Expected(s)'
<1>1. ASSUME DmInv, NEW s \in Senders, Start(s) \/ Resend(s),
             NEW m \in mesh, m.by = <<s, part[s]>>
      PROVE  CodeOf(m) # Expected(s)'
  <2>1. TypeOK /\ Shapes /\ pc[s] # "delay" /\ m.attempt <= attempt[s] /\ m.attempt \in Nat
    BY <1>1, DmAssumption DEF DmInv, MeshSound, Current, TypeOK
  <2>2. attempt'[s] = attempt[s] + 1 /\ attempt[s] \in Nat
    BY <1>1, <2>1 DEF Start, Resend, Transmit, Shapes
  <2> QED
    BY <2>1, <2>2 DEF CodeOf, Expected
<1>2. DmInv => [Differ]_vars
  BY <1>1
<1> QED
  BY <1>2, InvariantDm, PTL DEF Spec, AttemptsAreDistinct

(* Once a part has ended, by its ACK or otherwise, it is not sent again.   *)
THEOREM NotResent == Spec => NotResentAfterAck
<1> DEFINE Fresh == \A m \in mesh' \ mesh : outcome[m.by[1]][m.by[2]] = "none"
<1>1. ASSUME DmInv, NEW s \in Senders, Start(s) \/ Resend(s), NEW m \in mesh' \ mesh
      PROVE  outcome[m.by[1]][m.by[2]] = "none"
  <2>1. m.by = <<s, part[s]>> /\ pc[s] # "done"
    BY <1>1 DEF Start, Resend, Transmit
  <2>2. outcome[s][part[s]] = "none"
    BY <1>1, <2>1 DEF DmInv, Ordered, TypeOK
  <2> QED
    BY <2>1, <2>2
<1>2. ASSUME Next, ~ \E s \in Senders : Start(s) \/ Resend(s) PROVE mesh' = mesh
  BY <1>2 DEF Next, Step, SendError, SendBlind, SendOk, Acked, GiveUp, Receive, HearAck, Tick
<1>3. DmInv /\ [Next]_vars => [Fresh]_vars
  BY <1>1, <1>2
<1> QED
  BY <1>3, InvariantDm, PTL DEF Spec, NotResentAfterAck

-----------------------------------------------------------------------------
(* The refinement.  The letter of a part that is being sent is on the mesh *)
(* from its first attempt on, so that a further attempt adds no letter;    *)
(* and only a task that waits for acknowledgements is ever woken by one.   *)
PhaseOf == [s \in Senders |-> Phase(pc[s])]
TriesOf == [s \in Senders |-> Tries(pc[s], attempt[s])]
Offered == {Letter(m) : m \in mesh}
Shown == {Letter(m) : m \in inbox}

LetterOf(s) == [by |-> <<s, part[s]>>, to |-> PeerOf[s], text |-> TextOf[s][part[s]],
                at |-> stamp[s]]

OnMesh == \A s \in Senders : pc[s] \in Trying => LetterOf(s) \in Offered
Awaited == \A s \in Senders : pc[s] \in {"waiting", "acked"} => WaitAck

PromiseInv == DmInv /\ OnMesh /\ Awaited

LEMMA Phases ==
  /\ Phase("delay") = "idle" /\ Phase("done") = "over"
  /\ \A place \in Trying : Phase(place) = "trying"
  /\ \A n \in Nat : Tries("delay", n) = 0 /\ Tries("done", n) = 0
  /\ \A place \in Trying, n \in Nat : Tries(place, n) = n + 1
  BY DEF Phase, Tries, Trying

(* A task is at one place, and the others stay where they are.             *)
LEMMA PhaseStep ==
  ASSUME DmInv, NEW s \in Senders, NEW place \in Places, NEW n \in Nat,
         pc' = [pc EXCEPT ![s] = place], attempt' = [attempt EXCEPT ![s] = n]
  PROVE  /\ PhaseOf' = [PhaseOf EXCEPT ![s] = Phase(place)]
         /\ TriesOf' = [TriesOf EXCEPT ![s] = Tries(place, n)]
<1>1. pc \in [Senders -> Places] /\ attempt \in [Senders -> Nat]
  BY DEF DmInv, TypeOK, Shapes, Places
<1>2. \A q \in Senders : pc'[q] = (IF q = s THEN place ELSE pc[q])
                       /\ attempt'[q] = (IF q = s THEN n ELSE attempt[q])
  BY <1>1
<1>3. PhaseOf' = [PhaseOf EXCEPT ![s] = Phase(place)]
  <2>1. PhaseOf' = [q \in Senders |-> Phase(pc'[q])]
    BY DEF PhaseOf
  <2>2. \A q \in Senders : Phase(pc'[q]) = (IF q = s THEN Phase(place) ELSE Phase(pc[q]))
    BY <1>2
  <2> QED
    BY <2>1, <2>2 DEF PhaseOf
<1>4. TriesOf' = [TriesOf EXCEPT ![s] = Tries(place, n)]
  <2>1. TriesOf' = [q \in Senders |-> Tries(pc'[q], attempt'[q])]
    BY DEF TriesOf
  <2>2. \A q \in Senders : Tries(pc'[q], attempt'[q])
          = (IF q = s THEN Tries(place, n) ELSE Tries(pc[q], attempt[q]))
    BY <1>2
  <2> QED
    BY <2>1, <2>2 DEF TriesOf
<1> QED
  BY <1>3, <1>4

(* What a transmission puts on the mesh.                                   *)
LEMMA TransmitOffers ==
  ASSUME DmInv, NEW s \in Senders, NEW t \in Nat, NEW n \in Nat,
         Transmit(s, t, n), stamp' = [stamp EXCEPT ![s] = t], UNCHANGED part
  PROVE  Offered' = Offered \cup {LetterOf(s)'} /\ LetterOf(s)' \in Offered'
<1> DEFINE sent == [by |-> <<s, part[s]>>, to |-> PeerOf[s],
                    text |-> TextOf[s][part[s]], ts |-> t, attempt |-> n]
<1>1. mesh' = mesh \cup {sent}
  BY DEF Transmit
<1>2. stamp'[s] = t
  BY DEF DmInv, TypeOK
<1>3. Letter(sent) = LetterOf(s)'
  BY <1>2 DEF Letter, LetterOf
<1> HIDE DEF sent
<1> QED
  BY <1>1, <1>3 DEF Offered

LEMMA InitPromise == Init => PromiseInv /\ Promise!Init
<1> SUFFICES ASSUME Init PROVE PromiseInv /\ Promise!Init
  OBVIOUS
<1>1. PromiseInv
  BY InitDm DEF Init, PromiseInv, OnMesh, Awaited, Trying
<1>2. PhaseOf = [s \in Senders |-> "idle"] /\ TriesOf = [s \in Senders |-> 0]
  BY Phases DEF Init, PhaseOf, TriesOf
<1>3. Offered = {} /\ Shown = {}
  BY DEF Init, Offered, Shown
<1> QED
  BY <1>1, <1>2, <1>3 DEF Init, Promise!Init, PhaseOf, TriesOf, Offered, Shown, PartsOf

LEMMA PromiseInvStep ==
  ASSUME PromiseInv, [Next]_vars PROVE PromiseInv'
<1>0. DmInv /\ DmInv' /\ OnMesh /\ Awaited /\ pc \in [Senders -> Places]
      /\ stamp \in [Senders -> Nat] /\ part \in [Senders -> Nat] /\ clock \in Nat
      /\ attempt \in [Senders -> Nat]
  BY StepDm DEF PromiseInv, DmInv, TypeOK, Shapes, Places
<1>1. ASSUME NEW s \in Senders, NEW t \in Nat, NEW n \in Nat,
             Transmit(s, t, n), stamp' = [stamp EXCEPT ![s] = t], UNCHANGED part
      PROVE  OnMesh' /\ Awaited'
  <2>1. Offered' = Offered \cup {LetterOf(s)'}
    BY <1>0, <1>1, TransmitOffers
  <2>2. \A q \in Senders \ {s} : LetterOf(q)' = LetterOf(q) /\ pc'[q] = pc[q]
    BY <1>0, <1>1 DEF LetterOf, Transmit, Goto
  <2>3. pc'[s] = "sending"
    BY <1>0, <1>1 DEF Transmit, Goto
  <2> QED
    BY <1>0, <2>1, <2>2, <2>3 DEF OnMesh, Awaited
<1>2. ASSUME NEW s \in Senders, Step(s), ~ Start(s), ~ Resend(s)
      PROVE  OnMesh' /\ Awaited'
  <2>1. UNCHANGED <<stamp, mesh>>
    BY <1>2 DEF Step, SendError, SendBlind, SendOk, Acked, GiveUp
  <2>2. \A q \in Senders \ {s} : pc'[q] = pc[q] /\ part'[q] = part[q]
    BY <1>0, <1>2 DEF Step, SendError, SendBlind, SendOk, Acked, GiveUp, Finish, Goto
  <2>3. pc'[s] \in {"delay", "done"} \/ (pc'[s] = "waiting" /\ WaitAck /\ pc[s] = "sending" /\ part' = part)
    BY <1>0, <1>2 DEF Step, SendError, SendBlind, SendOk, Acked, GiveUp, Finish, Goto
  <2>4. Offered' = Offered
    BY <2>1 DEF Offered
  <2>5. \A q \in Senders \ {s} : LetterOf(q)' = LetterOf(q)
    BY <2>1, <2>2 DEF LetterOf
  <2>6. pc'[s] \in Trying => pc[s] \in Trying /\ LetterOf(s)' = LetterOf(s)
    BY <2>1, <2>3 DEF LetterOf, Trying
  <2> QED
    BY <1>0, <2>2, <2>3, <2>4, <2>5, <2>6 DEF OnMesh, Awaited
<1>3. ASSUME Receive \/ HearAck \/ Tick \/ UNCHANGED vars PROVE OnMesh' /\ Awaited'
  <2>1. UNCHANGED <<stamp, mesh, part>>
    BY <1>3 DEF Receive, HearAck, Tick, vars
  <2>2. \A q \in Senders : pc'[q] = pc[q] \/ (pc[q] = "waiting" /\ pc'[q] = "acked")
    BY <1>3 DEF Receive, HearAck, Tick, vars
  <2>3. Offered' = Offered /\ \A q \in Senders : LetterOf(q)' = LetterOf(q)
    BY <2>1 DEF Offered, LetterOf
  <2> QED
    BY <1>0, <2>2, <2>3 DEF OnMesh, Awaited, Trying
<1>4. ASSUME NEW s \in Senders, Start(s) PROVE OnMesh' /\ Awaited'
  BY <1>0, <1>1, <1>4 DEF Start
<1>5. ASSUME NEW s \in Senders, Resend(s) PROVE OnMesh' /\ Awaited'
  <2>1. stamp' = [stamp EXCEPT ![s] = stamp[s]] /\ stamp[s] \in Nat /\ attempt[s] + 1 \in Nat
    BY <1>0, <1>5 DEF Resend
  <2> QED
    BY <1>1, <1>5, <2>1 DEF Resend
<1> QED
  BY <1>0, <1>2, <1>3, <1>4, <1>5 DEF Next, PromiseInv

-----------------------------------------------------------------------------
LEMMA StartBegins ==
  ASSUME PromiseInv, NEW s \in Senders, Start(s) PROVE Promise!Begin(s)
<1>0. DmInv /\ TypeOK /\ MeshSound /\ clock \in Nat
  BY DEF PromiseInv, DmInv, TypeOK
<1>1. /\ pc[s] = "delay" /\ pc' = [pc EXCEPT ![s] = "sending"]
      /\ attempt' = [attempt EXCEPT ![s] = 0]
      /\ UNCHANGED <<part, inbox, outcome>>
  BY DEF Start, Transmit, Goto
<1>2. PhaseOf' = [PhaseOf EXCEPT ![s] = "trying"] /\ TriesOf' = [TriesOf EXCEPT ![s] = 1]
  <2>1. PhaseOf' = [PhaseOf EXCEPT ![s] = Phase("sending")]
        /\ TriesOf' = [TriesOf EXCEPT ![s] = Tries("sending", 0)]
    BY <1>0, <1>1, PhaseStep DEF Places
  <2>2. Phase("sending") = "trying" /\ Tries("sending", 0) = 1
    BY Phases DEF Trying
  <2> QED
    BY <2>1, <2>2
<1>3. Offered' = Offered \cup {LetterOf(s)'} /\ LetterOf(s)' \in Offered'
  BY <1>0, TransmitOffers DEF Start
<1>4. \A l \in Offered : l.by # <<s, part[s]>>
  BY <1>0, <1>1 DEF MeshSound, Current, Offered, Letter
<1>5. LetterOf(s)'.by = <<s, part[s]>> /\ LetterOf(s)'.to = PeerOf[s]
      /\ LetterOf(s)'.text = TextOf[s][part[s]]
  BY <1>1 DEF LetterOf
<1>6. PhaseOf[s] = "idle" /\ Shown' = Shown
  BY <1>1, Phases DEF PhaseOf, Shown
<1> QED
  BY <1>1, <1>2, <1>3, <1>4, <1>5, <1>6
     DEF Promise!Begin, PhaseOf, TriesOf, Offered, Shown

LEMMA ResendIsAgain ==
  ASSUME PromiseInv, NEW s \in Senders, Resend(s) PROVE Promise!Again(s)
<1>0. DmInv /\ OnMesh /\ stamp \in [Senders -> Nat] /\ attempt \in [Senders -> Nat]
      /\ pc \in [Senders -> Places] /\ MaxAttempts \in Nat
  BY DmAssumption DEF PromiseInv, DmInv, TypeOK, Shapes, Places
<1>1. /\ pc[s] = "waiting" /\ pc' = [pc EXCEPT ![s] = "sending"]
      /\ attempt' = [attempt EXCEPT ![s] = attempt[s] + 1]
      /\ attempt[s] + 1 < MaxAttempts
      /\ UNCHANGED <<part, stamp, inbox, outcome>>
  BY DEF Resend, Transmit, Goto
<1>2. attempt[s] + 1 \in Nat /\ stamp[s] \in Nat /\ stamp' = [stamp EXCEPT ![s] = stamp[s]]
  BY <1>0, <1>1
<1>3. /\ PhaseOf' = [PhaseOf EXCEPT ![s] = "trying"]
      /\ TriesOf' = [TriesOf EXCEPT ![s] = attempt[s] + 1 + 1]
  <2>1. PhaseOf' = [PhaseOf EXCEPT ![s] = Phase("sending")]
        /\ TriesOf' = [TriesOf EXCEPT ![s] = Tries("sending", attempt[s] + 1)]
    BY <1>0, <1>1, <1>2, PhaseStep DEF Places
  <2> QED
    BY <1>2, <2>1, Phases DEF Trying
<1>4. PhaseOf[s] = "trying" /\ TriesOf[s] = attempt[s] + 1
  BY <1>0, <1>1, Phases DEF PhaseOf, TriesOf, Trying
<1>5. PhaseOf' = PhaseOf
  BY <1>3, <1>4 DEF PhaseOf
<1>6. Offered' = Offered
  <2>1. Offered' = Offered \cup {LetterOf(s)'}
    BY <1>0, <1>2, TransmitOffers DEF Resend
  <2>2. LetterOf(s)' = LetterOf(s) /\ LetterOf(s) \in Offered
    BY <1>0, <1>1 DEF LetterOf, OnMesh, Trying
  <2> QED
    BY <2>1, <2>2
<1>7. Shown' = Shown
  BY <1>1 DEF Shown
<1> QED
  BY <1>1, <1>3, <1>4, <1>5, <1>6, <1>7
     DEF Promise!Again, PhaseOf, TriesOf, Offered, Shown

LEMMA FinishEnds ==
  ASSUME PromiseInv, NEW s \in Senders, NEW how, Finish(s, how), pc[s] \in Trying,
         UNCHANGED <<attempt, mesh, inbox>>, Promise!Allowed(s, how)
  PROVE  Promise!End(s, how)
<1>0. DmInv /\ attempt \in [Senders -> Nat] /\ part[s] \in PartsOf(s) /\ part[s] \in Nat
  BY DEF PromiseInv, DmInv, TypeOK, Shapes
<1>1. attempt' = [attempt EXCEPT ![s] = attempt[s]] /\ attempt[s] \in Nat
  BY <1>0
<1>2. Last(s) <=> part[s] + 1 \notin PartsOf(s)
  <2>1. CASE Last(s)
    BY <1>0, <2>1 DEF Last
  <2>2. CASE ~ Last(s)
    <3>1. PICK p \in PartsOf(s) : ~ (p <= part[s])
      BY <2>2 DEF Last
    <3>2. p \in Nat /\ 1 .. p \subseteq PartsOf(s)
      BY DmAssumption DEF PartsOf
    <3>3. part[s] + 1 \in 1 .. p
      BY <1>0, <3>1, <3>2
    <3> QED
      BY <2>2, <3>2, <3>3
  <2> QED
    BY <2>1, <2>2
<1>3. outcome' = [outcome EXCEPT ![s][part[s]] = how]
  BY DEF Finish
<1>4. Offered' = Offered /\ Shown' = Shown
  BY DEF Offered, Shown
<1>5. PhaseOf[s] = "trying"
  BY Phases DEF PhaseOf
<1>6. CASE Last(s)
  <2>1. pc' = [pc EXCEPT ![s] = "done"] /\ part' = part
    BY <1>6 DEF Finish, Goto
  <2>2. PhaseOf' = [PhaseOf EXCEPT ![s] = "over"] /\ TriesOf' = [TriesOf EXCEPT ![s] = 0]
    <3>1. PhaseOf' = [PhaseOf EXCEPT ![s] = Phase("done")]
          /\ TriesOf' = [TriesOf EXCEPT ![s] = Tries("done", attempt[s])]
      BY <1>0, <1>1, <2>1, PhaseStep DEF Places
    <3> QED
      BY <1>1, <3>1, Phases
  <2> QED
    BY <1>2, <1>3, <1>4, <1>5, <1>6, <2>1, <2>2
       DEF Promise!End, PhaseOf, TriesOf, Offered, Shown, PartsOf
<1>7. CASE ~ Last(s)
  <2>1. pc' = [pc EXCEPT ![s] = "delay"] /\ part' = [part EXCEPT ![s] = part[s] + 1]
    BY <1>7 DEF Finish, Goto
  <2>2. PhaseOf' = [PhaseOf EXCEPT ![s] = "idle"] /\ TriesOf' = [TriesOf EXCEPT ![s] = 0]
    <3>1. PhaseOf' = [PhaseOf EXCEPT ![s] = Phase("delay")]
          /\ TriesOf' = [TriesOf EXCEPT ![s] = Tries("delay", attempt[s])]
      BY <1>0, <1>1, <2>1, PhaseStep DEF Places
    <3> QED
      BY <1>1, <3>1, Phases
  <2> QED
    BY <1>2, <1>3, <1>4, <1>5, <1>7, <2>1, <2>2
       DEF Promise!End, PhaseOf, TriesOf, Offered, Shown, PartsOf
<1> QED
  BY <1>6, <1>7

(* Every ending is one that is promised: an acknowledged part has been     *)
(* shown, and a lost one was offered as often as is allowed.               *)
LEMMA EndingsAllowed ==
  ASSUME PromiseInv, NEW s \in Senders
  PROVE  /\ Acked(s) => Promise!End(s, "acked")
         /\ GiveUp(s) => Promise!End(s, "lost")
         /\ SendBlind(s) => Promise!End(s, "blind")
         /\ SendError(s) => Promise!End(s, "error")
<1>1. ASSUME Acked(s) PROVE Promise!End(s, "acked")
  <2>1. pc[s] = "acked" /\ Finish(s, "acked") /\ UNCHANGED <<attempt, mesh, inbox>>
    BY <1>1 DEF Acked
  <2>2. WaitAck
    BY <2>1 DEF PromiseInv, Awaited
  <2>3. PICK m \in inbox : m.to = PeerOf[s] /\ m.text = TextOf[s][part[s]]
    BY <2>1 DEF PromiseInv, DmInv, WokenByOwn, Arrived
  <2>4. Letter(m) \in Shown /\ Letter(m).to = PeerOf[s] /\ Letter(m).text = TextOf[s][part[s]]
    BY <2>3 DEF Shown, Letter
  <2>5. Promise!Allowed(s, "acked")
    BY <2>2, <2>4 DEF Promise!Allowed, Promise!Arrived, Shown
  <2> QED
    BY <2>1, <2>5, FinishEnds DEF Trying
<1>2. ASSUME GiveUp(s) PROVE Promise!End(s, "lost")
  <2>1. pc[s] = "waiting" /\ Finish(s, "lost") /\ UNCHANGED <<attempt, mesh, inbox>>
        /\ attempt[s] + 1 >= MaxAttempts
    BY <1>2 DEF GiveUp
  <2>2. WaitAck
    BY <2>1 DEF PromiseInv, Awaited
  <2>3. attempt[s] \in 0 .. MaxAttempts - 1 /\ MaxAttempts \in Nat
    BY DmAssumption DEF PromiseInv, DmInv, TypeOK
  <2>4. TriesOf[s] = MaxAttempts
    BY <2>1, <2>3, Phases DEF TriesOf, Trying
  <2>5. Promise!Allowed(s, "lost")
    BY <2>2, <2>4 DEF Promise!Allowed, TriesOf
  <2> QED
    BY <2>1, <2>5, FinishEnds DEF Trying
<1>3. Promise!Allowed(s, "blind") /\ Promise!Allowed(s, "error")
  BY DEF Promise!Allowed
<1>4. ASSUME SendBlind(s) PROVE Promise!End(s, "blind")
  BY <1>3, <1>4, FinishEnds DEF SendBlind, Trying
<1>5. ASSUME SendError(s) PROVE Promise!End(s, "error")
  BY <1>3, <1>5, FinishEnds DEF SendError, Trying
<1> QED
  BY <1>1, <1>2, <1>4, <1>5

(* Waiting, being woken and the passing of time are no steps of a reply.   *)
LEMMA OthersStutter ==
  ASSUME PromiseInv, (\E s \in Senders : SendOk(s)) \/ HearAck \/ Tick \/ UNCHANGED vars
  PROVE  UNCHANGED Promise!vars
<1>0. pc \in [Senders -> Places]
  BY DEF PromiseInv, DmInv, TypeOK, Places
<1>1. UNCHANGED <<part, attempt, mesh, inbox, outcome>>
  BY DEF SendOk, HearAck, Tick, vars
<1>2. \A q \in Senders : pc'[q] = pc[q] \/ (pc[q] \in Trying /\ pc'[q] \in Trying)
  BY <1>0 DEF SendOk, Goto, HearAck, Tick, vars, Trying
<1>3. attempt \in [Senders -> Nat]
  BY DEF PromiseInv, DmInv, Shapes
<1>4. PhaseOf' = PhaseOf /\ TriesOf' = TriesOf
  BY <1>1, <1>2, <1>3, Phases DEF PhaseOf, TriesOf
<1>5. Offered' = Offered /\ Shown' = Shown
  BY <1>1 DEF Offered, Shown
<1> QED
  BY <1>1, <1>4, <1>5 DEF Promise!vars, PhaseOf, TriesOf, Offered, Shown

LEMMA ReceiveShows == ASSUME Receive PROVE Promise!Show
<1>1. PICK m \in mesh : inbox' = inbox \cup {m}
  BY DEF Receive
<1>2. UNCHANGED <<pc, part, attempt, mesh, outcome>>
  BY DEF Receive
<1>3. Shown' = Shown \cup {Letter(m)} /\ Letter(m) \in Offered /\ Offered' = Offered
  BY <1>1, <1>2 DEF Shown, Offered
<1>4. PhaseOf' = PhaseOf /\ TriesOf' = TriesOf
  BY <1>2 DEF PhaseOf, TriesOf
<1> QED
  BY <1>2, <1>3, <1>4 DEF Promise!Show, PhaseOf, TriesOf, Offered, Shown

LEMMA PromiseStep ==
  ASSUME PromiseInv, [Next]_vars PROVE [Promise!Next]_(Promise!vars)
<1>1. ASSUME NEW s \in Senders, Step(s)
      PROVE  Promise!Next \/ UNCHANGED Promise!vars
  <2>1. CASE Start(s)
    BY <2>1, StartBegins DEF Promise!Next
  <2>2. CASE Resend(s)
    BY <2>2, ResendIsAgain DEF Promise!Next
  <2>3. CASE SendOk(s)
    BY <2>3, OthersStutter
  <2>4. CASE Acked(s) \/ GiveUp(s) \/ SendBlind(s) \/ SendError(s)
    BY <2>4, EndingsAllowed DEF Promise!Next
  <2> QED
    BY <1>1, <2>1, <2>2, <2>3, <2>4 DEF Step
<1>2. CASE Receive
  BY <1>2, ReceiveShows DEF Promise!Next
<1>3. CASE HearAck \/ Tick \/ UNCHANGED vars
  BY <1>3, OthersStutter
<1> QED
  BY <1>1, <1>2, <1>3 DEF Next

(* Clock, codes, attempts and acknowledgements cannot be told from outside: *)
(* a reply is what ReplyDelivery says, one letter for each part, in order, *)
(* acknowledged only if shown and lost only after the last attempt.        *)
THEOREM RepliesAreAsPromised == Spec => ReplySpec
<1>1. Init => Promise!Init /\ PromiseInv
  BY InitPromise
<1>2. PromiseInv /\ [Next]_vars => PromiseInv' /\ [Promise!Next]_(Promise!vars)
  BY PromiseInvStep, PromiseStep
<1> QED
  BY <1>1, <1>2, PTL DEF Spec, ReplySpec, Promise!Spec
=============================================================================
