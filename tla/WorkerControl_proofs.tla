------------------------ MODULE WorkerControl_proofs ------------------------
(***************************************************************************)
(* Safety of WorkerControl for any number of start and stop commands.      *)
(***************************************************************************)
EXTENDS WorkerControl, TLAPS

-----------------------------------------------------------------------------
(* The inductive invariant *)

\* A process keeps its number, so the one a stop command aims at still has the number it
\* read.
AimInv ==
    \A s \in Stoppers :
        /\ stop[s] = "idle" => aim[s] = NoWorker
        /\ aim[s] # NoWorker => proc[aim[s]] # "off" /\ pid[aim[s]] = target[s]

\* No two processes have a number at the same time.
NumberInv == \A v, w \in Workers : Alive(v) /\ Alive(w) /\ pid[v] = pid[w] => v = w

\* The process a stop command has found is the one it aims at, while that lives.
HeldInv ==
    \A s \in Stoppers :
        /\ stop[s] \in {"found", "polling"}
        /\ aim[s] # NoWorker
        /\ Alive(aim[s])
        => held[s] \in {aim[s], ByNumber}

\* Before the first worker there is no file, and nothing to stop.
BlankInv ==
    (\A w \in Workers : proc[w] = "off") =>
        file = NoPid /\ \A s \in Stoppers : stop[s] = "idle"

Sole(w) == Alive(w) /\ \A v \in Workers \ {w} : proc[v] = "off"

\* While the only worker ever started is alive, the file is its own and every stop command
\* that has read it aims at it.
SoleInv ==
    \A w \in Workers : Sole(w) =>
        /\ proc[w] = "launched" => file = NoPid /\ \A s \in Stoppers : stop[s] = "idle"
        /\ proc[w] # "launched" =>
              file = pid[w] /\ \A s \in Stoppers : stop[s] # "idle" => aim[s] = w

Inductive == TypeOK /\ StopIsFinal /\ AimInv /\ NumberInv /\ HeldInv /\ BlankInv /\ SoleInv

-----------------------------------------------------------------------------
\* Types are preserved.
LEMMA TypeStep ==
    ASSUME TypeOK, [Next]_vars
    PROVE  TypeOK'
<1> USE DEF TypeOK, commands
<1>1. ASSUME NEW w \in Workers, Launch(w)
      PROVE  TypeOK'
  BY <1>1 DEF Launch, Becomes
<1>2. ASSUME NEW w \in Workers, WritePIDFile(w)
      PROVE  TypeOK'
  BY <1>2 DEF WritePIDFile, Becomes
<1>3. ASSUME NEW w \in Workers, CatchSignals(w)
      PROVE  TypeOK'
  BY <1>3 DEF CatchSignals, Becomes
<1>4. ASSUME NEW w \in Workers, Interrupt(w)
      PROVE  TypeOK'
  BY <1>4 DEF Interrupt, Becomes, Signalled
<1>5. ASSUME NEW w \in Workers, Return(w)
      PROVE  TypeOK'
  BY <1>5 DEF Return, Becomes
<1>6. ASSUME NEW w \in Workers, RemoveAndExit(w)
      PROVE  TypeOK'
  BY <1>6 DEF RemoveAndExit, Becomes
<1>7. ASSUME NEW w \in Workers, Die(w)
      PROVE  TypeOK'
  BY <1>7 DEF Die, Becomes
<1>8. ASSUME NEW s \in Stoppers, ReadPIDFile(s)
      PROVE  TypeOK'
  BY <1>8 DEF ReadPIDFile, Has
<1>9. ASSUME NEW s \in Stoppers, FindProcess(s)
      PROVE  TypeOK'
  BY <1>9 DEF FindProcess, Has
<1>10. ASSUME NEW s \in Stoppers, SendInterrupt(s)
      PROVE  TypeOK'
  BY <1>10 DEF SendInterrupt, Signalled
<1>11. ASSUME NEW s \in Stoppers, SeeEnded(s)
      PROVE  TypeOK'
  BY <1>11 DEF SeeEnded, Ended
<1>12. ASSUME NEW s \in Stoppers, Kill(s)
      PROVE  TypeOK'
  BY <1>12 DEF Kill, Killed
<1>13. ASSUME NEW s \in Stoppers, RemovePIDFile(s)
      PROVE  TypeOK'
  BY <1>13 DEF RemovePIDFile
<1>14. CASE UNCHANGED vars
  BY <1>14 DEF vars
<1> QED
  BY <1>1, <1>2, <1>3, <1>4, <1>5, <1>6, <1>7, <1>8, <1>9, <1>10, <1>11, <1>12, <1>13,
     <1>14 DEF Next, StartStep, StopStep

\* A process that is gone stays so, and a stop command goes on only when its number is free.
LEMMA FinalStep ==
    ASSUME TypeOK, StopIsFinal, AimInv, HeldInv, [Next]_vars
    PROVE  StopIsFinal'
<1> USE ControlAssumption DEF TypeOK, StopIsFinal, AimInv, HeldInv, Alive, Owns, Running,
           Reached, commands
<1>1. ASSUME NEW w \in Workers, Launch(w)
      PROVE  StopIsFinal'
  BY <1>1 DEF Launch, Becomes
<1>2. ASSUME NEW w \in Workers, WritePIDFile(w)
      PROVE  StopIsFinal'
  BY <1>2 DEF WritePIDFile, Becomes
<1>3. ASSUME NEW w \in Workers, CatchSignals(w)
      PROVE  StopIsFinal'
  BY <1>3 DEF CatchSignals, Becomes
<1>4. ASSUME NEW w \in Workers, Interrupt(w)
      PROVE  StopIsFinal'
  BY <1>4 DEF Interrupt, Becomes, Signalled
<1>5. ASSUME NEW w \in Workers, Return(w)
      PROVE  StopIsFinal'
  BY <1>5 DEF Return, Becomes
<1>6. ASSUME NEW w \in Workers, RemoveAndExit(w)
      PROVE  StopIsFinal'
  BY <1>6 DEF RemoveAndExit, Becomes
<1>7. ASSUME NEW w \in Workers, Die(w)
      PROVE  StopIsFinal'
  BY <1>7 DEF Die, Becomes
<1>8. ASSUME NEW s \in Stoppers, ReadPIDFile(s)
      PROVE  StopIsFinal'
  BY <1>8 DEF ReadPIDFile, Has
<1>9. ASSUME NEW s \in Stoppers, FindProcess(s)
      PROVE  StopIsFinal'
  BY <1>9 DEF FindProcess, Has
<1>10. ASSUME NEW s \in Stoppers, SendInterrupt(s)
      PROVE  StopIsFinal'
  BY <1>10 DEF SendInterrupt, Signalled
<1>11. ASSUME NEW s \in Stoppers, SeeEnded(s)
      PROVE  StopIsFinal'
  BY <1>11 DEF SeeEnded, Ended
<1>12. ASSUME NEW s \in Stoppers, Kill(s)
      PROVE  StopIsFinal'
  BY <1>12 DEF Kill, Killed
<1>13. ASSUME NEW s \in Stoppers, RemovePIDFile(s)
      PROVE  StopIsFinal'
  BY <1>13 DEF RemovePIDFile
<1>14. CASE UNCHANGED vars
  BY <1>14 DEF vars
<1> QED
  BY <1>1, <1>2, <1>3, <1>4, <1>5, <1>6, <1>7, <1>8, <1>9, <1>10, <1>11, <1>12, <1>13,
     <1>14 DEF Next, StartStep, StopStep

\* Numbers are given once per process.
LEMMA AimStep ==
    ASSUME TypeOK, AimInv, [Next]_vars
    PROVE  AimInv'
<1> USE ControlAssumption DEF TypeOK, AimInv, Alive, Owns, Running, Reached, commands
<1>1. ASSUME NEW w \in Workers, Launch(w)
      PROVE  AimInv'
  BY <1>1 DEF Launch, Becomes
<1>2. ASSUME NEW w \in Workers, WritePIDFile(w)
      PROVE  AimInv'
  BY <1>2 DEF WritePIDFile, Becomes
<1>3. ASSUME NEW w \in Workers, CatchSignals(w)
      PROVE  AimInv'
  BY <1>3 DEF CatchSignals, Becomes
<1>4. ASSUME NEW w \in Workers, Interrupt(w)
      PROVE  AimInv'
  BY <1>4 DEF Interrupt, Becomes, Signalled
<1>5. ASSUME NEW w \in Workers, Return(w)
      PROVE  AimInv'
  BY <1>5 DEF Return, Becomes
<1>6. ASSUME NEW w \in Workers, RemoveAndExit(w)
      PROVE  AimInv'
  BY <1>6 DEF RemoveAndExit, Becomes
<1>7. ASSUME NEW w \in Workers, Die(w)
      PROVE  AimInv'
  BY <1>7 DEF Die, Becomes
<1>8. ASSUME NEW s \in Stoppers, ReadPIDFile(s)
      PROVE  AimInv'
  BY <1>8 DEF ReadPIDFile, Has
<1>9. ASSUME NEW s \in Stoppers, FindProcess(s)
      PROVE  AimInv'
  BY <1>9 DEF FindProcess, Has
<1>10. ASSUME NEW s \in Stoppers, SendInterrupt(s)
      PROVE  AimInv'
  BY <1>10 DEF SendInterrupt, Signalled
<1>11. ASSUME NEW s \in Stoppers, SeeEnded(s)
      PROVE  AimInv'
  BY <1>11 DEF SeeEnded, Ended
<1>12. ASSUME NEW s \in Stoppers, Kill(s)
      PROVE  AimInv'
  BY <1>12 DEF Kill, Killed
<1>13. ASSUME NEW s \in Stoppers, RemovePIDFile(s)
      PROVE  AimInv'
  BY <1>13 DEF RemovePIDFile
<1>14. CASE UNCHANGED vars
  BY <1>14 DEF vars
<1> QED
  BY <1>1, <1>2, <1>3, <1>4, <1>5, <1>6, <1>7, <1>8, <1>9, <1>10, <1>11, <1>12, <1>13,
     <1>14 DEF Next, StartStep, StopStep

\* A number is given to a process when no other has it.
LEMMA NumberStep ==
    ASSUME TypeOK, NumberInv, [Next]_vars
    PROVE  NumberInv'
<1> USE DEF TypeOK, NumberInv, Alive, Owns, Running, Reached, commands
<1>1. ASSUME NEW w \in Workers, Launch(w)
      PROVE  NumberInv'
  BY <1>1 DEF Launch, Becomes
<1>2. ASSUME NEW w \in Workers, WritePIDFile(w)
      PROVE  NumberInv'
  BY <1>2 DEF WritePIDFile, Becomes
<1>3. ASSUME NEW w \in Workers, CatchSignals(w)
      PROVE  NumberInv'
  BY <1>3 DEF CatchSignals, Becomes
<1>4. ASSUME NEW w \in Workers, Interrupt(w)
      PROVE  NumberInv'
  BY <1>4 DEF Interrupt, Becomes, Signalled
<1>5. ASSUME NEW w \in Workers, Return(w)
      PROVE  NumberInv'
  BY <1>5 DEF Return, Becomes
<1>6. ASSUME NEW w \in Workers, RemoveAndExit(w)
      PROVE  NumberInv'
  BY <1>6 DEF RemoveAndExit, Becomes
<1>7. ASSUME NEW w \in Workers, Die(w)
      PROVE  NumberInv'
  BY <1>7 DEF Die, Becomes
<1>8. ASSUME NEW s \in Stoppers, ReadPIDFile(s)
      PROVE  NumberInv'
  BY <1>8 DEF ReadPIDFile, Has
<1>9. ASSUME NEW s \in Stoppers, FindProcess(s)
      PROVE  NumberInv'
  BY <1>9 DEF FindProcess, Has
<1>10. ASSUME NEW s \in Stoppers, SendInterrupt(s)
      PROVE  NumberInv'
  BY <1>10 DEF SendInterrupt, Signalled
<1>11. ASSUME NEW s \in Stoppers, SeeEnded(s)
      PROVE  NumberInv'
  BY <1>11 DEF SeeEnded, Ended
<1>12. ASSUME NEW s \in Stoppers, Kill(s)
      PROVE  NumberInv'
  BY <1>12 DEF Kill, Killed
<1>13. ASSUME NEW s \in Stoppers, RemovePIDFile(s)
      PROVE  NumberInv'
  BY <1>13 DEF RemovePIDFile
<1>14. CASE UNCHANGED vars
  BY <1>14 DEF vars
<1> QED
  BY <1>1, <1>2, <1>3, <1>4, <1>5, <1>6, <1>7, <1>8, <1>9, <1>10, <1>11, <1>12, <1>13,
     <1>14 DEF Next, StartStep, StopStep

\* Finding a process later than reading its number makes no difference while it lives.
LEMMA HeldStep ==
    ASSUME TypeOK, AimInv, NumberInv, HeldInv, [Next]_vars
    PROVE  HeldInv'
<1> USE ControlAssumption DEF TypeOK, AimInv, NumberInv, HeldInv, Alive, Owns, Running, Reached,
           commands
<1>1. ASSUME NEW w \in Workers, Launch(w)
      PROVE  HeldInv'
  BY <1>1 DEF Launch, Becomes
<1>2. ASSUME NEW w \in Workers, WritePIDFile(w)
      PROVE  HeldInv'
  BY <1>2 DEF WritePIDFile, Becomes
<1>3. ASSUME NEW w \in Workers, CatchSignals(w)
      PROVE  HeldInv'
  BY <1>3 DEF CatchSignals, Becomes
<1>4. ASSUME NEW w \in Workers, Interrupt(w)
      PROVE  HeldInv'
  BY <1>4 DEF Interrupt, Becomes, Signalled
<1>5. ASSUME NEW w \in Workers, Return(w)
      PROVE  HeldInv'
  BY <1>5 DEF Return, Becomes
<1>6. ASSUME NEW w \in Workers, RemoveAndExit(w)
      PROVE  HeldInv'
  BY <1>6 DEF RemoveAndExit, Becomes
<1>7. ASSUME NEW w \in Workers, Die(w)
      PROVE  HeldInv'
  BY <1>7 DEF Die, Becomes
<1>8. ASSUME NEW s \in Stoppers, ReadPIDFile(s)
      PROVE  HeldInv'
  BY <1>8 DEF ReadPIDFile, Has
<1>9. ASSUME NEW s \in Stoppers, FindProcess(s)
      PROVE  HeldInv'
  BY <1>9 DEF FindProcess, Has
<1>10. ASSUME NEW s \in Stoppers, SendInterrupt(s)
      PROVE  HeldInv'
  BY <1>10 DEF SendInterrupt, Signalled
<1>11. ASSUME NEW s \in Stoppers, SeeEnded(s)
      PROVE  HeldInv'
  BY <1>11 DEF SeeEnded, Ended
<1>12. ASSUME NEW s \in Stoppers, Kill(s)
      PROVE  HeldInv'
  BY <1>12 DEF Kill, Killed
<1>13. ASSUME NEW s \in Stoppers, RemovePIDFile(s)
      PROVE  HeldInv'
  BY <1>13 DEF RemovePIDFile
<1>14. CASE UNCHANGED vars
  BY <1>14 DEF vars
<1> QED
  BY <1>1, <1>2, <1>3, <1>4, <1>5, <1>6, <1>7, <1>8, <1>9, <1>10, <1>11, <1>12, <1>13,
     <1>14 DEF Next, StartStep, StopStep

\* A launch ends the blank state for good.
LEMMA BlankStep ==
    ASSUME TypeOK, BlankInv, [Next]_vars
    PROVE  BlankInv'
<1> USE DEF TypeOK, BlankInv, Alive, Owns, Running, Reached, commands
<1>1. ASSUME NEW w \in Workers, Launch(w)
      PROVE  BlankInv'
  BY <1>1 DEF Launch, Becomes
<1>2. ASSUME NEW w \in Workers, WritePIDFile(w)
      PROVE  BlankInv'
  BY <1>2 DEF WritePIDFile, Becomes
<1>3. ASSUME NEW w \in Workers, CatchSignals(w)
      PROVE  BlankInv'
  BY <1>3 DEF CatchSignals, Becomes
<1>4. ASSUME NEW w \in Workers, Interrupt(w)
      PROVE  BlankInv'
  BY <1>4 DEF Interrupt, Becomes, Signalled
<1>5. ASSUME NEW w \in Workers, Return(w)
      PROVE  BlankInv'
  BY <1>5 DEF Return, Becomes
<1>6. ASSUME NEW w \in Workers, RemoveAndExit(w)
      PROVE  BlankInv'
  BY <1>6 DEF RemoveAndExit, Becomes
<1>7. ASSUME NEW w \in Workers, Die(w)
      PROVE  BlankInv'
  BY <1>7 DEF Die, Becomes
<1>8. ASSUME NEW s \in Stoppers, ReadPIDFile(s)
      PROVE  BlankInv'
  BY <1>8 DEF ReadPIDFile, Has
<1>9. ASSUME NEW s \in Stoppers, FindProcess(s)
      PROVE  BlankInv'
  BY <1>9 DEF FindProcess, Has
<1>10. ASSUME NEW s \in Stoppers, SendInterrupt(s)
      PROVE  BlankInv'
  BY <1>10 DEF SendInterrupt, Signalled
<1>11. ASSUME NEW s \in Stoppers, SeeEnded(s)
      PROVE  BlankInv'
  BY <1>11 DEF SeeEnded, Ended
<1>12. ASSUME NEW s \in Stoppers, Kill(s)
      PROVE  BlankInv'
  BY <1>12 DEF Kill, Killed
<1>13. ASSUME NEW s \in Stoppers, RemovePIDFile(s)
      PROVE  BlankInv'
  BY <1>13 DEF RemovePIDFile
<1>14. CASE UNCHANGED vars
  BY <1>14 DEF vars
<1> QED
  BY <1>1, <1>2, <1>3, <1>4, <1>5, <1>6, <1>7, <1>8, <1>9, <1>10, <1>11, <1>12, <1>13,
     <1>14 DEF Next, StartStep, StopStep

\* Nobody but the only worker, or a stop command after its end, touches the file.
LEMMA SoleStep ==
    ASSUME TypeOK, StopIsFinal, AimInv, BlankInv, SoleInv, [Next]_vars
    PROVE  SoleInv'
<1> USE ControlAssumption DEF TypeOK, StopIsFinal, AimInv, BlankInv, SoleInv, Sole, Alive, Owns, Running, Reached, commands
<1>1. ASSUME NEW w \in Workers, Launch(w)
      PROVE  SoleInv'
  BY <1>1 DEF Launch, Becomes
<1>2. ASSUME NEW w \in Workers, WritePIDFile(w)
      PROVE  SoleInv'
  BY <1>2 DEF WritePIDFile, Becomes
<1>3. ASSUME NEW w \in Workers, CatchSignals(w)
      PROVE  SoleInv'
  BY <1>3 DEF CatchSignals, Becomes
<1>4. ASSUME NEW w \in Workers, Interrupt(w)
      PROVE  SoleInv'
  BY <1>4 DEF Interrupt, Becomes, Signalled
<1>5. ASSUME NEW w \in Workers, Return(w)
      PROVE  SoleInv'
  BY <1>5 DEF Return, Becomes
<1>6. ASSUME NEW w \in Workers, RemoveAndExit(w)
      PROVE  SoleInv'
  BY <1>6 DEF RemoveAndExit, Becomes
<1>7. ASSUME NEW w \in Workers, Die(w)
      PROVE  SoleInv'
  BY <1>7 DEF Die, Becomes
<1>8. ASSUME NEW s \in Stoppers, ReadPIDFile(s)
      PROVE  SoleInv'
  BY <1>8 DEF ReadPIDFile, Has
<1>9. ASSUME NEW s \in Stoppers, FindProcess(s)
      PROVE  SoleInv'
  BY <1>9 DEF FindProcess, Has
<1>10. ASSUME NEW s \in Stoppers, SendInterrupt(s)
      PROVE  SoleInv'
  BY <1>10 DEF SendInterrupt, Signalled
<1>11. ASSUME NEW s \in Stoppers, SeeEnded(s)
      PROVE  SoleInv'
  BY <1>11 DEF SeeEnded, Ended
<1>12. ASSUME NEW s \in Stoppers, Kill(s)
      PROVE  SoleInv'
  BY <1>12 DEF Kill, Killed
<1>13. ASSUME NEW s \in Stoppers, RemovePIDFile(s)
      PROVE  SoleInv'
  BY <1>13 DEF RemovePIDFile
<1>14. CASE UNCHANGED vars
  BY <1>14 DEF vars
<1> QED
  BY <1>1, <1>2, <1>3, <1>4, <1>5, <1>6, <1>7, <1>8, <1>9, <1>10, <1>11, <1>12, <1>13,
     <1>14 DEF Next, StartStep, StopStep

\* Nothing has been started.
LEMMA InductiveInit == Init => Inductive
BY ControlAssumption
   DEF Init, Inductive, TypeOK, StopIsFinal, AimInv, NumberInv, HeldInv, BlankInv,
       SoleInv, Sole, Alive

\* Every step preserves the invariant.
LEMMA InductiveStep == Inductive /\ [Next]_vars => Inductive'
BY TypeStep, FinalStep, AimStep, NumberStep, HeldStep, BlankStep, SoleStep DEF Inductive

\* Every reachable state satisfies the invariant.
THEOREM InductiveHolds == Spec => []Inductive
BY InductiveInit, InductiveStep, PTL DEF Spec

\* The variables of the commands keep their types.
THEOREM TypeCorrect == Spec => []TypeOK
<1>1. Inductive => TypeOK
  BY DEF Inductive
<1> QED
  BY <1>1, InductiveHolds, PTL

\* A stop command reports only after the worker it was aimed at has ended, for any number of
\* workers and stop commands, and any reuse of numbers.
THEOREM StopsAreFinal == Spec => []StopIsFinal
<1>1. Inductive => StopIsFinal
  BY DEF Inductive
<1> QED
  BY <1>1, InductiveHolds, PTL

\* The only worker ever started can be found by its file for as long as it runs.
THEOREM SoleWorkersAreStoppable == Spec => []SoleWorkerIsStoppable
<1>1. Inductive => SoleWorkerIsStoppable
  BY DEF Inductive, SoleInv, Sole, Alive, SoleWorkerIsStoppable
<1> QED
  BY <1>1, InductiveHolds, PTL
=============================================================================
