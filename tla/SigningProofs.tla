--------------------------- MODULE SigningProofs ----------------------------
(***************************************************************************)
(* Proofs about Signing: for every table of disciplined sign methods, of   *)
(* any length, and every set of keys.                                      *)
(***************************************************************************)
EXTENDS SignerDiscipline, TLAPS

(* The steps of a running method are well typed.                           *)
LEMMA StepsTyped ==
  ASSUME prog \in Programs
  PROVE  /\ Steps \in Seq(StepType)
         /\ Len(Steps) \in Nat
         /\ prog.loads \in BOOLEAN
         /\ prog.rejects \subseteq {"Value", "Other"}
         /\ \A i \in 1..Len(Steps) : Steps[i] \in StepType
         /\ \A i \in 1..Len(Steps) : Gets(Steps[i]) => \E k \in KeyNames : Steps[i].keys = {k}
<1>1. /\ prog.steps \in Seq(StepType)
      /\ prog.loads \in BOOLEAN
      /\ prog.rejects \subseteq {"Value", "Other"}
      /\ \A i \in 1..Len(prog.steps) :
           prog.steps[i].op \in {"get", "opt"} => \E k \in KeyNames : prog.steps[i].keys = {k}
  BY ProgramsAssumption DEF IsProgram
<1>2. Len(prog.steps) \in Nat /\ \A i \in 1..Len(prog.steps) : prog.steps[i] \in StepType
  BY <1>1
<1> QED
  BY <1>1, <1>2 DEF Steps, Gets

(* An operation keeps to its method.                                       *)
LEMMA SameProg == [Next]_vars => prog' = prog
  BY DEF Next, vars, opVars, Refuse, ConstructorRaises, Construct, HandOver, TurnDown,
         PrepareRaises, Skip, FetchKey, MissOptional, MissKey, FetchBreaks, EnsureLoaded, LoadRaises, ToolSucceeds,
         ToolFails, ToolRaises, WorkDone, WorkRaises, CleanKeys, Return, Answer,
         Collect, Advance, Raise

(* Type correctness is kept by every step of the operation.                *)
LEMMA TypeStep == TypeOK /\ [Next]_vars => TypeOK'
<1> SUFFICES ASSUME TypeOK, [Next]_vars PROVE TypeOK'
  OBVIOUS
<1>1. prog \in Programs
  BY DEF TypeOK
<1>2. /\ Len(Steps) \in Nat
      /\ \A i \in 1..Len(Steps) : Steps[i] \in StepType
      /\ \A i \in 1..Len(Steps) : Gets(Steps[i]) => \E k \in KeyNames : Steps[i].keys = {k}
  BY <1>1, StepsTyped
<1>3. prog' = prog
  BY SameProg
<1>4. Steps' = Steps
  BY <1>3 DEF Steps
<1> USE DEF TypeOK, KeyTypeOK
<1>5. ASSUME DropDir PROVE KeyTypeOK'
  BY <1>5 DEF DropDir
<1>6. ASSUME UNCHANGED keyVars PROVE KeyTypeOK'
  BY <1>6 DEF keyVars
<1>7. ASSUME LoadKeys PROVE KeyTypeOK'
  BY <1>7 DEF LoadKeys
<1>8. ASSUME NEW k \in KeyNames, GetKey(k) \/ KeyNotFound(k) \/ GetBreaks(k)
      PROVE  KeyTypeOK'
  <2>1. CASE GetKey(k)
    BY <2>1 DEF GetKey, OpenDir
  <2>2. CASE KeyNotFound(k)
    BY <2>2 DEF KeyNotFound, OpenDir
  <2>3. CASE ~tmpdir /\ UNCHANGED keyVars
    BY <2>3 DEF keyVars
  <2>4. CASE OpenDir /\ k \in store \ held /\ held' \in {held, held \cup {k}}
             /\ UNCHANGED <<scheme, store, loaded, whole>>
    <3>1. held' \subseteq KeyNames /\ held \subseteq held'
      BY <2>4
    <3> QED
      BY <2>4, <3>1 DEF OpenDir
  <2> QED
    BY <1>8, <2>1, <2>2, <2>3, <2>4 DEF GetBreaks
<1>9. ASSUME NEW ops, Ready(ops) PROVE Here \in StepType /\ pc \in 1..Len(Steps)
  BY <1>9, <1>2 DEF Ready, Here
<1>10. ASSUME Ready({"get", "opt"}) \/ Ready({"get"}) \/ Ready({"opt"})
       PROVE  Here.keys \subseteq KeyNames /\ \A k \in Here.keys : k \in KeyNames
  BY <1>9, <1>10 DEF StepType
<1>11. ASSUME pc \in 1..Len(Steps) PROVE pc + 1 \in 1..(Len(Steps) + 1)
  BY <1>2, <1>11
<1>12. CASE Refuse
  BY <1>12, <1>6, <1>3, <1>4 DEF Refuse
<1>13. CASE ConstructorRaises
  BY <1>13, <1>6, <1>3, <1>4 DEF ConstructorRaises
<1>14. CASE Construct
  BY <1>14, <1>6, <1>7, <1>3, <1>4 DEF Construct
<1>15. CASE Skip
  BY <1>15, <1>6, <1>11, <1>4 DEF Skip, Advance
<1>16. CASE FetchKey
  BY <1>16, <1>8, <1>9, <1>10, <1>11, <1>4 DEF FetchKey, Advance
<1>17. CASE MissOptional
  BY <1>17, <1>8, <1>9, <1>10, <1>11, <1>4 DEF MissOptional, Advance
<1>18. CASE MissKey
  BY <1>18, <1>8, <1>9, <1>10, <1>4 DEF MissKey, Raise
<1>19. CASE FetchBreaks
  BY <1>19, <1>8, <1>9, <1>10, <1>4 DEF FetchBreaks, Raise
<1>20. CASE EnsureLoaded
  BY <1>20, <1>6, <1>7, <1>9, <1>11, <1>4 DEF EnsureLoaded, Advance
<1>21. CASE LoadRaises
  BY <1>21, <1>6, <1>4 DEF LoadRaises, Raise
<1>22. CASE ToolSucceeds
  BY <1>22, <1>5, <1>6, <1>9, <1>11, <1>4 DEF ToolSucceeds, Advance, CleanIfAsked
<1>23. CASE ToolFails
  BY <1>23, <1>5, <1>6, <1>9, <1>11, <1>4 DEF ToolFails, Advance, CleanIfAsked
<1>24. CASE ToolRaises
  BY <1>24, <1>6, <1>4 DEF ToolRaises, Raise
<1>25. CASE WorkDone
  BY <1>25, <1>6, <1>9, <1>11, <1>4 DEF WorkDone, Advance
<1>26. CASE WorkRaises
  BY <1>26, <1>6, <1>4 DEF WorkRaises, Raise
<1>27. CASE CleanKeys
  BY <1>27, <1>5, <1>6, <1>9, <1>11, <1>4 DEF CleanKeys, Advance
<1>28. CASE Return
  BY <1>28, <1>6, <1>4 DEF Return
<1>29. CASE Answer
  BY <1>29, <1>6, <1>4 DEF Answer
<1>30. CASE Collect
  BY <1>30, <1>5, <1>4 DEF Collect, opVars
<1>31. CASE UNCHANGED vars
  BY <1>31, <1>6, <1>4 DEF vars, opVars
<1>32. CASE HandOver \/ TurnDown \/ PrepareRaises
  BY <1>32, <1>6, <1>4 DEF HandOver, TurnDown, PrepareRaises
<1> QED
  BY <1>12, <1>13, <1>14, <1>15, <1>16, <1>17, <1>18, <1>19, <1>20, <1>21, <1>22,
     <1>23, <1>24, <1>25, <1>26, <1>27, <1>28, <1>29, <1>30, <1>31, <1>32 DEF Next

-----------------------------------------------------------------------------
(* What lies before a step, when the program counter moves past it.        *)
LEMMA Past ==
  ASSUME NEW P, NEW i \in Nat, i >= 1
  PROVE  /\ GetBefore(P, i + 1) <=> GetBefore(P, i) \/ Gets(P[i])
         /\ ToolBefore(P, i + 1) <=> ToolBefore(P, i) \/ Tool(P[i])
         /\ ClosingBefore(P, i + 1) <=> ClosingBefore(P, i) \/ Closing(P[i])
<1>1. 1..((i + 1) - 1) = (1..(i - 1)) \cup {i}
  OBVIOUS
<1> QED
  BY <1>1 DEF GetBefore, ToolBefore, ClosingBefore

(* The indices below pc' when the program counter advances.                *)
LEMMA Indices ==
  ASSUME pc \in Nat, pc >= 1, pc' = pc + 1
  PROVE  1..(pc' - 1) = (1..(pc - 1)) \cup {pc}
OBVIOUS

(* AtStep holds again after each step that moves the program counter.      *)
LEMMA AdvanceStep ==
  ASSUME IInv, Skip \/ FetchKey \/ MissOptional \/ EnsureLoaded \/ ToolSucceeds
                \/ ToolFails \/ WorkDone \/ CleanKeys
  PROVE  AtStep' /\ status = "running" /\ status' = "running" /\ OpenedOnce'
         /\ UNCHANGED reply
<1> USE DEF IInv
<1>0. /\ status = "running" /\ pc \in 1..Len(Steps)
      /\ pc' = pc + 1 /\ prog' = prog /\ status' = status /\ reply' = reply
  BY DEF Skip, FetchKey, MissOptional, EnsureLoaded, ToolSucceeds, ToolFails, WorkDone,
         CleanKeys, Ready, Advance
<1>1. /\ Steps \in Seq(StepType) /\ Len(Steps) \in Nat /\ prog.loads \in BOOLEAN
      /\ Here \in StepType
      /\ Disciplined(prog)
      /\ Gets(Here) => \E k \in KeyNames : Here.keys = {k}
  BY <1>0, StepsTyped DEF TypeOK, Here
<1>2. Steps' = Steps
  BY <1>0 DEF Steps
<1>3. /\ GetBefore(Steps, pc') <=> GetBefore(Steps, pc) \/ Gets(Here)
      /\ ToolBefore(Steps, pc') <=> ToolBefore(Steps, pc) \/ Tool(Here)
      /\ ClosingBefore(Steps, pc') <=> ClosingBefore(Steps, pc) \/ Closing(Here)
  <2>1. pc \in Nat /\ pc >= 1
    BY <1>0, <1>1
  <2>2. /\ GetBefore(Steps, pc + 1) <=> GetBefore(Steps, pc) \/ Gets(Steps[pc])
        /\ ToolBefore(Steps, pc + 1) <=> ToolBefore(Steps, pc) \/ Tool(Steps[pc])
        /\ ClosingBefore(Steps, pc + 1) <=> ClosingBefore(Steps, pc) \/ Closing(Steps[pc])
    BY <2>1, Past
  <2> QED
    BY <1>0, <2>2 DEF Here
<1>4. 1..(pc' - 1) = (1..(pc - 1)) \cup {pc}
  BY <1>0, <1>1, Indices
<1>5. /\ Gets(Here) => ~ToolBefore(Steps, pc) /\ ~ClosingBefore(Steps, pc)
      /\ Here.op = "run" => Here.when = "ok"
  BY <1>0, <1>1 DEF Disciplined, FetchesFirst, NoMaskedFailure, Steps, Here
<1>6. /\ held = whole
      /\ ~ClosingBefore(Steps, pc) => got \subseteq whole
      /\ ~ToolBefore(Steps, pc) => result
      /\ (\E i \in 1..(pc - 1) : Certain(Steps, i)) => ~tmpdir
      /\ dirs > 0 => GetBefore(Steps, pc)
      /\ dirs > 0 /\ ~tmpdir => ClosingBefore(Steps, pc)
      /\ \A i \in 1..(pc - 1) : Steps[i].op = "get" => Steps[i].keys \subseteq got
      /\ prog.loads => loaded
      /\ \A i \in 1..(pc - 1) :
           Steps[i].op = "load" /\ ~ToolBefore(Steps, i) => loaded
      /\ tmpdir => loaded
      /\ result <=> ~toolFailed
  BY <1>0 DEF AtStep
<1>7. Certain(Steps, pc) <=> Closing(Here) /\ (Here.when = "always" \/ ~ToolBefore(Steps, pc))
  BY DEF Certain, Here
<1>8. (\E i \in 1..(pc - 1) : Certain(Steps, i)) => ClosingBefore(Steps, pc)
  BY DEF Certain, ClosingBefore
<1>9. Here.when \in {"ok", "always"} /\ Here.cleanup \in BOOLEAN /\ Here.op \in Ops
  BY <1>1 DEF StepType
<1>10. /\ result \in BOOLEAN /\ toolFailed \in BOOLEAN /\ tmpdir \in BOOLEAN
       /\ loaded \in BOOLEAN /\ dirs \in Nat /\ (tmpdir => dirs > 0)
  BY DEF TypeOK, KeyTypeOK, OpenedOnce
\* What AtStep' comes to, now that the indices below pc' are known.
<1>11. SUFFICES
         /\ held' = whole'
         /\ ~(ClosingBefore(Steps, pc) \/ Closing(Here)) => got' \subseteq whole'
         /\ ~(ToolBefore(Steps, pc) \/ Tool(Here)) => result'
         /\ (\E i \in 1..(pc - 1) : Certain(Steps, i)) \/ Certain(Steps, pc) => ~tmpdir'
         /\ dirs' > 0 => GetBefore(Steps, pc) \/ Gets(Here)
         /\ dirs' > 0 /\ ~tmpdir' => ClosingBefore(Steps, pc) \/ Closing(Here)
         /\ \A i \in 1..(pc - 1) : Steps[i].op = "get" => Steps[i].keys \subseteq got'
         /\ Here.op = "get" => Here.keys \subseteq got'
         /\ prog.loads => loaded'
         /\ \A i \in 1..(pc - 1) :
              Steps[i].op = "load" /\ ~ToolBefore(Steps, i) => loaded'
         /\ Here.op = "load" /\ ~ToolBefore(Steps, pc) => loaded'
         /\ tmpdir' => loaded'
         /\ result' <=> ~toolFailed'
         /\ tmpdir' => dirs' > 0
  <2>1. (\E i \in 1..(pc' - 1) : Certain(Steps, i))
          <=> (\E i \in 1..(pc - 1) : Certain(Steps, i)) \/ Certain(Steps, pc)
    BY <1>4
  <2> QED
    BY <1>0, <1>2, <1>3, <1>4, <1>11, <2>1 DEF AtStep, OpenedOnce, Here
\* Getting a key requires that no tool and no cleanup came before, so the
\* KeyFiles object is there.
<1>12. ASSUME Gets(Here) PROVE loaded /\ result /\ ~ClosingBefore(Steps, pc)
  <2>1. ~ToolBefore(Steps, pc) /\ ~ClosingBefore(Steps, pc) /\ result
    BY <1>5, <1>6, <1>12
  <2>2. CASE prog.loads
    BY <2>1, <2>2, <1>6
  <2>3. CASE ~prog.loads
    <3>1. PICK j \in 1..(pc - 1) : Steps[j].op = "load"
      BY <2>3, <1>0, <1>1, <1>12 DEF Disciplined, HasKeyFiles, Steps, Here
    <3>2. ~ToolBefore(Steps, j)
      BY <2>1, <3>1, <1>0, <1>1 DEF ToolBefore
    <3> QED
      BY <2>1, <3>1, <3>2, <1>6
  <2> QED
    BY <2>2, <2>3
<1>13. ASSUME Closing(Here) PROVE ~Gets(Here) /\ Here.op # "load"
  BY <1>13 DEF Closing, Gets, Tool
<1>14. CASE Skip
  <2>1. ~result /\ Here.when = "ok" /\ ToolBefore(Steps, pc) /\ ~Gets(Here)
    BY <1>14, <1>5, <1>6 DEF Skip
  <2> QED
    BY <1>14, <2>1, <1>6, <1>7, <1>8, <1>9, <1>10 DEF Skip, keyVars, Gets
<1>15. CASE FetchKey
  <2>1. Here.op \in {"get", "opt"} /\ Gets(Here) /\ ~Tool(Here) /\ ~Closing(Here)
    BY <1>15 DEF FetchKey, Ready, Gets, Tool, Closing
  <2>2. PICK k \in KeyNames : Here.keys = {k}
    BY <2>1, <1>1
  <2>3. GetKey(k) /\ got' = got \cup {k} /\ UNCHANGED <<result, toolFailed>>
    BY <1>15, <2>2 DEF FetchKey
  <2>4. got \subseteq whole /\ loaded /\ result
    BY <2>1, <1>6, <1>12
  <2>5. held' = whole' /\ got' \subseteq whole' /\ loaded'
    BY <2>3, <2>4, <1>6 DEF GetKey
  <2>6. tmpdir' = TRUE /\ dirs' > 0
    BY <2>3, <1>10 DEF GetKey, OpenDir
  <2> QED
    BY <2>1, <2>2, <2>3, <2>4, <2>5, <2>6, <1>6, <1>7, <1>8, <1>10, <1>12 DEF GetKey
<1>16. CASE MissOptional
  <2>1. Here.op = "opt" /\ Gets(Here) /\ ~Tool(Here) /\ ~Closing(Here)
    BY <1>16 DEF MissOptional, Ready, Gets, Tool, Closing
  <2>2. PICK k \in Here.keys : KeyNotFound(k)
    BY <1>16 DEF MissOptional
  <2>3. tmpdir' = TRUE /\ dirs' > 0
    BY <2>2, <1>10 DEF KeyNotFound, OpenDir
  <2>4. UNCHANGED <<loaded, held, whole, got, result, toolFailed>>
    BY <1>16, <2>2 DEF MissOptional, KeyNotFound
  <2> QED
    BY <2>1, <2>3, <2>4, <1>6, <1>7, <1>8, <1>10, <1>12
<1>17. CASE EnsureLoaded
  <2>1. Here.op = "load" /\ ~Gets(Here) /\ ~Tool(Here) /\ ~Closing(Here)
    BY <1>17 DEF EnsureLoaded, Ready, Gets, Tool, Closing
  <2>2. loaded' /\ UNCHANGED <<tmpdir, held, whole, dirs, got, result, toolFailed>>
    BY <1>17, <1>10 DEF EnsureLoaded, LoadKeys, keyVars
  <2> QED
    BY <2>1, <2>2, <1>6, <1>7, <1>8, <1>10
<1>18. ASSUME Here.op # "load", ~Gets(Here),
              \/ Closing(Here) /\ (IF loaded THEN DropDir ELSE UNCHANGED keyVars)
              \/ ~Closing(Here) /\ UNCHANGED keyVars,
              got' = got
       PROVE  /\ held' = whole' /\ loaded' = loaded
              /\ ~(ClosingBefore(Steps, pc) \/ Closing(Here)) => got' \subseteq whole'
              /\ (\E i \in 1..(pc - 1) : Certain(Steps, i)) \/ Certain(Steps, pc) => ~tmpdir'
              /\ dirs' > 0 => GetBefore(Steps, pc) \/ Gets(Here)
              /\ dirs' > 0 /\ ~tmpdir' => ClosingBefore(Steps, pc) \/ Closing(Here)
              /\ tmpdir' => loaded' /\ dirs' > 0
  <2>1. CASE Closing(Here) /\ DropDir
    <3>1. /\ held' = {} /\ whole' = {} /\ tmpdir' = FALSE /\ loaded' = loaded /\ dirs' = dirs
      BY <2>1 DEF DropDir
    <3> QED
      BY <2>1, <3>1, <1>6, <1>18
  <2>2. CASE UNCHANGED keyVars /\ (Closing(Here) => ~loaded)
    <3>1. UNCHANGED <<tmpdir, held, whole, loaded, dirs, got>>
      BY <2>2, <1>18 DEF keyVars
    <3> QED
      BY <2>2, <3>1, <1>6, <1>7, <1>8, <1>10
  <2> QED
    BY <1>18, <2>1, <2>2
<1>19. ASSUME ToolSucceeds \/ ToolFails
       PROVE  /\ Tool(Here) /\ ~Gets(Here) /\ Here.op \notin {"load", "get"}
              /\ got' = got
              /\ \/ Closing(Here) /\ (IF loaded THEN DropDir ELSE UNCHANGED keyVars)
                 \/ ~Closing(Here) /\ UNCHANGED keyVars
  <2>1. Here.op \in {"run", "each"} /\ CleanIfAsked /\ got' = got
    BY <1>19 DEF ToolSucceeds, ToolFails, Ready
  <2> QED
    BY <2>1, <1>9 DEF Tool, Gets, Closing, CleanIfAsked
<1>20. CASE ToolSucceeds
  <2>1. result' <=> ~toolFailed'
    <3>1. Here.op = "run" => result
      BY <1>20, <1>5 DEF ToolSucceeds, Ready
    <3> QED
      BY <1>20, <3>1, <1>6, <1>10 DEF ToolSucceeds
  <2> QED
    BY <1>18, <1>19, <1>20, <2>1, <1>6
<1>21. CASE ToolFails
  <2>1. result' <=> ~toolFailed'
    BY <1>21 DEF ToolFails
  <2> QED
    BY <1>18, <1>19, <1>21, <2>1, <1>6
<1>22. CASE WorkDone
  <2>1. /\ Here.op \in {"work", "transfer"} /\ UNCHANGED <<keyVars, result, got, toolFailed>>
    BY <1>22 DEF WorkDone, Ready
  <2>2. Here.op \notin {"load", "get"} /\ ~Gets(Here) /\ ~Tool(Here) /\ ~Closing(Here)
    BY <2>1 DEF Gets, Tool, Closing
  <2> QED
    BY <2>1, <2>2, <1>18, <1>6
<1>23. CASE CleanKeys
  <2>1. /\ Here.op = "clean" /\ UNCHANGED <<result, got, toolFailed>>
        /\ IF loaded THEN DropDir ELSE UNCHANGED keyVars
    BY <1>23 DEF CleanKeys, Ready
  <2>2. Here.op \notin {"load", "get"} /\ ~Gets(Here) /\ ~Tool(Here) /\ Closing(Here)
    BY <2>1 DEF Gets, Tool, Closing
  <2> QED
    BY <2>1, <2>2, <1>18, <1>6
<1> QED
  BY <1>14, <1>15, <1>16, <1>17, <1>20, <1>21, <1>22, <1>23

-----------------------------------------------------------------------------
(* The invariant holds initially.                                          *)
LEMMA InitIInv == DisciplinedTable /\ Init => IInv
<1> SUFFICES ASSUME DisciplinedTable, Init PROVE IInv
  OBVIOUS
<1>1. prog \in Programs /\ KeyInit
  BY DEF Init
<1>2. Len(Steps) \in Nat /\ \A i \in 1..Len(Steps) : Steps[i] \in StepType
  BY <1>1, StepsTyped
<1>3. KeysOf(prog) \subseteq KeyNames
  BY <1>2 DEF KeysOf, Steps, StepType
<1>4. TypeOK
  <2>1. KeyTypeOK
    <3>1. store \subseteq KeyNames /\ held = {} /\ whole = {} /\ dirs = 0
      BY <1>3 DEF Init, KeyInit
    <3>2. loaded = FALSE /\ tmpdir = FALSE /\ scheme \in {"file", "s3"}
      BY DEF Init, KeyInit
    <3> QED
      BY <3>1, <3>2 DEF KeyTypeOK
  <2>2. pc \in 1..(Len(Steps) + 1)
    BY <1>2 DEF Init
  <2> QED
    BY <1>1, <2>1, <2>2 DEF Init, TypeOK
<1>5. ~tmpdir /\ dirs = 0 /\ pc = 1 /\ result /\ got = {} /\ ~toolFailed /\ reply = "none"
  BY Zenon DEF Init, KeyInit
<1>6. AtStep /\ AtReturn /\ Constructed
  BY DEF Init, AtStep, AtReturn, Constructed
<1> QED
  BY <1>1, <1>4, <1>5, <1>6 DEF IInv, DisciplinedTable, Untouched, NotAnswered, OpenedOnce

(* Every step of the operation keeps it.                                   *)
LEMMA StepIInv == IInv /\ [Next]_vars => IInv'
<1> SUFFICES ASSUME IInv, [Next]_vars PROVE IInv'
  OBVIOUS
<1>1. TypeOK' /\ Disciplined(prog')
  BY TypeStep, SameProg DEF IInv
<1> SUFFICES (Untouched /\ Constructed /\ NotAnswered /\ OpenedOnce /\ AtStep /\ AtReturn)'
  BY <1>1 DEF IInv
<1> USE DEF IInv
<1>2. CASE Skip \/ FetchKey \/ MissOptional \/ EnsureLoaded \/ ToolSucceeds \/ ToolFails
           \/ WorkDone \/ CleanKeys
  <2>1. AtStep' /\ status = "running" /\ status' = "running" /\ OpenedOnce' /\ UNCHANGED reply
    BY <1>2, AdvanceStep
  <2> QED
    BY <2>1 DEF Untouched, Constructed, NotAnswered, AtReturn
\* The method ends in an exception.  Only a fetch that fails changes the keys.
<1>3. CASE MissKey \/ FetchBreaks \/ LoadRaises \/ ToolRaises \/ WorkRaises
  <2>1. status' = "raised"
    BY <1>3 DEF MissKey, FetchBreaks, LoadRaises, ToolRaises, WorkRaises, Raise
  <2>2. dirs \in Nat
    BY DEF TypeOK, KeyTypeOK
  <2>3. OpenedOnce'
    <3>1. CASE MissKey \/ FetchBreaks
      <4>1. (\E k \in Here.keys : KeyNotFound(k)) \/ (\E k \in Here.keys : GetBreaks(k))
        BY <3>1 DEF MissKey, FetchBreaks
      <4>2. OpenDir \/ UNCHANGED <<tmpdir, dirs>>
        BY <4>1 DEF KeyNotFound, GetBreaks, keyVars
      <4>3. CASE OpenDir
        BY <4>3, <2>2 DEF OpenedOnce, OpenDir
      <4>4. CASE UNCHANGED <<tmpdir, dirs>>
        BY <4>4 DEF OpenedOnce
      <4> QED
        BY <4>2, <4>3, <4>4
    <3>2. CASE LoadRaises \/ ToolRaises \/ WorkRaises
      BY <3>2 DEF LoadRaises, ToolRaises, WorkRaises, keyVars, OpenedOnce
    <3> QED
      BY <1>3, <3>1, <3>2
  <2> QED
    BY <2>1, <2>3 DEF Untouched, Constructed, NotAnswered, AtStep, AtReturn
<1>4. CASE Refuse \/ ConstructorRaises \/ TurnDown \/ PrepareRaises
  <2>1. status' \in {"refused", "raised"} /\ status \in {"new", "ready"}
        /\ UNCHANGED <<tmpdir, dirs, pc, result, got, toolFailed>>
    BY <1>4 DEF Refuse, ConstructorRaises, TurnDown, PrepareRaises, keyVars
  <2> QED
    BY <2>1 DEF Untouched, Constructed, NotAnswered, OpenedOnce, AtStep, AtReturn
<1>10. CASE Construct
  <2>1. /\ status = "new" /\ status' = "ready"
        /\ UNCHANGED <<tmpdir, dirs, prog, pc, result, got, toolFailed, reply>>
        /\ prog.loads => loaded'
    BY <1>10 DEF Construct, LoadKeys, keyVars
  <2> QED
    BY <2>1 DEF Untouched, Constructed, NotAnswered, OpenedOnce, AtStep, AtReturn
<1>5. CASE HandOver
  <2>1. /\ status = "ready" /\ status' = "running"
        /\ UNCHANGED <<tmpdir, held, whole, dirs, prog, pc, result, got, toolFailed, reply>>
        /\ prog.loads => loaded'
    BY <1>5 DEF HandOver, Constructed, keyVars
  <2>2. ~tmpdir /\ dirs = 0 /\ pc = 1 /\ result /\ got = {} /\ ~toolFailed /\ reply = "none"
    BY <2>1 DEF Untouched, NotAnswered
  <2>3. held = whole
    BY <2>2 DEF TypeOK, KeyTypeOK
  <2>4. AtStep'
    BY <2>1, <2>2, <2>3 DEF AtStep, Steps
  <2> QED
    BY <2>1, <2>2, <2>4 DEF Untouched, Constructed, NotAnswered, OpenedOnce, AtReturn
\* A method that fetched a key has passed a cleanup that was certain.
<1>6. CASE Return
  <2>1. /\ status = "running" /\ status' = "returned" /\ pc = Len(Steps) + 1
        /\ UNCHANGED <<tmpdir, dirs, result, toolFailed>>
    BY <1>6 DEF Return, keyVars
  <2>2. Len(Steps) \in Nat /\ Disciplined(prog) /\ dirs \in Nat
    BY StepsTyped DEF TypeOK, KeyTypeOK
  <2>3. ~tmpdir
    <3> SUFFICES ASSUME tmpdir PROVE FALSE
      OBVIOUS
    <3>1. GetBefore(Steps, Len(Steps) + 1)
      BY <2>1 DEF AtStep, OpenedOnce
    <3>2. PICK i \in 1..Len(Steps) : Certain(Steps, i)
      BY <3>1, <2>2 DEF Disciplined, AlwaysCloses, Steps
    <3>3. i \in 1..(pc - 1)
      BY <2>1, <2>2
    <3> QED
      BY <2>1, <3>2, <3>3 DEF AtStep
  <2> QED
    BY <2>1, <2>3 DEF Untouched, Constructed, NotAnswered, OpenedOnce, AtStep, AtReturn
<1>7. CASE Answer
  <2>1. /\ status \in {"returned", "raised", "refused"}
        /\ UNCHANGED <<tmpdir, dirs, status, pc, result, got, toolFailed>>
    BY <1>7 DEF Answer, keyVars
  <2> QED
    BY <2>1 DEF Untouched, Constructed, NotAnswered, OpenedOnce, AtStep, AtReturn
<1>8. CASE Collect
  <2>1. /\ status \notin {"new", "ready", "running"} /\ tmpdir' = FALSE
        /\ UNCHANGED <<dirs, status, pc, result, got, toolFailed>>
    BY <1>8 DEF Collect, DropDir, opVars, NotAnswered
  <2> QED
    BY <2>1 DEF Untouched, Constructed, NotAnswered, OpenedOnce, AtStep, AtReturn
<1>9. CASE UNCHANGED vars
  BY <1>9 DEF vars, keyVars, opVars, Untouched, Constructed, NotAnswered, OpenedOnce, AtStep, AtReturn,
              Steps
<1> QED
  BY <1>2, <1>3, <1>4, <1>5, <1>6, <1>7, <1>8, <1>9, <1>10 DEF Next

-----------------------------------------------------------------------------
(* IInv is an invariant of the specification.                              *)
THEOREM Invariance == DisciplinedTable /\ Spec => []IInv
<1>1. DisciplinedTable /\ Init => IInv
  BY InitIInv
<1>2. IInv /\ [Next]_vars => IInv'
  BY StepIInv
<1> QED
  BY <1>1, <1>2, PTL DEF Spec

(* The types of KeyFiles' and the signer's state, for any sign methods.    *)
THEOREM TypeCorrect == DisciplinedTable /\ Spec => []TypeOK
<1>1. IInv => TypeOK
  BY DEF IInv
<1> QED
  BY <1>1, Invariance, PTL

(* No method hands a removed, missing or torn key file to a tool.          *)
THEOREM ToolsFindTheirKeys == DisciplinedTable /\ Spec => []ToolSeesKeys
<1>1. IInv => ToolSeesKeys
  <2> SUFFICES ASSUME IInv, Ready({"run", "each"}), NEW k \in Here.keys
               PROVE  k \in whole \/ (k \in OptionalKeys(prog) /\ k \notin got)
    BY DEF ToolSeesKeys
  <2> USE DEF IInv
  <2>1. status = "running" /\ pc \in 1..Len(Steps) /\ Tool(Here) /\ Here = Steps[pc]
    BY DEF Ready, Tool, Here
  <2>2. Len(Steps) \in Nat /\ Disciplined(prog)
    BY StepsTyped DEF TypeOK
  <2>3. ~ClosingBefore(Steps, pc) /\ \E j \in 1..(pc - 1) : Gets(Steps[j]) /\ k \in Steps[j].keys
    BY <2>1, <2>2 DEF Disciplined, ToolsBetween, Steps
  <2>4. PICK j \in 1..(pc - 1) : Gets(Steps[j]) /\ k \in Steps[j].keys
    BY <2>3
  <2>5. got \subseteq whole
    BY <2>1, <2>3 DEF AtStep
  <2>6. CASE Steps[j].op = "get"
    BY <2>1, <2>4, <2>5, <2>6 DEF AtStep
  <2>7. CASE Steps[j].op = "opt"
    <3>1. j \in 1..Len(prog.steps) /\ prog.steps[j].op = "opt" /\ k \in prog.steps[j].keys
      BY <2>1, <2>2, <2>4, <2>7 DEF Steps
    <3>2. k \in OptionalKeys(prog)
      BY <3>1 DEF OptionalKeys
    <3> QED
      BY <2>5, <3>2
  <2> QED
    BY <2>4, <2>6, <2>7 DEF Gets
<1> QED
  BY <1>1, Invariance, PTL

(* A sign method that returns has removed the keys it fetched.             *)
THEOREM ReturnedKeysAreGone == DisciplinedTable /\ Spec => []ReturnLeavesNoKeys
<1>1. IInv => ReturnLeavesNoKeys
  BY DEF IInv, AtReturn, ReturnLeavesNoKeys
<1> QED
  BY <1>1, Invariance, PTL

(* The value a method returns tells whether one of its tools failed.       *)
THEOREM ResultIsTheTruth == DisciplinedTable /\ Spec => []ResultMeansEveryToolSucceeded
<1>1. IInv => ResultMeansEveryToolSucceeded
  BY DEF IInv, AtReturn, ResultMeansEveryToolSucceeded
<1> QED
  BY <1>1, Invariance, PTL

-----------------------------------------------------------------------------
(* From a directory, whose files are found when they are there, a method   *)
(* has got every key in the store that it has asked for so far.            *)
FoundSoFar ==
  scheme = "file" /\ status = "running" =>
    \A i \in 1..(pc - 1) : Gets(Steps[i]) => Steps[i].keys \cap store \subseteq got

(* FoundSoFar is kept by every step.                                       *)
LEMMA FoundStep ==
  ASSUME IInv, FoundSoFar, [Next]_vars
  PROVE  FoundSoFar'
<1>0. scheme' = scheme
  BY DEF Next, vars, keyVars, Refuse, ConstructorRaises, Construct, LoadKeys, HandOver,
         TurnDown, PrepareRaises, Skip,
         FetchKey, GetKey, MissOptional, MissKey, KeyNotFound, FetchBreaks, GetBreaks,
         EnsureLoaded, LoadRaises, ToolSucceeds, ToolFails, CleanIfAsked, DropDir,
         ToolRaises, WorkDone, WorkRaises, CleanKeys, Return, Answer, Collect
<1> SUFFICES ASSUME scheme = "file", status' = "running",
                    NEW i \in 1..(pc' - 1), (Gets(Steps[i]))'
             PROVE  (Steps[i].keys \cap store \subseteq got)'
  BY <1>0 DEF FoundSoFar
<1>1. pc \in Nat /\ pc >= 1 /\ prog \in Programs
  <2>1. prog \in Programs /\ pc \in 1..(Len(Steps) + 1)
    BY DEF IInv, TypeOK
  <2>2. Len(Steps) \in Nat
    BY <2>1, StepsTyped
  <2> QED
    BY <2>1, <2>2
\* The steps that leave the program counter alone.
<1>2. CASE HandOver
  BY <1>2 DEF HandOver, IInv, Untouched
<1>3. CASE UNCHANGED opVars /\ UNCHANGED store
  BY <1>3 DEF opVars, FoundSoFar, Steps
\* The steps that advance it.
<1>4. ASSUME status = "running", pc' = pc + 1, prog' = prog, store' = store,
             got \subseteq got', Gets(Steps[pc]) => Steps[pc].keys \cap store \subseteq got'
      PROVE  (Steps[i].keys \cap store \subseteq got)'
  <2>1. i \in 1..(pc - 1) \/ i = pc
    BY <1>1, <1>4
  <2>2. CASE i = pc
    BY <1>4, <2>2 DEF Steps, Gets
  <2>3. CASE i \in 1..(pc - 1)
    BY <1>4, <2>3 DEF FoundSoFar, Steps, Gets
  <2> QED
    BY <2>1, <2>2, <2>3
\* A step that fetches a key is never skipped: no tool has run before it.
<1>5. CASE Skip
  <2>1. status = "running" /\ pc \in 1..Len(Steps) /\ ~result
    BY <1>5 DEF Skip
  <2>2. ~Gets(Steps[pc])
    <3>1. Disciplined(prog)
      BY DEF IInv
    <3>2. Gets(Steps[pc]) => ~ToolBefore(Steps, pc)
      BY <2>1, <3>1 DEF Disciplined, FetchesFirst, Steps
    <3> QED
      BY <2>1, <3>2 DEF IInv, AtStep
  <2> QED
    BY <1>4, <1>5, <2>1, <2>2 DEF Skip, Advance, keyVars
<1>6. CASE FetchKey
  BY <1>4, <1>6 DEF FetchKey, Ready, Advance, GetKey, Here
<1>7. CASE MissOptional
  <2>1. /\ status = "running" /\ pc \in 1..Len(Steps) /\ Gets(Steps[pc])
        /\ pc' = pc + 1 /\ prog' = prog /\ got' = got
        /\ \E k \in Steps[pc].keys : k \notin store /\ store' = store
    BY <1>7 DEF MissOptional, Ready, Advance, KeyNotFound, Here, Gets
  <2>2. \E k \in KeyNames : Steps[pc].keys = {k}
    BY <1>1, <2>1, StepsTyped
  <2> QED
    BY <1>4, <2>1, <2>2
<1>8. CASE EnsureLoaded \/ ToolSucceeds \/ ToolFails \/ WorkDone \/ CleanKeys
  <2>1. /\ status = "running" /\ ~Gets(Steps[pc])
        /\ pc' = pc + 1 /\ prog' = prog /\ got' = got /\ store' = store
    BY <1>8 DEF EnsureLoaded, ToolSucceeds, ToolFails, WorkDone, CleanKeys, Ready, Advance,
                CleanIfAsked, DropDir, LoadKeys, keyVars, Here, Gets
  <2> QED
    BY <1>4, <2>1
\* The steps after which the method does not run.
<1>9. CASE Refuse \/ ConstructorRaises \/ Construct \/ TurnDown \/ PrepareRaises \/ MissKey
           \/ FetchBreaks \/ LoadRaises \/ ToolRaises \/ WorkRaises \/ Return
  BY <1>9 DEF Refuse, ConstructorRaises, Construct, TurnDown, PrepareRaises, MissKey, FetchBreaks, LoadRaises, ToolRaises,
              WorkRaises, Return, Raise
<1>10. CASE Answer
  BY <1>10 DEF Answer, IInv, FoundSoFar, Steps, keyVars
<1>11. CASE Collect \/ UNCHANGED vars
  BY <1>3, <1>11 DEF Collect, DropDir, vars, keyVars
<1> QED
  BY <1>2, <1>5, <1>6, <1>7, <1>8, <1>9, <1>10, <1>11 DEF Next

(* With a file:// store no tool goes without a key that is there; for      *)
(* s3:// see FindingOptionalKey.cfg.                                       *)
THEOREM KeysFoundAreUsed == DisciplinedTable /\ Spec => []KeyInDirectoryIsUsed
<1>1. Init => FoundSoFar
  BY DEF Init, FoundSoFar
<1>2. IInv /\ FoundSoFar /\ [Next]_vars => FoundSoFar'
  BY FoundStep
<1>3. IInv /\ FoundSoFar => KeyInDirectoryIsUsed
  <2> SUFFICES ASSUME IInv, FoundSoFar, scheme = "file", Ready({"run", "each"}),
                      NEW k \in Here.keys, k \in store
               PROVE  k \in got
    BY DEF KeyInDirectoryIsUsed, KeyInStoreIsUsed
  <2>1. status = "running" /\ pc \in 1..Len(Steps) /\ Tool(Steps[pc]) /\ k \in Steps[pc].keys
    BY DEF Ready, Tool, Here
  <2>2. Disciplined(prog)
    BY StepsTyped DEF IInv, TypeOK
  <2>3. PICK j \in 1..(pc - 1) : Gets(Steps[j]) /\ k \in Steps[j].keys
    BY <2>1, <2>2 DEF Disciplined, ToolsBetween, Steps
  <2> QED
    BY <2>1, <2>3 DEF FoundSoFar
<1> QED
  BY <1>1, <1>2, <1>3, Invariance, PTL DEF Spec

-----------------------------------------------------------------------------
(* Every operation implements KeyCustody: at most one key directory in its *)
(* life, opened before the verdict and closed by the time it is given.     *)
THEOREM Implements == DisciplinedTable /\ Spec => KeepsCustody
<1> DEFINE custody == IF tmpdir THEN "held" ELSE IF dirs = 0 THEN "none" ELSE "released"
           verdict == CASE status \in {"new", "ready", "running"} -> "pending"
                        [] status = "returned" -> IF result THEN "signed" ELSE "failed"
                        [] status = "refused"  -> "refused"
                        [] status = "raised"   -> "raised"
<1>1. Init => Custody!Init
  BY DEF Init, KeyInit, Custody!Init
<1>2. IInv /\ [Next]_vars => [Custody!Next]_(Custody!custodyVars)
  <2> SUFFICES ASSUME IInv, [Next]_vars
               PROVE  \/ custody = "none" /\ custody' = "held"
                         /\ verdict = "pending" /\ verdict' \in {"pending", "raised"}
                      \/ custody = "held" /\ custody' = "released" /\ verdict' = verdict
                      \/ verdict = "pending" /\ custody = "none" /\ verdict' = "refused"
                         /\ custody' = custody
                      \/ verdict = "pending" /\ custody # "held"
                         /\ verdict' \in {"signed", "failed"} /\ custody' = custody
                      \/ verdict = "pending" /\ verdict' = "raised" /\ custody' = custody
                      \/ custody' = custody /\ verdict' = verdict
    BY DEF Custody!Next, Custody!custodyVars, Custody!Fetch, Custody!Release,
           Custody!Refuse, Custody!Decide, Custody!Break
  <2> USE DEF IInv
  <2>1. dirs \in Nat /\ tmpdir \in BOOLEAN /\ (tmpdir => dirs > 0)
    BY DEF TypeOK, KeyTypeOK, OpenedOnce
  \* A key is never fetched after a cleanup.
  <2>2. ASSUME Ready({"get", "opt"}) \/ Ready({"get"}) \/ Ready({"opt"})
        PROVE  tmpdir \/ dirs = 0
    <3>1. status = "running" /\ pc \in 1..Len(Steps) /\ Gets(Steps[pc])
      BY <2>2 DEF Ready, Gets, Here
    <3>2. Disciplined(prog)
      BY StepsTyped DEF TypeOK
    <3>3. ~ClosingBefore(Steps, pc)
      BY <3>1, <3>2 DEF Disciplined, FetchesFirst, Steps
    <3> QED
      BY <2>1, <3>1, <3>3 DEF AtStep
  <2>3. CASE FetchKey \/ MissOptional
    <3>1. OpenDir /\ status = "running" /\ status' = "running" /\ (tmpdir \/ dirs = 0)
      BY <2>2, <2>3 DEF FetchKey, MissOptional, Ready, Advance, GetKey, KeyNotFound
    <3> QED
      BY <2>1, <3>1 DEF OpenDir
  <2>4. CASE MissKey \/ FetchBreaks
    <3>1. /\ status = "running" /\ status' = "raised"
          /\ \/ OpenDir /\ (tmpdir \/ dirs = 0)
             \/ UNCHANGED <<tmpdir, dirs>>
      BY <2>2, <2>4 DEF MissKey, FetchBreaks, Ready, Raise, KeyNotFound, GetBreaks, keyVars
    <3> QED
      BY <2>1, <3>1 DEF OpenDir
  <2>5. CASE LoadRaises \/ ToolRaises \/ WorkRaises
    <3>1. status = "running" /\ status' = "raised" /\ UNCHANGED <<tmpdir, dirs>>
      BY <2>5 DEF LoadRaises, ToolRaises, WorkRaises, Ready, Raise, keyVars
    <3> QED
      BY <3>1
  <2>6. CASE Refuse \/ ConstructorRaises \/ TurnDown \/ PrepareRaises
    <3>1. /\ status \in {"new", "ready"} /\ status' \in {"refused", "raised"}
          /\ UNCHANGED <<tmpdir, dirs>>
      BY <2>6 DEF Refuse, ConstructorRaises, TurnDown, PrepareRaises, keyVars
    <3>2. ~tmpdir /\ dirs = 0
      BY <3>1 DEF Untouched
    <3> QED
      BY <3>1, <3>2
  <2>7. CASE Construct \/ HandOver \/ Skip \/ EnsureLoaded \/ WorkDone
    <3>1. /\ status \in {"new", "ready", "running"} /\ status' \in {"ready", "running"}
          /\ UNCHANGED <<tmpdir, dirs>>
      BY <2>7 DEF Construct, HandOver, Skip, EnsureLoaded, WorkDone, Ready, Advance, LoadKeys, keyVars
    <3> QED
      BY <3>1
  <2>8. CASE ToolSucceeds \/ ToolFails \/ CleanKeys
    <3>1. status = "running" /\ status' = "running" /\ (DropDir \/ UNCHANGED <<tmpdir, dirs>>)
      BY <2>8 DEF ToolSucceeds, ToolFails, CleanKeys, Ready, Advance, CleanIfAsked, keyVars
    <3> QED
      BY <2>1, <3>1 DEF DropDir
  <2>9. CASE Return
    <3>1. status = "running" /\ status' = "returned" /\ UNCHANGED <<tmpdir, dirs, result>>
      BY <2>9 DEF Return, keyVars
    <3>2. ~tmpdir'
      BY <3>1, StepIInv DEF AtReturn
    <3> QED
      BY <3>1, <3>2
  <2>10. CASE Answer \/ UNCHANGED vars
    <3>1. UNCHANGED <<status, tmpdir, dirs, result>>
      BY <2>10 DEF Answer, vars, keyVars, opVars
    <3> QED
      BY <3>1
  <2>11. CASE Collect
    <3>1. tmpdir /\ DropDir /\ UNCHANGED <<status, result>>
      BY <2>11 DEF Collect, opVars
    <3> QED
      BY <2>1, <3>1 DEF DropDir
  <2> QED
    BY <2>3, <2>4, <2>5, <2>6, <2>7, <2>8, <2>9, <2>10, <2>11 DEF Next
<1> QED
  BY <1>1, <1>2, Invariance, PTL DEF Spec, KeepsCustody, Custody!Spec

-----------------------------------------------------------------------------
(* Every sign method is a job as the server expects it: whatever keys it   *)
(* has fetched are gone when it returns.                                   *)
THEOREM ProvidesJob == DisciplinedTable /\ Spec => IsSignJob
<1> DEFINE state == CASE status \in {"new", "ready", "refused"} -> "none"
                      [] status = "returned" -> IF result THEN "true" ELSE "false"
                      [] OTHER -> status
           keys == IF tmpdir THEN "held" ELSE "none"
<1>1. Init => Job!Init
  BY DEF Init, KeyInit, Job!Init
<1>2. IInv /\ [Next]_vars => [Job!Next]_(Job!jobVars)
  <2> SUFFICES ASSUME IInv, [Next]_vars
               PROVE  \/ state = "none" /\ state' \in {"running", "raised"} /\ keys' = keys
                      \/ state = "running" /\ state' = "running"
                      \/ state = "running" /\ keys = "none" /\ state' \in {"true", "false"}
                         /\ keys' = keys
                      \/ state = "running" /\ state' = "raised" /\ keys' \in {keys, "held"}
                      \/ state = "raised" /\ state' = state /\ keys' = "none"
                      \/ state' = state /\ keys' = keys
    BY DEF Job!Next, Job!jobVars, Job!Start, Job!Stillborn, Job!Fetch, Job!Release,
       Job!Return, Job!Raise, Job!Collect
  <2> USE DEF IInv
  <2>1. /\ tmpdir \in BOOLEAN /\ result \in BOOLEAN
        /\ status \in {"new", "ready", "running", "returned", "raised", "refused"}
        /\ tmpdir => status \in {"running", "raised"}
    BY DEF TypeOK, KeyTypeOK, Untouched, AtReturn
  <2>2. CASE FetchKey \/ MissOptional \/ Skip \/ EnsureLoaded \/ WorkDone
             \/ ToolSucceeds \/ ToolFails \/ CleanKeys
    <3>1. status = "running" /\ status' = "running"
      BY <2>2 DEF FetchKey, MissOptional, Skip, EnsureLoaded, WorkDone, ToolSucceeds,
         ToolFails, CleanKeys, Ready, Advance
    <3> QED
      BY <3>1
  <2>3. CASE MissKey \/ FetchBreaks \/ LoadRaises \/ ToolRaises \/ WorkRaises
    <3>1. status = "running" /\ status' = "raised" /\ (tmpdir => tmpdir')
      BY <2>3 DEF MissKey, FetchBreaks, LoadRaises, ToolRaises, WorkRaises, Ready, Raise,
         KeyNotFound, GetBreaks, OpenDir, keyVars
    <3>2. state = "running" /\ state' = "raised"
      BY <3>1
    <3>3. keys' \in {keys, "held"}
      BY <3>1
    <3> QED
      BY <3>2, <3>3
  <2>4. CASE Refuse \/ ConstructorRaises \/ Construct \/ HandOver \/ TurnDown \/ PrepareRaises
    <3>1. /\ status \in {"new", "ready"} /\ status' \in {"ready", "refused", "raised", "running"}
          /\ tmpdir' = tmpdir
      BY <2>4 DEF Refuse, ConstructorRaises, Construct, LoadKeys, HandOver, TurnDown,
         PrepareRaises, keyVars
    <3> QED
      BY <3>1
  <2>5. CASE Return
    <3>1. status = "running" /\ status' = "returned" /\ UNCHANGED <<tmpdir, result>>
      BY <2>5 DEF Return, keyVars
    <3>2. ~tmpdir'
      BY <3>1, StepIInv DEF AtReturn
    <3> QED
      BY <2>1, <3>1, <3>2
  <2>6. CASE Answer \/ UNCHANGED vars
    <3>1. UNCHANGED <<status, tmpdir, result>>
      BY <2>6 DEF Answer, vars, keyVars, opVars
    <3> QED
      BY <3>1
  <2>7. CASE Collect
    <3>1. tmpdir /\ ~tmpdir' /\ UNCHANGED <<status, result>>
      BY <2>7 DEF Collect, DropDir, opVars
    <3> QED
      BY <2>1, <3>1
  <2> QED
    BY <2>2, <2>3, <2>4, <2>5, <2>6, <2>7 DEF Next
<1> QED
  BY <1>1, <1>2, Invariance, PTL DEF Spec, IsSignJob, Job!Spec
=============================================================================
