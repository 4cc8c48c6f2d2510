------------------------- MODULE StackEditorProofs -------------------------
(***************************************************************************)
(* Proofs about StackEditor, for any set of stacks and any bound on the    *)
(* texts written.                                                          *)
(***************************************************************************)
EXTENDS StackEditor, TLAPS

\* What every text on its way between the editor and the disk has to do with
\* the stack it belongs to; the answers are sets of at most one.
Single(set) == \A f, g \in set : f = g

OwnAnswers ==
  /\ \A n \in Names : Single(data[n]) /\ \A f \in data[n] : Own(n, f.compose)
  /\ Single(reply) /\ \A f \in reply : Own(shown, f.compose)

\* An env for stack n, whose .env was base when it was loaded.
Allowed(n, env, base) ==
  env = Absent \/ Own(n, env) \/ base \in {Absent, Blank, env}

OwnEditor ==
  \A f \in data[shown] :
    Own(shown, editor.compose) /\ Allowed(shown, editor.env, f.env)

OwnSave ==
  save # NoSave => /\ Own(save.name, save.sent.compose)
                   /\ Allowed(save.name, save.sent.env, save.base)

OwnDisk == \A n \in Names : Own(n, disk[n].compose)

IInv == TypeOK /\ OwnDisk /\ OwnAnswers /\ OwnEditor /\ OwnSave

-----------------------------------------------------------------------------

LEMMA WrittenText ==
  ASSUME serial \in 0..MaxTexts, Written, NEW n \in Names
  PROVE  Write(n) \in Texts /\ Own(n, Write(n)) /\ serial' \in 0..MaxTexts
BY MaxTextsAssumption DEF Written, Write, Texts, Own

LEMMA EffectOfAnswer ==
  ASSUME NEW e \in Files, NEW answer \in SUBSET Files, Single(answer),
         NEW f \in answer
  PROVE  Effect(e, answer) =
           [compose |-> f.compose,
            env |-> IF f.env \in {Absent, Blank} THEN e.env ELSE f.env]
<1>1. (CHOOSE g \in answer : TRUE) = f
  BY DEF Single
<1> QED BY <1>1 DEF Effect

LEMMA EffectType ==
  ASSUME NEW e \in Files, NEW answer \in SUBSET Files, Single(answer)
  PROVE  Effect(e, answer) \in Files
<1>1. CASE answer = {}
  BY <1>1 DEF Effect
<1>2. CASE answer # {}
  <2>1. PICK f \in answer : TRUE
    BY <1>2
  <2> QED BY <2>1, EffectOfAnswer DEF Files
<1> QED BY <1>1, <1>2

LEMMA EffectOwn ==
  ASSUME NEW e \in Files, NEW answer \in SUBSET Files, Single(answer),
         NEW n \in Names, NEW f \in answer, Own(n, f.compose)
  PROVE  /\ Own(n, Effect(e, answer).compose)
         /\ Allowed(n, Effect(e, answer).env, f.env)
BY EffectOfAnswer DEF Allowed

-----------------------------------------------------------------------------

LEMMA Initially == Init => IInv
<1> SUFFICES ASSUME Init PROVE IInv
  OBVIOUS
<1>1. TypeOK
  <2>1. \A n \in Names : First(n) \subseteq Files
    BY MaxTextsAssumption DEF First, Files, Texts
  <2>2. FreshEditor \in Files
    BY DEF FreshEditor, Files
  <2> QED BY <2>1, <2>2, MaxTextsAssumption DEF Init, TypeOK
<1>2. OwnDisk
  <2>1. ASSUME NEW n \in Names PROVE disk[n].compose = <<n, 0>>
    BY DEF Init, First
  <2>2. \A n \in Names : Own(n, <<n, 0>>)
    BY DEF Own
  <2> QED BY <2>1, <2>2 DEF OwnDisk
<1> QED BY <1>1, <1>2 DEF Init, IInv, OwnAnswers, OwnEditor, OwnSave, Single

\* The editor after the page of stack n was shown with what is known of it.
LEMMA ShowsOwn ==
  ASSUME IInv, NEW e \in Files, NEW n \in Names
  PROVE  /\ Effect(e, data[n]) \in Files
         /\ \A f \in data[n] : /\ Own(n, Effect(e, data[n]).compose)
                               /\ Allowed(n, Effect(e, data[n]).env, f.env)
<1>1. data[n] \in SUBSET Files /\ Single(data[n])
  BY DEF IInv, TypeOK, OwnAnswers
<1>2. \A f \in data[n] : Own(n, f.compose)
  BY DEF IInv, OwnAnswers
<1> QED BY <1>1, <1>2, EffectType, EffectOwn

LEMMA GotoStep ==
  ASSUME IInv, NEW n \in Names, Goto(n)
  PROVE  IInv'
<1>1. editor \in Files
  BY DEF IInv, TypeOK
<1>2. /\ editor' \in Files
      /\ \A f \in data[n] : Own(n, editor'.compose) /\ Allowed(n, editor'.env, f.env)
  BY <1>1, ShowsOwn DEF Goto
<1>3. TypeOK'
  BY <1>2 DEF IInv, TypeOK, Goto
<1>4. OwnEditor'
  BY <1>2 DEF OwnEditor, Goto
<1> QED BY <1>3, <1>4 DEF IInv, OwnDisk, OwnAnswers, OwnSave, Single, Goto

LEMMA RemountStep ==
  ASSUME IInv, NEW n \in Names, Remount(n)
  PROVE  IInv'
<1>1. FreshEditor \in Files
  BY DEF FreshEditor, Files
<1>2. /\ editor' \in Files
      /\ \A f \in data[n] : Own(n, editor'.compose) /\ Allowed(n, editor'.env, f.env)
  BY <1>1, ShowsOwn DEF Remount
<1>3. /\ save' \in Saves \union {NoSave}
      /\ save' # NoSave => /\ save # NoSave
                           /\ save'.name = save.name /\ save'.sent = save.sent
                           /\ save'.base = save.base
  BY DEF IInv, TypeOK, Remount, Saves
<1>4. TypeOK'
  BY <1>2, <1>3 DEF IInv, TypeOK, Remount
<1>5. OwnEditor'
  BY <1>2 DEF OwnEditor, Remount
<1>6. OwnSave'
  BY <1>3 DEF IInv, OwnSave
<1> QED BY <1>4, <1>5, <1>6 DEF IInv, OwnDisk, OwnAnswers, Single, Remount

LEMMA ReadStep ==
  ASSUME IInv, Read
  PROVE  IInv'
<1>1. TypeOK'
  BY DEF IInv, TypeOK, Read
<1>2. OwnAnswers'
  BY DEF IInv, TypeOK, OwnAnswers, OwnDisk, Single, Read
<1> QED BY <1>1, <1>2 DEF IInv, OwnDisk, OwnEditor, OwnSave, Read

LEMMA ArriveStep ==
  ASSUME IInv, Arrive
  PROVE  IInv'
<1>1. editor \in Files /\ reply \in SUBSET Files /\ Single(reply) /\ shown \in Names
  BY DEF IInv, TypeOK, OwnAnswers
<1>2. /\ Effect(editor, reply) \in Files
      /\ \A f \in reply : /\ Own(shown, Effect(editor, reply).compose)
                          /\ Allowed(shown, Effect(editor, reply).env, f.env)
  <2>1. \A f \in reply : Own(shown, f.compose)
    BY DEF IInv, OwnAnswers
  <2> QED BY <1>1, <2>1, EffectType, EffectOwn
<1>3. data' = [data EXCEPT ![shown] = reply] /\ data'[shown] = reply
  BY <1>1 DEF IInv, TypeOK, Arrive
<1>4. TypeOK'
  BY <1>1, <1>2, <1>3 DEF IInv, TypeOK, Arrive
<1>5. OwnEditor'
  <2>1. CASE reply = data[shown]
    BY <2>1, <1>3 DEF IInv, OwnEditor, Arrive
  <2>2. CASE reply # data[shown]
    BY <2>2, <1>2, <1>3 DEF OwnEditor, Arrive
  <2> QED BY <2>1, <2>2
<1>6. OwnAnswers'
  BY <1>3 DEF IInv, TypeOK, OwnAnswers, Single, Arrive
<1> QED BY <1>4, <1>5, <1>6 DEF IInv, OwnDisk, OwnSave, Arrive

LEMMA TypingStep ==
  ASSUME IInv, TypeCompose \/ TypeEnv
  PROVE  IInv'
<1>1. shown \in Names /\ editor \in Files
  BY DEF IInv, TypeOK
<1>2. Write(shown) \in Texts /\ Own(shown, Write(shown)) /\ serial' \in 0..MaxTexts
  BY <1>1, WrittenText DEF IInv, TypeOK, TypeCompose, TypeEnv
<1>3. TypeOK' /\ OwnEditor'
  <2>1. CASE TypeCompose
    BY <2>1, <1>1, <1>2 DEF IInv, TypeOK, OwnEditor, TypeCompose, Files
  <2>2. CASE TypeEnv
    BY <2>2, <1>1, <1>2 DEF IInv, TypeOK, OwnEditor, TypeEnv, Files, Allowed
  <2> QED BY <2>1, <2>2
<1> QED BY <1>3 DEF IInv, OwnDisk, OwnAnswers, OwnSave, Single, TypeCompose, TypeEnv

LEMMA SaveStep ==
  ASSUME IInv, Save
  PROVE  IInv'
<1>1. PICK f \in data[shown] :
        save' = [at |-> "sent", name |-> shown, sent |-> editor, base |-> f.env,
                 mounted |-> TRUE]
  BY DEF Save
<1>2. f \in Files /\ shown \in Names /\ editor \in Files
  BY DEF IInv, TypeOK
<1>3. save' \in Saves
  BY <1>1, <1>2 DEF Saves, Files, Steps
<1>4. TypeOK'
  BY <1>3 DEF IInv, TypeOK, Save
<1>5. OwnSave'
  BY <1>1 DEF IInv, OwnEditor, OwnSave
<1> QED BY <1>4, <1>5 DEF IInv, OwnDisk, OwnAnswers, OwnEditor, Single, Save

LEMMA EndStep ==
  ASSUME IInv, Saved \/ SaveFailed \/ ClickCreateEnv
  PROVE  IInv'
<1>1. TypeOK'
  BY DEF IInv, TypeOK, Saved, SaveFailed, ClickCreateEnv
<1>2. OwnAnswers'
  BY DEF IInv, OwnAnswers, Single, Saved, SaveFailed, ClickCreateEnv
<1>3. OwnSave'
  BY DEF IInv, OwnSave, Saved, SaveFailed, ClickCreateEnv
<1> QED BY <1>1, <1>2, <1>3
        DEF IInv, OwnDisk, OwnEditor, Saved, SaveFailed, ClickCreateEnv

\* A save under way keeps its stack and texts to its end.
LEMMA SaveGoesOn ==
  ASSUME TypeOK, save # NoSave, NEW step \in Steps, At(step)
  PROVE  /\ save \in Saves /\ save' \in Saves
         /\ save' = [save EXCEPT !.at = step]
         /\ save'.name = save.name /\ save'.sent = save.sent
         /\ save'.base = save.base
BY DEF TypeOK, At, Saves

LEMMA PutStep ==
  ASSUME IInv, PutCompose \/ PutEnv
  PROVE  IInv'
<1>1. save # NoSave
  BY DEF PutCompose, PutEnv, NoSave
<1>2. \E step \in Steps : At(step)
  BY DEF PutCompose, PutEnv, Steps
<1>3. /\ save \in Saves /\ save' \in Saves
      /\ save'.name = save.name /\ save'.sent = save.sent /\ save'.base = save.base
  BY <1>1, <1>2, SaveGoesOn DEF IInv
<1>4. /\ save.name \in Names /\ save.sent \in Files
      /\ Own(save.name, save.sent.compose)
  BY <1>1, <1>3 DEF IInv, Saves, OwnSave
<1>5. disk' \in [Names -> Files] /\ OwnDisk'
  <2>1. CASE disk' = [disk EXCEPT ![save.name].compose = save.sent.compose]
    BY <2>1, <1>4 DEF IInv, TypeOK, OwnDisk, Files
  <2>2. CASE disk' = [disk EXCEPT ![save.name].env = save.sent.env]
    BY <2>2, <1>4 DEF IInv, TypeOK, OwnDisk, Files
  <2>3. CASE disk' = disk
    BY <2>3 DEF IInv, TypeOK, OwnDisk
  <2> QED BY <2>1, <2>2, <2>3 DEF PutCompose, PutEnv
<1>6. TypeOK'
  BY <1>3, <1>5 DEF IInv, TypeOK, PutCompose, PutEnv
<1>7. OwnSave'
  BY <1>1, <1>3 DEF IInv, OwnSave
<1> QED BY <1>5, <1>6, <1>7
        DEF IInv, OwnAnswers, OwnEditor, Single, PutCompose, PutEnv

LEMMA ServerStep ==
  ASSUME IInv, NEW n \in Names, CreateEnv(n) \/ Elsewhere(n)
  PROVE  IInv'
<1>1. Write(n) \in Texts /\ Own(n, Write(n)) /\ serial' \in 0..MaxTexts
  BY WrittenText DEF IInv, TypeOK, CreateEnv, Elsewhere
<1>2. disk' \in [Names -> Files] /\ OwnDisk'
  <2>1. CASE disk' = [disk EXCEPT ![n].compose = Write(n)]
    BY <2>1, <1>1 DEF IInv, TypeOK, OwnDisk, Files
  <2>2. CASE \E env \in {Write(n), Absent} : disk' = [disk EXCEPT ![n].env = env]
    BY <2>2, <1>1 DEF IInv, TypeOK, OwnDisk, Files
  <2> QED BY <2>1, <2>2 DEF CreateEnv, Elsewhere
<1>3. TypeOK'
  BY <1>1, <1>2 DEF IInv, TypeOK, CreateEnv, Elsewhere
<1>4. OwnAnswers'
  BY DEF IInv, OwnAnswers, Single, CreateEnv, Elsewhere
<1> QED BY <1>2, <1>3, <1>4 DEF IInv, OwnEditor, OwnSave, CreateEnv, Elsewhere

LEMMA Inductive == IInv /\ [Next]_vars => IInv'
<1> SUFFICES ASSUME IInv, [Next]_vars PROVE IInv'
  OBVIOUS
<1>1. CASE \E n \in Names : Goto(n) \/ Remount(n) \/ CreateEnv(n) \/ Elsewhere(n)
  BY <1>1, GotoStep, RemountStep, ServerStep
<1>2. CASE Read \/ Arrive
  BY <1>2, ReadStep, ArriveStep
<1>3. CASE TypeCompose \/ TypeEnv
  BY <1>3, TypingStep
<1>4. CASE Save \/ Saved \/ SaveFailed \/ ClickCreateEnv
  BY <1>4, SaveStep, EndStep
<1>5. CASE PutCompose \/ PutEnv
  BY <1>5, PutStep
<1>6. CASE UNCHANGED vars
  BY <1>6 DEF vars, IInv, TypeOK, OwnDisk, OwnAnswers, OwnEditor, OwnSave, Single
<1> QED BY <1>1, <1>2, <1>3, <1>4, <1>5, <1>6 DEF Next

LEMMA Invariant == Spec => []IInv
BY Initially, Inductive, PTL DEF Spec

-----------------------------------------------------------------------------

\* Types, of the page, the requests and the disk (files.tsx, api/stacks.go).
THEOREM TypeCorrect == Spec => []TypeOK
BY Invariant, PTL DEF IInv

\* The compose file of a stack, and the compose editor where it is shown, hold
\* only texts written for that stack, for any number of stacks and texts and
\* whatever answers and saves are on their way.
THEOREM ComposeStaysOwn == Spec => []ComposeIsOwn
<1>1. IInv => ComposeIsOwn
  BY DEF IInv, OwnDisk, OwnEditor, ComposeIsOwn, Loaded
<1> QED BY <1>1, Invariant, PTL

TypingStays ==
  editor'.compose # editor.compose
    => \/ shown' # shown \/ data'[shown] # data[shown] \/ TypeCompose
       \/ editor' = Effect(FreshEditor, data[shown])

\* Only another stack, another answer or typing itself changes what is in the
\* compose editor.
THEOREM TypingIsKept == Spec => TypingKept
<1>1. IInv /\ [Next]_vars => TypingStays
  <2> SUFFICES ASSUME IInv, Next, editor' # editor, ~TypeCompose,
                      editor'.compose # editor.compose, shown' = shown
               PROVE  \/ data'[shown] # data[shown]
                      \/ editor' = Effect(FreshEditor, data[shown])
    BY DEF TypingStays, vars
  <2>1. CASE Arrive
    BY <2>1 DEF IInv, TypeOK, Arrive
  <2>2. CASE TypeEnv
    BY <2>2 DEF IInv, TypeOK, Files, TypeEnv
  <2>3. CASE \E n \in Names : Remount(n)
    BY <2>3 DEF Remount
  <2> QED BY <2>1, <2>2, <2>3 DEF Next, Goto, Read, Save, Saved, SaveFailed,
             ClickCreateEnv, PutCompose, PutEnv, CreateEnv, Elsewhere
<1> QED BY <1>1, Invariant, PTL DEF Spec, TypingKept, TypingStays

EnvStep ==
  \A n \in Names :
    disk'[n].env # disk[n].env
      => \/ disk'[n].env = Absent \/ Own(n, disk'[n].env)
         \/ save.base \in {Absent, Blank, disk'[n].env}

\* A save writes another stack's .env only over one that was missing or empty
\* when it was loaded, or that had the same text.
THEOREM ForeignEnvOnlyFillsGap == Spec => ForeignEnvFillsGap
<1>1. IInv /\ [Next]_vars => EnvStep
  <2> SUFFICES ASSUME IInv, Next, disk' # disk,
                      NEW n \in Names, disk'[n].env # disk[n].env
               PROVE  \/ disk'[n].env = Absent \/ Own(n, disk'[n].env)
                      \/ save.base \in {Absent, Blank, disk'[n].env}
    BY DEF EnvStep, vars
  <2>1. ASSUME NEW m \in Names, CreateEnv(m) \/ Elsewhere(m)
        PROVE  disk'[n].env = Absent \/ Own(n, disk'[n].env)
    <3>1. Own(m, Write(m))
      BY <2>1, WrittenText DEF IInv, TypeOK, CreateEnv, Elsewhere
    <3> QED BY <2>1, <3>1 DEF IInv, TypeOK, Files, CreateEnv, Elsewhere
  <2>2. CASE PutCompose
    BY <2>2 DEF IInv, TypeOK, Files, PutCompose
  <2>3. CASE PutEnv
    <3>1. save # NoSave
      BY <2>3 DEF PutEnv, NoSave
    <3>2. save.name \in Names /\ save.sent \in Files
      BY <3>1 DEF IInv, TypeOK, Saves
    <3>3. n = save.name /\ disk'[n].env = save.sent.env
      BY <2>3, <3>2 DEF IInv, TypeOK, Files, PutEnv
    <3> QED BY <3>1, <3>3 DEF IInv, OwnSave, Allowed
  <2> QED BY <2>1, <2>2, <2>3 DEF Next, Goto, Remount, Read, Arrive, TypeCompose,
             TypeEnv, Save, Saved, SaveFailed, ClickCreateEnv
<1> QED BY <1>1, Invariant, PTL DEF Spec, ForeignEnvFillsGap, EnvStep
=============================================================================
