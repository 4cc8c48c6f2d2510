---------------------------- MODULE StackEditor ----------------------------
(***************************************************************************)
(* The files tab of a stack (web/src/components/stacks/files.tsx) and the  *)
(* handlers behind it (internal/server/api/stacks.go): the files on disk,  *)
(* the answer that the page has of them, the two editors, a save under     *)
(* way, and another writer.  The component stays when the user goes from   *)
(* one stack to the next, and its state with it.                           *)
(*                                                                         *)
(* A text is the stack it was written for and a serial number.  Absent is  *)
(* no file, null in an answer and undefined in the editor; Blank is "".    *)
(***************************************************************************)
EXTENDS Naturals

CONSTANTS Names,     \* stack names
          MaxTexts   \* bound on the texts written after the first ones

ASSUME MaxTextsAssumption == MaxTexts \in Nat

VARIABLES disk,     \* per stack: its compose file and its .env
          shown,    \* the stack whose files tab is open
          data,     \* per stack: the set of the cached answer, or {}
          reply,    \* the set of the answer on its way to the page, or {}
          editor,   \* the state compose and envContent
          save,     \* the save under way
          create,   \* the stacks whose .env is being created
          serial    \* the last text written

vars == <<disk, shown, data, reply, editor, save, create, serial>>

Absent == <<>>
Blank == <<"">>
Texts == Names \X (0..MaxTexts)
Files == [compose : Texts \union {Blank}, env : Texts \union {Blank, Absent}]
FreshEditor == [compose |-> Blank, env |-> Absent]
NoSave == [at |-> "none"]

Steps == {"sent", "compose", "written", "failed"}

Saves == [at : Steps, name : Names, sent : Files, mounted : BOOLEAN,
          base : Texts \union {Blank, Absent}]

TypeOK ==
  /\ disk \in [Names -> Files]
  /\ shown \in Names
  /\ data \in [Names -> SUBSET Files]
  /\ reply \in SUBSET Files
  /\ editor \in Files
  /\ create \in SUBSET Names
  /\ save \in Saves \union {NoSave}
  /\ serial \in 0..MaxTexts

First(n) == {[compose |-> <<n, 0>>, env |-> e] : e \in {Absent, Blank, <<n, 0>>}}

Init ==
  /\ disk \in {d \in [Names -> Files] : \A n \in Names : d[n] \in First(n)}
  /\ shown \in Names
  /\ data = [n \in Names |-> {}] /\ reply = {}
  /\ editor = FreshEditor
  /\ save = NoSave /\ create = {}
  /\ serial = 0

\* A text nobody has written yet.
Write(n) == <<n, serial + 1>>
Written == serial < MaxTexts /\ serial' = serial + 1

-----------------------------------------------------------------------------
(* The page.                                                               *)

Loaded == data[shown] # {}

EffectOnce(e, answer) ==
  IF answer # {} /\ e.compose = Blank
  THEN CHOOSE f \in answer : TRUE ELSE e

EffectEnvOnce(e, answer) ==
  IF answer = {} THEN e
  ELSE LET f == CHOOSE f \in answer : TRUE
       IN  [compose |-> f.compose, env |-> IF e.env = Absent THEN f.env ELSE e.env]

\* The effect on filesQuery.data: an env that is null or "" is not taken over.
Effect(e, answer) ==
  IF answer = {} THEN e
  ELSE LET f == CHOOSE f \in answer : TRUE
       IN  [compose |-> f.compose,
            env |-> IF f.env \in {Absent, Blank} THEN e.env ELSE f.env]

\* The link of another stack, on the same tab.
Goto(n) ==
  /\ n # shown
  /\ shown' = n
  /\ reply' = {}
  /\ editor' = Effect(editor, data[n])
  /\ UNCHANGED <<disk, data, save, create, serial>>

\* The tab is left and opened again, on this stack or another.  The handler of
\* a save under way is then the one of the component that is gone.
Remount(n) ==
  /\ shown' = n
  /\ reply' = {}
  /\ editor' = Effect(FreshEditor, data[n])
  /\ save' = IF save = NoSave THEN NoSave ELSE [save EXCEPT !.mounted = FALSE]
  /\ UNCHANGED <<disk, data, create, serial>>

\* handleStackFilesGet, asked by a mount, an invalidation or the focus.
Read ==
  /\ reply = {}
  /\ reply' = {disk[shown]}
  /\ UNCHANGED <<disk, shown, data, editor, save, create, serial>>

ArriveAlways ==
  /\ reply # {}
  /\ reply' = {}
  /\ data' = [data EXCEPT ![shown] = reply]
  /\ editor' = Effect(editor, reply)
  /\ UNCHANGED <<disk, shown, save, create, serial>>

\* An answer equal to the one the page has is no change of filesQuery.data.
Arrive ==
  /\ reply # {}
  /\ reply' = {}
  /\ data' = [data EXCEPT ![shown] = reply]
  /\ editor' = IF reply = data[shown] THEN editor ELSE Effect(editor, reply)
  /\ UNCHANGED <<disk, shown, save, create, serial>>

TypeCompose ==
  /\ Loaded
  /\ Written /\ editor' = [editor EXCEPT !.compose = Write(shown)]
  /\ UNCHANGED <<disk, shown, data, reply, save, create>>

\* The second editor is there once envContent is not undefined.
TypeEnv ==
  /\ Loaded /\ editor.env # Absent
  /\ Written /\ editor' = [editor EXCEPT !.env = Write(shown)]
  /\ UNCHANGED <<disk, shown, data, reply, save, create>>

\* undefined differs from null, so that without a .env all is always dirty.
Dirty ==
  \E f \in data[shown] : editor # f \/ f.env = Absent

\* base, which the program does not keep, is the .env that the page had.
Save ==
  /\ Dirty /\ save = NoSave
  /\ \E f \in data[shown] :
       save' = [at |-> "sent", name |-> shown, sent |-> editor, base |-> f.env,
                mounted |-> TRUE]
  /\ UNCHANGED <<disk, shown, data, reply, editor, create, serial>>

\* onSuccess of the save: it speaks of the stack that is shown by now.  The
\* invalidated query drops an answer that is on its way.
Saved ==
  /\ save.at = "written"
  /\ save' = NoSave
  /\ reply' = IF save.mounted THEN {} ELSE reply
  /\ UNCHANGED <<disk, shown, data, editor, create, serial>>

SaveFailed ==
  /\ save.at = "failed"
  /\ save' = NoSave
  /\ UNCHANGED <<disk, shown, data, reply, editor, create, serial>>

ClickCreateEnv ==
  /\ Loaded /\ editor.env = Absent
  /\ create' = create \union {shown}
  /\ UNCHANGED <<disk, shown, data, reply, editor, save, serial>>

-----------------------------------------------------------------------------
(* The server.                                                             *)

At(step) == save' = [save EXCEPT !.at = step]

\* handleStackFilesSave: no compose content is an error; a write may fail.
PutCompose ==
  /\ save.at = "sent"
  /\ \/ /\ save.sent.compose # Blank
        /\ disk' = [disk EXCEPT ![save.name].compose = save.sent.compose]
        /\ At("compose")
     \/ At("failed") /\ UNCHANGED disk
  /\ UNCHANGED <<shown, data, reply, editor, create, serial>>

PutEnv ==
  /\ save.at = "compose"
  /\ \/ /\ disk' = IF save.sent.env = Absent THEN disk
                   ELSE [disk EXCEPT ![save.name].env = save.sent.env]
        /\ At("written")
     \/ At("failed") /\ UNCHANGED disk
  /\ UNCHANGED <<shown, data, reply, editor, create, serial>>

\* handleStackCreateEnv writes its line whatever .env there is; its success
\* invalidates the files query.
CreateEnv(n) ==
  /\ n \in create /\ create' = create \ {n}
  /\ Written
  /\ disk' = [disk EXCEPT ![n].env = Write(n)]
  /\ reply' = {}
  /\ UNCHANGED <<shown, data, editor, save>>

\* Another client, or someone with an editor on the host.
Elsewhere(n) ==
  /\ Written
  /\ \/ \E f \in {"compose", "env"} : disk' = [disk EXCEPT ![n][f] = Write(n)]
     \/ disk' = [disk EXCEPT ![n].env = Absent]
  /\ UNCHANGED <<shown, data, reply, editor, save, create>>

Next ==
  \/ \E n \in Names : Goto(n) \/ Remount(n) \/ CreateEnv(n) \/ Elsewhere(n)
  \/ Read \/ Arrive \/ TypeCompose \/ TypeEnv \/ Save \/ Saved \/ SaveFailed
  \/ ClickCreateEnv \/ PutCompose \/ PutEnv

Spec == Init /\ [][Next]_vars

-----------------------------------------------------------------------------
(* The compose file of a stack never gets a text written for another one,  *)
(* however the user moves between stacks while answers and saves are on    *)
(* their way, and the editor never shows one.                              *)
Own(n, text) == text = Blank \/ text[1] = n

ComposeIsOwn ==
  /\ \A n \in Names : Own(n, disk[n].compose)
  /\ Loaded => Own(shown, editor.compose)

(* What is typed into the compose editor is replaced only by another       *)
(* stack's files or by an answer that differs from the one the page had: a *)
(* refetch of unchanged files loses no typing.                             *)
TypingKept ==
  [][editor'.compose # editor.compose
       => \/ shown' # shown \/ data'[shown] # data[shown] \/ TypeCompose
          \/ editor' = Effect(FreshEditor, data[shown])]_vars

(* A save may write the .env of another stack, left in the editor, but     *)
(* only for a stack whose .env was missing or empty when it was loaded, or *)
(* had that text already.                                                  *)
ForeignEnvFillsGap ==
  [][\A n \in Names :
       disk'[n].env # disk[n].env
         => \/ disk'[n].env = Absent \/ Own(n, disk'[n].env)
            \/ save.base \in {Absent, Blank, disk'[n].env}]_vars
=============================================================================
