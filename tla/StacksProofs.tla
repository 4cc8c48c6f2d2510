---------------------------- MODULE StacksProofs ----------------------------
(***************************************************************************)
(* Proofs about Stacks, for any number of clients, stacks and services:    *)
(* the four properties of MCStacks from one inductive invariant.           *)
(***************************************************************************)
EXTENDS Stacks, TLAPS

\* Two requests that work on the same stack have put it in overlap.
Exclusive ==
  \A c, d \in Busy :
    c # d => Claim(req[c]) \intersect Claim(req[d]) \subseteq overlap

\* Where the requests of each operation can be, and what they carry.
Shape(r) ==
  /\ r.op \in {"create", "createEnv"} => r.at \in {"mkdir", "write"}
  /\ r.op = "rename" => r.at \in {"checkNew", "down", "move", "up"}
  /\ r.op = "destroy" => r.at \in {"down", "remove"}
  /\ r.op \in Redeploys => /\ r.at \in {"list", "pull", "up"}
                           /\ r.name \notin Skip
                           /\ r.left \intersect Skip = {}
  /\ r.op \in Redeploys /\ r.at \in Verbs => r.svcs # {}
  /\ r.op \notin Redeploys => r.svcs = {} /\ r.left = {}
  /\ r.at \in {"checkNew", "move"} => r.op = "rename"
  /\ r.at = "remove" => r.op = "destroy"
  /\ r.op # "rename" => r.to = r.name
  /\ r.at = "write" => r.file \in Contents
  /\ r.at = "list" => r.op \in Redeploys /\ r.file = "none"

\* No container of a service of the well-formed file f is left in project n.
Emptied(n, f) ==
  f \in Contents /\ \A s \in ServicesOf[f] : box[n][s] = "none"

\* What a request knows of its stack as long as no other worked on it.
Knows(r) ==
  /\ (r.at \in Verbs /\ r.file # "none" /\ Target(r) \notin overlap)
       => dir[Target(r)] = r.file
  /\ (r.op = "create" /\ r.name \notin Hidden \union overlap)
       => dir[r.name] \notin Files
  /\ (r.at \in {"move", "remove"} /\ r.name \notin overlap
        /\ dir[r.name] \in Files)
       => Emptied(r.name, dir[r.name])
  /\ (r.op = "rename" /\ r.at = "up" /\ Claim(r) \intersect overlap = {})
       => /\ dir[r.name] = "absent"
          /\ Emptied(r.name, dir[r.to])
  /\ (r.op \in Redeploys /\ r.at \in Verbs /\ r.name \notin overlap)
       => \A t \in r.svcs : box[r.name][t] = "running"

IInv ==
  /\ TypeOK
  /\ Exclusive
  /\ \A c \in Busy : Shape(req[c]) /\ Knows(req[c])

-----------------------------------------------------------------------------
(* How Becomes and Leave change the requests.                              *)

LEMMA Becoming ==
  ASSUME NEW c, NEW r, Becomes(c, r)
  PROVE  /\ Busy' = Busy \union {c}
         /\ req'[c] = r
         /\ \A d \in Busy \ {c} : req'[d] = req[d]
         /\ req' = [d \in Busy' |-> req'[d]]
         /\ overlap \subseteq overlap'
         /\ \A d \in Busy \ {c} : Claim(r) \intersect Claim(req[d]) \subseteq overlap'
         /\ overlap' \subseteq overlap \union Claim(r)
BY DEF Becomes, Busy

LEMMA Leaving ==
  ASSUME NEW c, Leave(c)
  PROVE  /\ Busy' = Busy \ {c}
         /\ \A d \in Busy \ {c} : req'[d] = req[d]
         /\ req' = [d \in Busy' |-> req'[d]]
         /\ overlap' = overlap
BY DEF Leave, Busy

\* A step of client c leaves alone the stacks it has no claim on.
Local(c) ==
  \A n \in Names : \/ c \in Busy /\ n \in Claim(req[c])
                   \/ dir'[n] = dir[n] /\ box'[n] = box[n]

LEMMA KnowsStable ==
  ASSUME NEW r \in Request, overlap \subseteq overlap',
         \A n \in Claim(r) \ overlap' : dir'[n] = dir[n] /\ box'[n] = box[n],
         Knows(r)
  PROVE  Knows(r)'
<1> USE DEF Request, Claim
<1> Target(r) \in Claim(r)
  BY DEF Target
<1> r' = r
  OBVIOUS
<1> Target(r)' = Target(r)
  BY DEF Target
<1>1. ((r.at \in Verbs /\ r.file # "none" /\ Target(r) \notin overlap)
       => dir[Target(r)] = r.file)'
  BY DEF Knows
<1>2. ((r.op = "create" /\ r.name \notin Hidden \union overlap)
       => dir[r.name] \notin Files)'
  BY DEF Knows
<1>3. ((r.at \in {"move", "remove"} /\ r.name \notin overlap
        /\ dir[r.name] \in Files)
       => Emptied(r.name, dir[r.name]))'
  BY DEF Knows, Emptied
<1>4. ((r.op = "rename" /\ r.at = "up" /\ Claim(r) \intersect overlap = {})
       => /\ dir[r.name] = "absent"
          /\ Emptied(r.name, dir[r.to]))'
  BY DEF Knows, Emptied
<1>5. ((r.op \in Redeploys /\ r.at \in Verbs /\ r.name \notin overlap)
       => \A t \in r.svcs : box[r.name][t] = "running")'
  BY DEF Knows
<1> QED BY <1>1, <1>2, <1>3, <1>4, <1>5 DEF Knows

-----------------------------------------------------------------------------
(* A step preserves the invariant when the request it belongs to ends well. *)

DirType == [Names -> Files \union {"absent", "bare"}]
BoxType == [Names -> [Services -> Container]]

LEMMA OthersKnow ==
  ASSUME IInv, NEW c, Local(c), overlap \subseteq overlap',
         NEW d \in Busy \ {c}, req'[d] = req[d]
  PROVE  Shape(req'[d]) /\ Knows(req[d])'
<1>1. PICK r : r = req[d]
  OBVIOUS
<1>2. r \in Request /\ Shape(r) /\ Knows(r)
  BY <1>1 DEF IInv, TypeOK
<1>3. Claim(r) \subseteq Names
  BY <1>2 DEF Claim, Request
<1>4. \A n \in Claim(r) \ overlap' : dir'[n] = dir[n] /\ box'[n] = box[n]
  BY <1>1, <1>3 DEF Local, IInv, Exclusive
<1>5. Knows(r)'
  BY <1>2, <1>4, KnowsStable
<1>6. r = req'[d]
  BY <1>1
<1> QED BY <1>2, <1>5, <1>6, <1>1 DEF Knows, Emptied, Target, Claim

LEMMA StepBecomes ==
  ASSUME IInv, NEW c \in Clients, NEW r \in Request, Becomes(c, r), Local(c),
         dir' \in DirType, box' \in BoxType, Shape(r), Knows(r)'
  PROVE  IInv'
<1>1. /\ Busy' = Busy \union {c}
      /\ req'[c] = r
      /\ \A d \in Busy \ {c} : req'[d] = req[d]
      /\ req' = [d \in Busy' |-> req'[d]]
      /\ overlap \subseteq overlap'
      /\ \A d \in Busy \ {c} : Claim(r) \intersect Claim(req[d]) \subseteq overlap'
      /\ overlap' \subseteq overlap \union Claim(r)
  BY Becoming
<1>2. Claim(r) \subseteq Names
  BY DEF Claim, Request
<1>3. \A d \in Busy' : Shape(req'[d]) /\ Knows(req[d])'
  <2> TAKE d \in Busy'
  <2>1. CASE d = c
    <3>1. req'[d] = r
      BY <1>1, <2>1
    <3> QED BY <3>1 DEF Knows, Emptied, Target, Claim
  <2>2. CASE d # c
    BY <1>1, <2>2, OthersKnow
  <2> QED BY <2>1, <2>2
<1>4. TypeOK'
  BY <1>1, <1>2, <1>3 DEF IInv, TypeOK, DirType, BoxType, Shape
<1>5. Exclusive'
  <2> SUFFICES ASSUME NEW d \in Busy', NEW e \in Busy', d # e
               PROVE  Claim(req'[d]) \intersect Claim(req'[e]) \subseteq overlap'
    BY DEF Exclusive, Claim
  <2>1. CASE d = c
    BY <1>1, <2>1
  <2>2. CASE e = c
    BY <1>1, <2>2
  <2>3. CASE d # c /\ e # c
    BY <1>1, <2>3 DEF IInv, Exclusive
  <2> QED BY <2>1, <2>2, <2>3
<1> QED BY <1>3, <1>4, <1>5 DEF IInv

LEMMA StepLeaves ==
  ASSUME IInv, NEW c \in Busy, Leave(c), Local(c),
         dir' \in DirType, box' \in BoxType
  PROVE  IInv'
<1>1. /\ Busy' = Busy \ {c}
      /\ \A d \in Busy \ {c} : req'[d] = req[d]
      /\ req' = [d \in Busy' |-> req'[d]]
      /\ overlap' = overlap
  BY Leaving
<1>2. \A d \in Busy' : Shape(req'[d]) /\ Knows(req[d])'
  BY <1>1, OthersKnow
<1>3. TypeOK'
  BY <1>1, <1>2 DEF IInv, TypeOK, DirType, BoxType
<1>4. Exclusive'
  BY <1>1 DEF IInv, Exclusive, Claim
<1> QED BY <1>2, <1>3, <1>4 DEF IInv

LEMMA StepDone ==
  ASSUME IInv, NEW c \in Busy, Done(c), Local(c),
         dir' \in DirType, box' \in BoxType
  PROVE  IInv'
<1>1. CASE req[c].left = {}
  BY <1>1, StepLeaves DEF Done
<1>2. CASE req[c].left # {}
  <2>1. PICK n \in req[c].left :
          Becomes(c, [req[c] EXCEPT !.name = n, !.to = n, !.at = "list",
                                    !.file = "none", !.svcs = {},
                                    !.left = @ \ {n}])
    BY <1>2 DEF Done
  <2>2. PICK r : r = [req[c] EXCEPT !.name = n, !.to = n, !.at = "list",
                                    !.file = "none", !.svcs = {},
                                    !.left = @ \ {n}]
    OBVIOUS
  <2>3. req[c] \in Request /\ Shape(req[c]) /\ c \in Clients
    BY DEF IInv, TypeOK
  <2>4. r \in Request /\ r.at = "list" /\ r.op = req[c].op /\ r.name = n
          /\ r.svcs = {} /\ r.to = n /\ r.left = req[c].left \ {n}
          /\ r.file = "none"
    BY <2>2, <2>3 DEF Request
  <2>5. req[c].op \in Redeploys
    BY <2>3, <1>2 DEF Shape
  <2>6. Shape(r)
    BY <2>3, <2>4, <2>5 DEF Shape, Redeploys, Verbs
  <2>7. Knows(r)'
    BY <2>4, <2>5 DEF Knows, Redeploys, Verbs
  <2> QED BY <2>1, <2>2, <2>3, <2>4, <2>6, <2>7, StepBecomes
<1> QED BY <1>1, <1>2

-----------------------------------------------------------------------------
(* Arrivals.                                                               *)

LEMMA InitIInv == Init => IInv
<1> SUFFICES ASSUME Init PROVE IInv
  OBVIOUS
<1>1. Busy = {}
  BY DEF Init, Busy
<1>2. TypeOK
  BY <1>1 DEF Init, TypeOK, Container
<1> QED BY <1>1, <1>2 DEF IInv, Exclusive

\* A request that has arrived knows only what its first check told it.
LEMMA Arrival ==
  ASSUME IInv, NEW c \in Clients \ Busy, NEW r \in Request, Becomes(c, r),
         UNCHANGED <<dir, box>>, Shape(r), r.file = "none" \/ r.at = "write",
         r.at \in Verbs \union {"checkNew", "mkdir", "write", "list"},
         r.op = "create" => r.name \in Hidden \/ dir[r.name] = "absent",
         r.at = "up" => r.op \in Actions,
         r.op \in Redeploys => r.at = "list"
  PROVE  IInv'
<1>1. Local(c)
  BY DEF Local
<1>2. dir' \in DirType /\ box' \in BoxType
  BY DEF IInv, TypeOK, DirType, BoxType
<1>3. Knows(r)'
  BY FilesAssumption DEF Knows, Verbs, Files, Actions, Redeploys
<1> QED BY <1>1, <1>2, <1>3, StepBecomes

LEMMA ArriveIInv ==
  ASSUME IInv, NEW c \in Clients \ Busy, Arrive(c)
  PROVE  IInv'
<1> USE DEF Request, New, Shape, Actions, Redeploys, AllOps, Verbs
<1>0. PICK op \in Ops, n \in Names :
        \/ op = "create" /\ Create(c, n)
        \/ op = "createEnv" /\ CreateEnv(c, n)
        \/ op = "save" /\ \E f \in Contents : Save(c, n, f)
        \/ op = "rename" /\ \E m \in Names : Rename(c, n, m)
        \/ op = "destroy" /\ Destroy(c, n)
        \/ op \in Actions /\ Action(c, op, n)
        \/ op = "redeploy" /\ Redeploy(c, n)
        \/ op = "redeployAll" /\ RedeployAll(c, n)
  BY DEF Arrive
<1>1. CASE Create(c, n)
  <2>1. n \in Hidden \/ dir[n] = "absent"
    BY <1>1 DEF Create, Listed
  <2> QED BY <1>1, <2>1, Arrival DEF Create
<1>2. CASE CreateEnv(c, n)
  BY <1>2, Arrival DEF CreateEnv
<1>3. CASE \E f \in Contents : Save(c, n, f)
  <2>1. PICK f \in Contents : Save(c, n, f)
    BY <1>3
  <2>2. PICK r : r = [New("save", n, "write") EXCEPT !.file = f]
    OBVIOUS
  <2>3. r \in Request /\ r.op = "save" /\ r.at = "write" /\ r.name = n
          /\ r.to = n /\ r.file = f /\ r.svcs = {} /\ r.left = {}
    BY <2>2 DEF Files
  <2> QED BY <2>1, <2>2, <2>3, Arrival DEF Save
<1>4. CASE \E m \in Names : Rename(c, n, m)
  <2>1. PICK m \in Names : Rename(c, n, m)
    BY <1>4
  <2>2. PICK r : r = [New("rename", n, "checkNew") EXCEPT !.to = m]
    OBVIOUS
  <2>3. r \in Request /\ r.op = "rename" /\ r.at = "checkNew" /\ r.name = n
          /\ r.file = "none" /\ r.svcs = {} /\ r.left = {}
    BY <2>2
  <2> QED BY <2>1, <2>2, <2>3, Arrival DEF Rename
<1>5. CASE Destroy(c, n)
  BY <1>5, Arrival DEF Destroy
<1>6. CASE op \in Actions /\ Action(c, op, n)
  <2>1. PICK r : r = New(op, n, IF op = "update" THEN "pull" ELSE op)
    OBVIOUS
  <2>2. r \in Request /\ r.op = op /\ r.at \in Verbs /\ r.name = n
          /\ r.to = n /\ r.file = "none" /\ r.svcs = {} /\ r.left = {}
    BY <1>6, <2>1
  <2> QED BY <1>6, <2>1, <2>2, Arrival DEF Action
<1>7. CASE Redeploy(c, n)
  BY <1>7, Arrival DEF Redeploy
<1>8. CASE RedeployAll(c, n)
  <2>1. PICK r : r = [New("redeployAll", n, "list") EXCEPT
                        !.left = Listed \ (Skip \union {n})]
    OBVIOUS
  <2>2. r \in Request /\ r.op = "redeployAll" /\ r.at = "list" /\ r.name = n
          /\ r.to = n /\ r.file = "none"
          /\ r.left = Listed \ (Skip \union {n})
    BY <2>1 DEF Listed
  <2>3. n \notin Skip
    BY <1>8 DEF RedeployAll
  <2> QED BY <1>8, <2>1, <2>2, <2>3, Arrival DEF RedeployAll
<1> QED BY <1>0, <1>1, <1>2, <1>3, <1>4, <1>5, <1>6, <1>7, <1>8

-----------------------------------------------------------------------------
(* Steps on the stack directories.                                         *)

LEMMA BusyFacts ==
  ASSUME IInv, NEW c \in Busy
  PROVE  /\ c \in Clients
         /\ req[c] \in Request
         /\ Shape(req[c])
         /\ Knows(req[c])
         /\ req[c].name \in Names /\ req[c].to \in Names
         /\ dir \in DirType /\ box \in BoxType
BY DEF IInv, TypeOK, Request, DirType, BoxType

\* Only the named stack of the request changes its directory.
LEMMA DirChange ==
  ASSUME IInv, NEW c \in Busy, NEW f \in Files \union {"absent", "bare"},
         dir' = [dir EXCEPT ![req[c].name] = f], UNCHANGED box
  PROVE  Local(c) /\ dir' \in DirType /\ box' \in BoxType
BY BusyFacts DEF Local, Claim, DirType, BoxType

LEMMA MkdirIInv ==
  ASSUME IInv, NEW c \in Busy, Mkdir(c)
  PROVE  IInv'
<1> PICK q : q = req[c]
  OBVIOUS
<1>1. /\ c \in Clients
      /\ q \in Request /\ Shape(q) /\ Knows(q)
  BY BusyFacts
<1>2. Local(c) /\ dir' \in DirType /\ box' \in BoxType
  <2> PICK f : f = IF dir[q.name] = "absent" THEN "bare" ELSE dir[q.name]
    OBVIOUS
  <2>1. f \in Files \union {"absent", "bare"}
    BY BusyFacts DEF DirType
  <2> QED BY <2>1, DirChange DEF Mkdir
<1>3. CASE q.op = "create"
  <2>1. PICK r : r = [q EXCEPT !.at = "write", !.file = Template]
    OBVIOUS
  <2>2. /\ r \in Request /\ r.at = "write" /\ r.op = "create"
        /\ r.name = q.name /\ r.to = q.to /\ r.svcs = q.svcs
        /\ r.left = q.left /\ r.file \in Contents
    BY <1>1, <1>3, <2>1, FilesAssumption DEF Request, Files
  <2>3. Shape(r)
    BY <1>1, <1>3, <2>2 DEF Shape, Redeploys, Verbs
  <2>4. Becomes(c, r)
    BY <1>3, <2>1 DEF Mkdir
  <2>5. overlap \subseteq overlap'
    BY <2>4, Becoming
  <2>6. Knows(r)'
    <3>1. r.name \notin Hidden \union overlap' => dir'[r.name] \notin Files
      BY <1>1, <1>3, <2>2, <2>5, BusyFacts, FilesAssumption
      DEF Knows, Mkdir, DirType, Files
    <3> QED BY <2>2, <3>1 DEF Knows, Redeploys, Verbs
  <2> QED BY <1>1, <1>2, <2>2, <2>3, <2>4, <2>6, StepBecomes
<1>4. CASE q.op # "create"
  BY <1>2, <1>4, StepLeaves DEF Mkdir
<1> QED BY <1>3, <1>4

LEMMA WriteIInv ==
  ASSUME IInv, NEW c \in Busy, WriteOK(c) \/ WriteFails(c)
  PROVE  IInv'
<1>1. PICK f \in Files \union {"absent", "bare"} :
        dir' = [dir EXCEPT ![req[c].name] = f] /\ UNCHANGED box
  <2>1. CASE WriteOK(c)
    BY <2>1, BusyFacts DEF WriteOK, Shape, Files
  <2>2. CASE WriteFails(c)
    BY <2>2, BusyFacts DEF WriteFails, DirType, Files
  <2> QED BY <2>1, <2>2
<1>2. Leave(c)
  BY DEF WriteOK, WriteFails
<1> QED BY <1>1, <1>2, DirChange, StepLeaves

LEMMA CheckNewIInv ==
  ASSUME IInv, NEW c \in Busy, CheckNew(c)
  PROVE  IInv'
<1> PICK q : q = req[c]
  OBVIOUS
<1>1. /\ c \in Clients
      /\ q \in Request /\ Shape(q) /\ Knows(q)
      /\ dir \in DirType /\ box \in BoxType
  BY BusyFacts
<1>2. PICK at : at = IF dir[q.name] \in Files THEN "down" ELSE "move"
  OBVIOUS
<1>3. PICK r : r = [q EXCEPT !.at = at, !.file = "none"]
  OBVIOUS
<1>4. /\ r \in Request /\ r.at = at /\ r.op = "rename" /\ r.file = "none"
      /\ q.op = "rename"
      /\ r.name = q.name /\ r.to = q.to /\ r.svcs = q.svcs
      /\ r.left = q.left
  BY <1>1, <1>2, <1>3 DEF Request, Verbs, CheckNew, Shape
<1>5. Shape(r)
  BY <1>1, <1>2, <1>4 DEF Shape, Redeploys, Verbs
<1>6. Becomes(c, r) /\ UNCHANGED <<dir, box>>
  BY <1>2, <1>3 DEF CheckNew, Moves
<1>7. Knows(r)'
  BY <1>2, <1>4, <1>6 DEF Knows, Redeploys
<1> QED BY <1>1, <1>4, <1>5, <1>6, <1>7, StepBecomes DEF Local

LEMMA MoveIInv ==
  ASSUME IInv, NEW c \in Busy, Move(c)
  PROVE  IInv'
<1> PICK q : q = req[c]
  OBVIOUS
<1>1. /\ c \in Clients
      /\ q \in Request /\ Shape(q) /\ Knows(q)
      /\ q.name \in Names /\ q.to \in Names
      /\ dir \in DirType /\ box \in BoxType
  BY BusyFacts
<1>2. Local(c) /\ dir' \in DirType /\ box' \in BoxType
  BY <1>1 DEF Move, Local, Claim, DirType, BoxType
<1>3. CASE dir[q.name] \in Files
  <2>1. PICK r : r = [q EXCEPT !.at = "up", !.file = "none"]
    OBVIOUS
  <2>2. /\ r \in Request /\ r.at = "up" /\ r.op = "rename" /\ r.file = "none"
        /\ q.op = "rename"
        /\ r.name = q.name /\ r.to = q.to /\ r.svcs = q.svcs
        /\ r.left = q.left
    BY <1>1, <2>1 DEF Request, Verbs, Move, Shape
  <2>3. Shape(r)
    BY <1>1, <2>2 DEF Shape, Redeploys, Verbs
  <2>4. Becomes(c, r)
    BY <1>3, <2>1 DEF Move, Moves
  <2>5. overlap \subseteq overlap'
    BY <2>4, Becoming
  <2>6. q.name # q.to
    BY DEF Move
  <2>7. q.name \notin overlap' => Emptied(q.name, dir[q.name])
    BY <1>1, <1>3, <2>5 DEF Move, Knows
  <2>8. dir'[q.to] = dir[q.name] /\ dir'[q.name] = "absent" /\ box' = box
    BY <1>1, <2>6 DEF Move, DirType
  <2>9. Knows(r)'
    BY <2>2, <2>7, <2>8 DEF Knows, Claim, Emptied, Redeploys
  <2> QED BY <1>1, <1>2, <2>2, <2>3, <2>4, <2>9, StepBecomes
<1>4. CASE dir[q.name] \notin Files
  BY <1>2, <1>4, StepLeaves DEF Move
<1> QED BY <1>3, <1>4

LEMMA RemoveIInv ==
  ASSUME IInv, NEW c \in Busy, Remove(c)
  PROVE  IInv'
<1>1. PICK f \in Files \union {"absent", "bare"} :
        dir' = [dir EXCEPT ![req[c].name] = f] /\ UNCHANGED box
  BY BusyFacts DEF Remove, DirType
<1> QED BY <1>1, DirChange, StepLeaves DEF Remove

-----------------------------------------------------------------------------
(* Steps on the containers.                                                *)

LEMMA ListIInv ==
  ASSUME IInv, NEW c \in Busy, List(c)
  PROVE  IInv'
<1> PICK q : q = req[c]
  OBVIOUS
<1>1. /\ c \in Clients
      /\ q \in Request /\ Shape(q)
      /\ dir \in DirType /\ box \in BoxType
  BY BusyFacts
<1>2. Local(c) /\ dir' \in DirType /\ box' \in BoxType
  BY <1>1 DEF List, Local
<1>3. CASE Seen(q.name) = {}
  BY <1>2, <1>3, StepDone DEF List
<1>4. CASE Seen(q.name) # {}
  <2>1. PICK r : r = [q EXCEPT
                        !.svcs = Seen(q.name),
                        !.at = IF q.op = "redeploy" THEN "pull" ELSE "up"]
    OBVIOUS
  <2>2. Seen(q.name) \subseteq Services
    BY DEF Seen, Running
  <2>3. /\ r \in Request /\ r.at \in {"pull", "up"} /\ r.op = q.op
        /\ r.file = q.file /\ r.name = q.name /\ r.to = q.to
        /\ r.svcs = Seen(q.name) /\ r.left = q.left
    BY <1>1, <2>1, <2>2 DEF Request, Verbs
  <2>4. q.op \in Redeploys /\ q.file = "none"
    BY <1>1 DEF List, Shape
  <2>5. Shape(r)
    BY <1>1, <1>4, <2>3, <2>4 DEF Shape, Redeploys, Verbs
  <2>6. Becomes(c, r) /\ UNCHANGED <<dir, box>>
    BY <1>4, <2>1 DEF List
  <2>7. Knows(r)'
    BY <2>3, <2>4, <2>6 DEF Knows, Seen, Running, Redeploys
  <2> QED BY <1>1, <1>2, <2>3, <2>5, <2>6, <2>7, StepBecomes
<1> QED BY <1>3, <1>4

LEMMA ComposeStartIInv ==
  ASSUME IInv, NEW c \in Busy, ComposeStart(c)
  PROVE  IInv'
<1> PICK q : q = req[c]
  OBVIOUS
<1>1. /\ c \in Clients
      /\ q \in Request /\ Shape(q) /\ Knows(q)
      /\ dir \in DirType /\ box \in BoxType
  BY BusyFacts
<1>2. PICK r : r = [q EXCEPT !.file = dir[Target(q)]]
  OBVIOUS
<1>3. /\ r \in Request /\ r.at = q.at /\ r.op = q.op /\ r.name = q.name
      /\ r.to = q.to /\ r.svcs = q.svcs /\ r.left = q.left
      /\ r.file = dir[Target(q)] /\ q.at \in Verbs
  BY <1>1, <1>2 DEF Request, ComposeStart
<1>4. Shape(r)
  BY <1>1, <1>3 DEF Shape, Verbs
<1>5. Becomes(c, r) /\ UNCHANGED <<dir, box>>
  BY <1>2 DEF ComposeStart
<1>6. overlap \subseteq overlap'
  BY <1>5, Becoming
<1>7. Target(r) = Target(q)
  BY <1>3 DEF Target
<1>8. Knows(r)'
  <2>1. Target(r)' = Target(r)
    BY DEF Target
  <2> QED BY <1>1, <1>3, <1>5, <1>6, <1>7, <2>1
      DEF Knows, Claim, Emptied, Shape, Redeploys, Verbs
<1> QED BY <1>1, <1>3, <1>4, <1>5, <1>8, StepBecomes DEF Local

\* A step of a compose command changes the containers of one project.
LEMMA BoxChange ==
  ASSUME IInv, NEW c \in Busy, NEW b \in [Services -> Container],
         box' = [box EXCEPT ![Target(req[c])] = b], UNCHANGED dir
  PROVE  /\ Local(c) /\ dir' \in DirType /\ box' \in BoxType
         /\ Target(req[c]) \in Names
         /\ box'[Target(req[c])] = b
BY BusyFacts DEF Local, Claim, DirType, BoxType, Target

LEMMA AfterType ==
  ASSUME IInv, NEW c \in Busy
  PROVE  After(req[c]) \in [Services -> Container]
<1>1. Target(req[c]) \in Names /\ box \in BoxType
  BY BusyFacts DEF Target
<1>2. Outcome(req[c].at) \in Container
  BY DEF Outcome, Container
<1> QED BY <1>1, <1>2 DEF After, BoxType, Container

LEMMA DownEmpties ==
  ASSUME IInv, NEW q \in Request, q.at = "down", q.file \in Contents,
         NEW s \in ServicesOf[q.file]
  PROVE  After(q)[s] = "none"
<1>1. s \in Services
  BY FilesAssumption
<1>2. Target(q) = q.name
  BY DEF Target
<1>3. s \in Touched(q) \/ box[q.name][s] = "none"
  BY DEF Touched
<1> QED BY <1>1, <1>2, <1>3 DEF After, Outcome

LEMMA PullKeeps ==
  ASSUME IInv, NEW q \in Request, q.at = "pull"
  PROVE  \A s \in Services : After(q)[s] = box[q.name][s]
BY DEF After, Touched, Orphans, Target

LEMMA ComposeOKIInv ==
  ASSUME IInv, NEW c \in Busy, ComposeOK(c)
  PROVE  IInv'
<1> PICK q : q = req[c]
  OBVIOUS
<1>1. /\ c \in Clients
      /\ q \in Request /\ Shape(q) /\ Knows(q)
      /\ dir \in DirType /\ box \in BoxType
  BY BusyFacts
<1>2. /\ Local(c) /\ dir' \in DirType /\ box' \in BoxType
      /\ Target(q) \in Names /\ box'[Target(q)] = After(q)
  BY AfterType, BoxChange DEF ComposeOK
<1>3. /\ q.at \in Verbs /\ q.file \in Contents /\ q.file # "none"
      /\ dir' = dir /\ Proceed(c)
  BY DEF ComposeOK, InCompose
<1>4. ASSUME NEW at \in {"move", "remove"}, Moves(c, at), q.at = "down",
             \/ at = "move" /\ q.op = "rename"
             \/ at = "remove" /\ q.op = "destroy"
      PROVE  IInv'
  <2>1. PICK r : r = [q EXCEPT !.at = at, !.file = "none"]
    OBVIOUS
  <2>2. /\ r \in Request /\ r.at = at /\ r.op = q.op /\ r.file = "none"
        /\ r.name = q.name /\ r.to = q.to /\ r.svcs = q.svcs
        /\ r.left = q.left
    BY <1>1, <2>1 DEF Request
  <2>3. Shape(r)
    BY <1>1, <1>4, <2>2 DEF Shape, Redeploys, Verbs
  <2>4. Becomes(c, r)
    BY <1>4, <2>1 DEF Moves
  <2>5. overlap \subseteq overlap'
    BY <2>4, Becoming
  <2>6. Target(q) = q.name
    BY <1>4 DEF Target
  <2>7. q.name \notin overlap' => Emptied(q.name, dir[q.name])'
    BY <1>1, <1>2, <1>3, <1>4, <2>5, <2>6, DownEmpties DEF Knows, Emptied
  <2>8. Knows(r)'
    BY <1>4, <2>2, <2>7 DEF Knows, Redeploys, Verbs
  <2> QED BY <1>1, <1>2, <2>2, <2>3, <2>4, <2>8, StepBecomes
<1>5. ASSUME Moves(c, "up"), q.at = "pull", q.op \in {"update", "redeploy"}
      PROVE  IInv'
  <2>1. PICK r : r = [q EXCEPT !.at = "up", !.file = "none"]
    OBVIOUS
  <2>2. /\ r \in Request /\ r.at = "up" /\ r.op = q.op /\ r.file = "none"
        /\ r.name = q.name /\ r.to = q.to /\ r.svcs = q.svcs
        /\ r.left = q.left
    BY <1>1, <2>1 DEF Request, Verbs
  <2>3. Shape(r)
    BY <1>1, <1>5, <2>2 DEF Shape, Redeploys, Verbs
  <2>4. Becomes(c, r)
    BY <1>5, <2>1 DEF Moves
  <2>5. overlap \subseteq overlap'
    BY <2>4, Becoming
  <2>6. q.svcs \subseteq Services /\ Target(q) = q.name
    BY <1>1, <1>5 DEF Request, Target
  <2>7. \A t \in q.svcs : box'[q.name][t] = box[q.name][t]
    BY <1>1, <1>2, <1>5, <2>6, PullKeeps
  <2>8. Knows(r)'
    BY <1>1, <1>5, <2>2, <2>5, <2>7 DEF Knows, Redeploys, Verbs
  <2> QED BY <1>1, <1>2, <2>2, <2>3, <2>4, <2>8, StepBecomes
<1>6. CASE q.op = "rename" /\ q.at = "down"
  BY <1>3, <1>4, <1>6 DEF Proceed
<1>7. CASE q.op = "destroy"
  <2>1. q.at = "down"
    BY <1>1, <1>3, <1>7 DEF Shape, Verbs
  <2> QED BY <1>3, <1>4, <1>7, <2>1 DEF Proceed
<1>8. CASE q.op \in {"update", "redeploy"} /\ q.at = "pull"
  BY <1>3, <1>5, <1>8 DEF Proceed
<1>9. CASE ~ \/ q.op = "rename" /\ q.at = "down"
             \/ q.op = "destroy"
             \/ q.op \in {"update", "redeploy"} /\ q.at = "pull"
  BY <1>2, <1>3, <1>9, StepDone DEF Proceed
<1> QED BY <1>6, <1>7, <1>8, <1>9

LEMMA ComposeEndsIInv ==
  ASSUME IInv, NEW c \in Busy,
         ComposeMissing(c) \/ ComposeFails(c) \/ Fails(c)
  PROVE  IInv'
<1>1. CASE ComposeMissing(c) \/ Fails(c)
  <2>1. Local(c) /\ dir' \in DirType /\ box' \in BoxType
    BY <1>1, BusyFacts DEF ComposeMissing, Fails, Local
  <2> QED BY <1>1, <2>1, StepDone, StepLeaves DEF ComposeMissing, Fails
<1>2. CASE ComposeFails(c)
  <2>1. PICK b \in [Services -> Container] :
          box' = [box EXCEPT ![Target(req[c])] = b]
    <3>1. CASE req[c].file \in Contents
      BY <1>2, <3>1 DEF ComposeFails, Midway
    <3>2. CASE req[c].file \notin Contents
      <4>1. Target(req[c]) \in Names /\ box \in BoxType /\ box' = box
        BY <1>2, <3>2, BusyFacts DEF ComposeFails, Target
      <4>2. box[Target(req[c])] \in [Services -> Container]
        BY <4>1 DEF BoxType
      <4>3. box' = [box EXCEPT ![Target(req[c])] = box[Target(req[c])]]
        BY <4>1 DEF BoxType
      <4> QED BY <4>2, <4>3
    <3> QED BY <3>1, <3>2
  <2>2. Local(c) /\ dir' \in DirType /\ box' \in BoxType
    BY <1>2, <2>1, BoxChange DEF ComposeFails
  <2> QED BY <1>2, <2>2, StepDone, StepLeaves DEF ComposeFails
<1> QED BY <1>1, <1>2

LEMMA NextIInv == IInv /\ [Next]_vars => IInv'
<1> SUFFICES ASSUME IInv, [Next]_vars PROVE IInv'
  OBVIOUS
<1>1. ASSUME NEW c \in Clients \ Busy, Arrive(c) PROVE IInv'
  BY <1>1, ArriveIInv
<1>2. ASSUME NEW c \in Busy, Step(c) PROVE IInv'
  BY <1>2, MkdirIInv, WriteIInv, CheckNewIInv, MoveIInv, RemoveIInv,
     ListIInv, ComposeStartIInv, ComposeOKIInv, ComposeEndsIInv DEF Step
<1>3. ASSUME UNCHANGED vars PROVE IInv'
  BY <1>3 DEF vars, IInv, TypeOK, Exclusive, Shape, Knows, Emptied, Target,
              Claim, Busy
<1> QED BY <1>1, <1>2, <1>3 DEF Next

\* The invariant that the theorems below use.
THEOREM Invariance == Spec => []IInv
BY InitIInv, NextIInv, PTL DEF Spec

-----------------------------------------------------------------------------
(* The properties.                                                         *)

\* Every state is well typed, and a redeploy never runs a compose command for
\* an empty set of services.
THEOREM TypeCorrect == Spec => []TypeOK
<1>1. IInv => TypeOK
  BY DEF IInv
<1> QED BY <1>1, Invariance, PTL

\* The history only grows, whatever a request does.
LEMMA OverlapGrows ==
  ASSUME NEW c, Leave(c) \/ Done(c) \/ (\E at : Moves(c, at))
  PROVE  overlap \subseteq overlap'
BY Becoming, Leaving DEF Done, Moves

\* A compose file that no second request worked on leaves its stack only once
\* "docker compose down" has removed the containers of its services.
THEOREM GoneIsDown == Spec => DownBeforeGone
<1>1. ASSUME IInv, Next, NEW n \in Names \ overlap',
             dir[n] \in Files, dir'[n] \notin Files
      PROVE  Emptied(n, dir[n])
  <2>1. PICK c \in Busy : Step(c)
    BY <1>1 DEF Next, Arrive, Create, CreateEnv, Save, Rename, Destroy, Action,
                Redeploy, RedeployAll
  <2>2. PICK q : q = req[c]
    OBVIOUS
  <2>3. /\ q \in Request /\ Shape(q) /\ Knows(q)
        /\ q.name \in Names /\ q.to \in Names
        /\ dir \in DirType
    BY <1>1, <2>2, BusyFacts
  <2>4. "absent" \notin Files
    BY FilesAssumption DEF Files
  <2>5. CASE Mkdir(c)
    BY <1>1, <2>2, <2>3, <2>4, <2>5 DEF Mkdir, DirType
  <2>6. CASE WriteOK(c) \/ WriteFails(c)
    BY <1>1, <2>2, <2>3, <2>6 DEF WriteOK, WriteFails, DirType, Files, Shape
  <2>7. CASE Move(c) \/ Remove(c)
    <3>1. overlap \subseteq overlap'
      BY <2>7, OverlapGrows DEF Move, Remove
    <3>2. n = q.name /\ q.at \in {"move", "remove"}
      BY <1>1, <2>2, <2>3, <2>4, <2>7 DEF Move, Remove, DirType
    <3> QED BY <1>1, <2>3, <3>1, <3>2 DEF Knows
  <2>8. CASE ~ \/ Mkdir(c) \/ WriteOK(c) \/ WriteFails(c) \/ Move(c)
               \/ Remove(c)
    BY <1>1, <2>1, <2>8 DEF Step, CheckNew, List, ComposeStart,
       ComposeMissing, ComposeOK, ComposeFails, Fails
  <2> QED BY <2>5, <2>6, <2>7, <2>8
<1>2. IInv /\ [Next]_vars =>
        [\A n \in Names \ overlap' :
           dir[n] \in Files /\ dir'[n] \notin Files =>
             /\ dir[n] \in Contents
             /\ \A s \in ServicesOf[dir[n]] : box[n][s] = "none"]_vars
  BY <1>1 DEF Emptied
<1> QED BY <1>2, Invariance, PTL DEF Spec, DownBeforeGone

\* A create that no other request interfered with writes over no compose file.
THEOREM CreateKeeps == Spec => CreateKeepsFiles
<1>1. ASSUME IInv, NEW c \in Busy, req[c].op = "create", WriteOK(c),
             req[c].name \notin Hidden \union overlap'
      PROVE  dir[req[c].name] \notin Files
  BY <1>1, BusyFacts, OverlapGrows DEF WriteOK, Knows
<1>2. IInv /\ [Next]_vars =>
        [\A c \in Busy :
           LET n == req[c].name IN
           req[c].op = "create" /\ WriteOK(c) /\ n \notin Hidden \union overlap'
             => dir[n] \notin Files]_vars
  BY <1>1
<1> QED BY <1>2, Invariance, PTL DEF Spec, CreateKeepsFiles

\* The last command of a rename leaves the stack running under its new name
\* and nothing of it under the old one.
THEOREM RenameCompletes == Spec => RenameLands
<1> DEFINE Landed(r) ==
      /\ dir[r.name] = "absent"
      /\ dir[r.to] = r.file
      /\ \A s \in Services :
           box'[r.to][s] =
             IF s \in ServicesOf[r.file] THEN "running" ELSE "none"
      /\ \A s \in ServicesOf[r.file] : box[r.name][s] = "none"
<1>1. ASSUME IInv, NEW c \in Busy, req[c].op = "rename", req[c].at = "up",
             ComposeOK(c), Claim(req[c]) \intersect overlap' = {}
      PROVE  Landed(req[c])
  <2>1. PICK q : q = req[c]
    OBVIOUS
  <2>2. /\ q \in Request /\ Shape(q) /\ Knows(q)
        /\ q.name \in Names /\ q.to \in Names
        /\ box'[Target(q)] = After(q)
        /\ q.op = "rename" /\ q.at = "up"
    BY <1>1, <2>1, BusyFacts, AfterType, BoxChange DEF ComposeOK
  <2>3. Done(c)
    BY <1>1 DEF ComposeOK, Proceed
  <2>4. Claim(q) \intersect overlap = {}
    BY <1>1, <2>1, <2>3, OverlapGrows
  <2>5. Target(q) = q.to /\ q.to \in Claim(q)
    BY <2>2 DEF Target, Claim
  <2>6. q.file # "none"
    BY <1>1, <2>1 DEF ComposeOK, InCompose
  <2>7. dir[q.name] = "absent" /\ dir[q.to] = q.file /\ Emptied(q.name, q.file)
    BY <2>2, <2>4, <2>5, <2>6 DEF Knows, Verbs
  <2>8. Touched(q) = ServicesOf[q.file] /\ q.op \notin Redeploys
    BY <2>2 DEF Touched, Shape, Redeploys
  <2>9. Orphans(q) = Services \ ServicesOf[q.file]
    BY <2>2, <2>8 DEF Orphans
  <2>10. \A s \in Services :
           box'[q.to][s] =
             IF s \in ServicesOf[q.file] THEN "running" ELSE "none"
    BY <2>2, <2>5, <2>8, <2>9 DEF After, Outcome
  <2> QED BY <2>1, <2>7, <2>10 DEF Emptied
<1>2. IInv /\ [Next]_vars =>
        [\A c \in Busy :
           LET r == req[c] IN
           /\ r.op = "rename" /\ r.at = "up" /\ ComposeOK(c)
           /\ Claim(r) \intersect overlap' = {}
           => /\ dir[r.name] = "absent"
              /\ dir[r.to] = r.file
              /\ \A s \in Services :
                   box'[r.to][s] =
                     IF s \in ServicesOf[r.file] THEN "running" ELSE "none"
              /\ \A s \in ServicesOf[r.file] : box[r.name][s] = "none"]_vars
  BY <1>1
<1> QED BY <1>2, Invariance, PTL DEF Spec, RenameLands

\* A redeploy starts only services that run, or that one that runs depends
\* on, and nothing in an excluded stack.
THEOREM RedeployStaysInScope == Spec => RedeployScope
<1> DEFINE Allowed(q, s) ==
      \E t \in q.svcs : s \in Deps[t] /\ box[q.name][t] = "running"
<1>1. ASSUME IInv, Next, NEW c \in Busy, req[c].op \in Redeploys,
             box' # box, req[c].name \notin overlap'
      PROVE  /\ req[c].name \notin Skip
             /\ \A s \in Services :
                  /\ box[req[c].name][s] # "running"
                  /\ box'[req[c].name][s] = "running"
                  => Allowed(req[c], s)
  <2>1. PICK q : q = req[c]
    OBVIOUS
  <2>2. /\ q \in Request /\ Shape(q) /\ Knows(q) /\ q.name \in Names
        /\ q.op \in Redeploys
    BY <1>1, <2>1, BusyFacts
  <2>3. PICK d \in Busy : ComposeOK(d) \/ ComposeFails(d)
    BY <1>1 DEF Next, Arrive, Create, CreateEnv, Save, Rename, Destroy, Action,
                Redeploy, RedeployAll, Step, Mkdir, WriteOK, WriteFails,
                CheckNew, Move, Remove, List, ComposeStart, ComposeMissing,
                Fails
  <2>4. overlap \subseteq overlap'
    <3>1. Done(d) \/ Leave(d) \/ (\E at : Moves(d, at))
      BY <2>3 DEF ComposeOK, ComposeFails, Proceed
    <3> QED BY <3>1, OverlapGrows
  <2>5. q.name \notin Skip
    BY <2>2 DEF Shape
  <2>6. ASSUME NEW s \in Services, box[q.name][s] # "running",
               box'[q.name][s] = "running"
        PROVE  Allowed(q, s)
    <3>1. Target(req[d]) = q.name
      BY <1>1, <2>2, <2>3, <2>6, BusyFacts DEF ComposeOK, ComposeFails, BoxType
    <3>2. d = c
      BY <1>1, <2>1, <2>4, <3>1 DEF IInv, Exclusive, Claim, Target
    <3>3. q.at \in Verbs /\ q.file \in Contents
      BY <2>1, <2>3, <2>6, <3>2 DEF ComposeOK, ComposeFails, InCompose
    <3>4. \/ box'[q.name] = After(q)
          \/ box'[q.name] \in Midway(q)
      BY <1>1, <2>1, <2>2, <2>3, <3>1, <3>2, <3>3, BusyFacts
      DEF ComposeOK, ComposeFails, BoxType
    <3>5. box'[q.name][s] = After(q)[s]
      BY <2>1, <2>6, <3>1, <3>2, <3>4 DEF Midway
    <3>6. s \in Touched(q)
      BY <2>1, <2>6, <3>1, <3>2, <3>5 DEF After
    <3>7. q.at \in {"pull", "up"} /\ q.svcs # {}
      BY <2>2, <3>3 DEF Shape, Verbs
    <3>8. s \in q.svcs \union UNION {Deps[t] : t \in q.svcs}
      BY <3>6, <3>7 DEF Touched
    <3>9. \A t \in q.svcs : box[q.name][t] = "running"
      BY <1>1, <2>1, <2>2, <2>4, <3>3 DEF Knows
    <3> QED BY <2>6, <3>8, <3>9
  <2> QED BY <2>1, <2>5, <2>6
<1>2. IInv /\ [Next]_vars =>
        [\A c \in Busy :
           LET n == req[c].name IN
           req[c].op \in Redeploys /\ box' # box /\ n \notin overlap' =>
             /\ n \notin Skip
             /\ \A s \in Services :
                  box[n][s] # "running" /\ box'[n][s] = "running"
                    => \E t \in req[c].svcs :
                         s \in Deps[t] /\ box[n][t] = "running"]_vars
  BY <1>1
<1> QED BY <1>2, Invariance, PTL DEF Spec, RedeployScope
=============================================================================
