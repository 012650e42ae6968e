----------------------------- MODULE IPTablesProofs -----------------------------
(***************************************************************************)
(* The iptables backend for any sets of chains, rules and targets and any  *)
(* number of disturbances: calls one after the other, every one of them    *)
(* starting from whatever the calls before it left behind.                 *)
(*                                                                         *)
(* The invariant follows a call from its snapshot to its return: until the *)
(* command that counts the table parses as it did at the start, afterwards *)
(* as the target; and once a command has failed or was killed, what the    *)
(* deferred cleanup still has to do bounds what it may leave.              *)
(***************************************************************************)
EXTENDS IPTables, SequenceTheorems, FiniteSetTheorems, TLAPS

--------------------------------------------------------------------------------
(* The inductive invariant *)

GenMaps == UNION {[S -> SUBSET Rule] : S \in SUBSET Chains}

\* A NAT table: at most one anchor, and at most one rule in the entry chain.
Tables ==
  [anchors : 0..1, entry : BOOLEAN, jumps : {<<>>} \cup {<<c>> : c \in Chains},
   gens : GenMaps]

\* Jumps do not dangle, and nothing refers to an entry chain that is not there.
TableOK ==
  /\ nat \in Tables
  /\ Jumped \subseteq Generations
  /\ (nat.jumps # <<>> \/ nat.anchors > 0) => nat.entry

Troubles == [fails : Nat, killed : BOOLEAN, crashed : {FALSE}]

LocalsOK ==
  /\ target \in Targets \cup {Absent}
  /\ managed \in BOOLEAN
  /\ chain \in Chains \cup {NoChain}
  /\ todo \subseteq Rule
  /\ obsolete \subseteq Chains
  /\ trouble \in Troubles
  /\ budget \in [Disturbances -> Nat]
  /\ start \in FamilyState

\* The loops are over finite sets.
LoopsEnd == IsFiniteSet(todo) /\ IsFiniteSet(obsolete) /\ IsFiniteSet(Generations)

Building == {"append", "switch", "new entry", "add anchor", "activate"}
Dismantling == {"delete anchor", "flush entry", "delete entry"}
Cleaning == {"flush", "remove"}
Running == {"snapshot", "new chain", "return"} \cup Building \cup Dismantling \cup Cleaning

Loose(n) == nat.anchors = n /\ nat.entry /\ nat.jumps = <<>>
Bare == nat.anchors = 0 /\ ~nat.entry

\* While nothing has gone wrong.
Undisrupted ==
  /\ pc = "idle" => created = {} /\ undo = <<>> /\ trouble = NoTrouble
  /\ pc \in Running => undo = <<>> /\ trouble = NoTrouble
  /\ pc \in Running \ {"snapshot"} => Readable(start)
  /\ pc \in {"snapshot", "new chain", "return"} \cup Dismantling \cup Cleaning => created = {}

\* Until the snapshot is taken, and until the candidate is in force, the call has
\* changed nothing that counts.
Prepared ==
  /\ pc \in {"snapshot", "new chain", "append", "switch", "new entry", "delete anchor"} =>
       Parse = start
  /\ pc \in {"new chain"} \cup Building => target.mode = "managed"
  /\ pc \in Running \ {"snapshot"} => managed = (start.mode = "managed")
  /\ pc \in {"new chain", "delete anchor", "flush entry"} => obsolete = Generations

\* The candidate: a new generation nothing refers to, filled rule by rule.
Candidate ==
  pc \in Building =>
    /\ chain \in Generations /\ chain \notin obsolete \cup Jumped
    /\ Generations = obsolete \cup {chain}
    /\ todo \subseteq target.rules /\ nat.gens[chain] = target.rules \ todo
    /\ pc = "append" <=> todo # {}
    /\ pc \in {"append", "switch", "new entry"} => created = {"chain"}
    /\ pc = "switch" => managed
    /\ pc \in {"new entry", "add anchor", "activate"} => ~managed
    /\ pc = "add anchor" => created = {"chain", "entry"} /\ Loose(0)
    /\ pc = "activate" => created = {"chain", "entry", "anchor"} /\ Loose(1)

\* After the step that counts: the target is in force, or PMM's chains are on their way
\* out.
Finishing ==
  /\ pc \in Dismantling => target = Absent /\ managed
  /\ pc = "flush entry" => nat.anchors = 0 /\ nat.entry
  /\ pc = "delete entry" => Loose(0) /\ Generations = {}
  /\ pc \in Cleaning =>
       /\ Generations = obsolete \cup Jumped /\ obsolete \cap Jumped = {}
       /\ target # Absent => Parse = target
       /\ target = Absent => IF managed THEN Loose(0) ELSE Bare
  /\ pc = "flush" => obsolete # {}
  /\ pc = "remove" => chain \in obsolete /\ nat.gens[chain] = {}
  /\ pc = "return" => Parse = target /\ Generations = Jumped

--------------------------------------------------------------------------------
(* The deferred cleanup *)

Created == {{}, {"chain"}, {"chain", "entry"}, {"chain", "entry", "anchor"}}

\* What is left of UndoSteps.
UndoEntry == {<<>>, <<"delete entry">>, <<"flush entry", "delete entry">>}
UndoAll ==
  {<<"delete anchor", "flush entry", "delete entry">>,
   <<"delete chain", "delete anchor", "flush entry", "delete entry">>,
   <<"flush chain", "delete chain", "delete anchor", "flush entry", "delete entry">>}
UndoOK ==
  /\ created = {} => undo = <<>>
  /\ created = {"chain"} =>
       undo \in {<<>>, <<"delete chain">>, <<"flush chain", "delete chain">>}
  /\ created = {"chain", "entry"} =>
       undo \in UndoEntry \cup {<<"delete chain", "flush entry", "delete entry">>,
                               <<"flush chain", "delete chain", "flush entry", "delete entry">>}
  /\ created = {"chain", "entry", "anchor"} => undo \in UndoEntry \cup UndoAll

\* A call that could read the table fails only when disturbed.
Blame ==
  /\ ~Readable(start) => created = {} /\ Parse = start
  /\ Readable(start) => trouble.killed \/ trouble.fails > 0

\* Nothing has failed since the cleanup began.
CleanupWorks == trouble.fails = IF trouble.killed THEN 0 ELSE 1

\* The killed command had put the candidate in force.
Exposed == trouble.killed /\ nat.jumps = <<chain>> /\ nat.gens[chain] \in {{}, target.rules}

\* What the cleanup finds, and what it has achieved.
NothingToUndo ==
  Readable(start) =>
    Parse \in IF trouble.killed THEN AfterCrash(start, target) ELSE AfterFailure(start, target)
ChainToUndo ==
  /\ start.mode = "managed" =>
       (Parse = start /\ chain \notin Jumped) \/ (nat.anchors = 1 /\ Exposed)
  /\ start.mode # "managed" =>
       nat.anchors = 0 /\ nat.jumps = <<>> /\ (nat.entry => trouble.killed)
EntryToUndo ==
  /\ start = Absent /\ nat.jumps = <<>> /\ (nat.anchors = 0 \/ trouble.killed)
  /\ ~trouble.killed /\ CleanupWorks /\ undo = <<>> => ~nat.entry
AnchorToUndo ==
  /\ start = Absent
  /\ nat.jumps = <<>> \/ Exposed
  /\ CleanupWorks /\ undo \in UndoEntry => nat.anchors = 0
  /\ ~trouble.killed /\ CleanupWorks /\ undo = <<>> => ~nat.entry
Leftover ==
  /\ created = {} => NothingToUndo
  /\ created # {} => target.mode = "managed" /\ chain \in Chains
  /\ created = {"chain"} => ChainToUndo
  /\ created = {"chain", "entry"} => EntryToUndo
  /\ created = {"chain", "entry", "anchor"} => AnchorToUndo

Undoing == pc = "undo" => created \in Created /\ UndoOK /\ Blame /\ Leftover

\* Interrupts are what the budget of interrupts goes to.
Interrupts ==
  /\ budget["cancel"] <= Budget["cancel"]
  /\ trouble.killed => budget["cancel"] < Budget["cancel"]

Calm ==
  /\ pc \in Running \cup {"idle", "undo"}
  /\ TableOK /\ LocalsOK /\ LoopsEnd /\ Interrupts
IInv == Calm /\ Undisrupted /\ Prepared /\ Candidate /\ Finishing /\ Undoing

--------------------------------------------------------------------------------
(* Tables and the commands that change them *)

LEMMA OneJump ==
  ASSUME NEW c
  PROVE  /\ Append(<<>>, c) = <<c>> /\ <<c>> # <<>> /\ <<c>>[1] = c /\ Len(<<c>>) = 1
         /\ {<<c>>[i] : i \in DOMAIN <<c>>} = {c}
<1>1. Append(<<>>, c) = <<c>> /\ <<c>> # <<>> /\ <<c>>[1] = c /\ Len(<<c>>) = 1
  OBVIOUS
<1>2. {<<c>>[i] : i \in DOMAIN <<c>>} = {c}
  OBVIOUS
<1> QED
  BY <1>1, <1>2

LEMMA OtherJump ==
  ASSUME NEW c, NEW j
  PROVE  <<c>> \o SubSeq(<<j>>, 2, Len(<<j>>)) = <<c>>
<1>1. SubSeq(<<j>>, 2, 1) = <<>>
  OBVIOUS
<1>2. <<c>> \o <<>> = <<c>>
  OBVIOUS
<1> QED
  BY <1>1, <1>2, Len(<<j>>) = 1

LEMMA JumpTo == ASSUME NEW c, nat.jumps = <<c>> PROVE Jumped = {c}
BY OneJump DEF Jumped

LEMMA NoJumps == nat.jumps = <<>> => Jumped = {}
BY DEF Jumped

\* The entry chain is empty or holds one jump.
LEMMA Jumps ==
  TableOK => \/ nat.jumps = <<>> /\ Jumped = {}
             \/ \E c \in Generations : nat.jumps = <<c>> /\ Jumped = {c}
<1> SUFFICES ASSUME TableOK, nat.jumps # <<>>
             PROVE  \E c \in Generations : nat.jumps = <<c>> /\ Jumped = {c}
  BY DEF Jumped
<1>1. PICK c \in Chains : nat.jumps = <<c>>
  BY DEF TableOK, Tables
<1>2. Jumped = {c}
  BY <1>1, OneJump DEF Jumped
<1> QED
  BY <1>1, <1>2 DEF TableOK

\* What snapshotFamily makes of a table.
Reading ==
  /\ Parse = IF Bare THEN Absent
             ELSE IF nat.anchors = 1 /\ nat.jumps # <<>> THEN Managed(nat.gens[nat.jumps[1]])
             ELSE Drift
  /\ Parse \in FamilyState

LEMMA ParseIs == TableOK => Reading
<1> SUFFICES ASSUME TableOK PROVE Reading
  OBVIOUS
<1> USE DEF Reading
<1>1. CASE nat.jumps = <<>>
  <2>1. Parse = IF Bare THEN Absent ELSE Drift
    BY <1>1 DEF Parse, Bare
  <2> QED
    BY <1>1, <2>1 DEF FamilyState, Absent, Drift
<1>2. CASE nat.jumps # <<>>
  <2>1. PICK c \in Generations : nat.jumps = <<c>> /\ Jumped = {c}
    BY <1>2, Jumps
  <2>2. nat.jumps[1] = c /\ Len(nat.jumps) = 1
    BY <2>1
  <2>3. nat.gens[c] \in SUBSET Rule
    BY DEF TableOK, Tables, GenMaps, Generations
  <2>4. nat.entry
    BY <1>2 DEF TableOK
  <2>5. Parse = IF nat.anchors = 1 THEN Managed(nat.gens[c]) ELSE Drift
    BY <2>1, <2>2, <2>4 DEF Parse
  <2> QED
    BY <1>2, <2>2, <2>3, <2>4, <2>5 DEF FamilyState, Managed, Drift, Bare
<1> QED
  BY <1>1, <1>2

\* A table with generations of its own and the rest of another one.
LEMMA WithGenerations ==
  ASSUME NEW D \in SUBSET Chains, NEW g \in [D -> SUBSET Rule], TableOK, Jumped \subseteq D,
         nat' = [nat EXCEPT !.gens = g]
  PROVE  /\ TableOK'
         /\ nat'.anchors = nat.anchors /\ nat'.entry = nat.entry /\ nat'.jumps = nat.jumps
         /\ nat'.gens = g /\ Generations' = D /\ Jumped' = Jumped
<1>1. g \in GenMaps
  BY DEF GenMaps
<1>2. nat' \in Tables
  BY <1>1 DEF TableOK, Tables
<1>3. /\ nat'.anchors = nat.anchors /\ nat'.entry = nat.entry /\ nat'.jumps = nat.jumps
      /\ nat'.gens = g /\ DOMAIN nat'.gens = D
  BY DEF TableOK, Tables
<1> QED
  BY <1>2, <1>3 DEF TableOK, Generations, Jumped

LEMMA Gens ==
  TableOK => Generations \in SUBSET Chains /\ nat.gens \in [Generations -> SUBSET Rule]
BY DEF TableOK, Tables, GenMaps, Generations

\* What the commands on a generation chain leave alone.
SameButGenerations ==
  /\ TableOK'
  /\ nat'.anchors = nat.anchors /\ nat'.entry = nat.entry /\ nat'.jumps = nat.jumps
  /\ Jumped' = Jumped

LEMMA AfterNewGeneration ==
  ASSUME TableOK, NEW c \in Chains, c \notin Generations, nat' = NewGeneration(c).nat
  PROVE  /\ SameButGenerations /\ Generations' = Generations \cup {c} /\ nat'.gens[c] = {}
         /\ \A d \in Generations : nat'.gens[d] = nat.gens[d]
<1> DEFINE g == [d \in Generations \cup {c} |-> IF d = c THEN {} ELSE nat.gens[d]]
<1>1. Jumped \subseteq Generations
  BY DEF TableOK
<1>2. g \in [Generations \cup {c} -> SUBSET Rule] /\ Generations \cup {c} \in SUBSET Chains
  BY Gens
<1>3. nat' = [nat EXCEPT !.gens = g]
  BY DEF NewGeneration
<1>4. g[c] = {} /\ \A d \in Generations : g[d] = nat.gens[d]
  OBVIOUS
<1> HIDE DEF g
<1> QED
  BY <1>1, <1>2, <1>3, <1>4, WithGenerations DEF SameButGenerations

LEMMA AfterChange ==
  ASSUME TableOK, NEW c \in Generations, NEW R \in SUBSET Rule, nat' = [nat EXCEPT !.gens[c] = R]
  PROVE  /\ SameButGenerations /\ Generations' = Generations /\ nat'.gens[c] = R
         /\ \A d \in Generations \ {c} : nat'.gens[d] = nat.gens[d]
<1> DEFINE g == [nat.gens EXCEPT ![c] = R]
<1>1. Jumped \subseteq Generations
  BY DEF TableOK
<1>2. g \in [Generations -> SUBSET Rule] /\ Generations \in SUBSET Chains
  BY Gens
<1>3. nat' = [nat EXCEPT !.gens = g]
  OBVIOUS
<1>4. g[c] = R /\ \A d \in Generations \ {c} : g[d] = nat.gens[d]
  BY Gens
<1> HIDE DEF g
<1> QED
  BY <1>1, <1>2, <1>3, <1>4, WithGenerations DEF SameButGenerations

LEMMA AfterAppendRule ==
  ASSUME TableOK, NEW c \in Generations, NEW r \in Rule, nat' = AppendRule(c, r).nat
  PROVE  /\ SameButGenerations /\ Generations' = Generations
         /\ nat'.gens[c] = nat.gens[c] \cup {r}
         /\ \A d \in Generations \ {c} : nat'.gens[d] = nat.gens[d]
<1>1. nat.gens[c] \cup {r} \in SUBSET Rule
  BY Gens
<1>2. nat' = [nat EXCEPT !.gens[c] = nat.gens[c] \cup {r}]
  BY DEF AppendRule
<1> QED
  BY <1>1, <1>2, AfterChange

LEMMA AfterFlushGeneration ==
  ASSUME TableOK, NEW c \in Generations, nat' = FlushGeneration(c).nat
  PROVE  /\ SameButGenerations /\ Generations' = Generations /\ nat'.gens[c] = {}
         /\ \A d \in Generations \ {c} : nat'.gens[d] = nat.gens[d]
<1>1. nat' = [nat EXCEPT !.gens[c] = {}] /\ {} \in SUBSET Rule
  BY DEF FlushGeneration
<1> QED
  BY <1>1, AfterChange

LEMMA AfterDeleteGeneration ==
  ASSUME TableOK, NEW c, c \notin Jumped, nat' = DeleteGeneration(c).nat
  PROVE  /\ SameButGenerations /\ Generations' = Generations \ {c}
         /\ \A d \in Generations \ {c} : nat'.gens[d] = nat.gens[d]
<1> DEFINE g == [d \in Generations \ {c} |-> nat.gens[d]]
<1>1. Jumped \subseteq Generations \ {c}
  BY DEF TableOK
<1>2. g \in [Generations \ {c} -> SUBSET Rule] /\ Generations \ {c} \in SUBSET Chains
  BY Gens
<1>3. nat' = [nat EXCEPT !.gens = g]
  BY DEF DeleteGeneration
<1>4. \A d \in Generations \ {c} : g[d] = nat.gens[d]
  OBVIOUS
<1> HIDE DEF g
<1> QED
  BY <1>1, <1>2, <1>3, <1>4, WithGenerations DEF SameButGenerations

\* What the commands on the anchor and the entry chain leave alone.
SameGenerations ==
  /\ TableOK'
  /\ nat'.gens = nat.gens /\ Generations' = Generations

LEMMA AfterNewEntry ==
  ASSUME TableOK, nat' = NewEntry.nat
  PROVE  /\ SameGenerations /\ nat'.anchors = nat.anchors /\ nat'.jumps = nat.jumps
         /\ nat'.entry /\ Jumped' = Jumped
<1>1. /\ nat' \in Tables /\ nat'.anchors = nat.anchors /\ nat'.jumps = nat.jumps
      /\ nat'.gens = nat.gens /\ nat'.entry = TRUE
  BY DEF TableOK, Tables, NewEntry
<1> QED
  BY <1>1 DEF SameGenerations, TableOK, Generations, Jumped

LEMMA AfterAddAnchor ==
  ASSUME TableOK, nat.entry, nat.anchors = 0, nat' = AddAnchor.nat
  PROVE  /\ SameGenerations /\ nat'.anchors = 1 /\ nat'.jumps = nat.jumps /\ nat'.entry
         /\ Jumped' = Jumped
<1>1. nat' = [nat EXCEPT !.anchors = 1]
  <2>1. nat' = [nat EXCEPT !.anchors = nat.anchors + 1]
    BY DEF AddAnchor
  <2>2. nat.anchors + 1 = 1
    OBVIOUS
  <2> QED
    BY <2>1, <2>2, Zenon
<1>2. /\ nat' \in Tables /\ nat'.anchors = 1 /\ nat'.jumps = nat.jumps
      /\ nat'.gens = nat.gens /\ nat'.entry = nat.entry
  <2>1. nat \in Tables /\ 1 \in 0..1
    BY DEF TableOK
  <2> QED
    BY <1>1, <2>1 DEF Tables
<1> QED
  BY <1>2 DEF SameGenerations, TableOK, Generations, Jumped

LEMMA AfterDeleteAnchor ==
  ASSUME TableOK, nat.anchors > 0, nat' = DeleteAnchor.nat
  PROVE  /\ SameGenerations /\ nat'.anchors = 0 /\ nat'.jumps = nat.jumps
         /\ nat'.entry = nat.entry /\ Jumped' = Jumped
<1>1. /\ nat' \in Tables /\ nat'.anchors = 0 /\ nat'.jumps = nat.jumps
      /\ nat'.gens = nat.gens /\ nat'.entry = nat.entry
  BY DEF TableOK, Tables, DeleteAnchor
<1> QED
  BY <1>1 DEF SameGenerations, TableOK, Generations, Jumped

\* AddJump to an empty entry chain, and ReplaceJump.
LEMMA AfterJump ==
  ASSUME TableOK, nat.entry, NEW c \in Generations,
         \/ nat' = AddJump(c).nat /\ nat.jumps = <<>>
         \/ nat' = ReplaceJump(c).nat /\ nat.jumps # <<>>
  PROVE  /\ SameGenerations /\ nat'.anchors = nat.anchors /\ nat'.entry
         /\ nat'.jumps = <<c>> /\ Jumped' = {c}
<1>1. nat' = [nat EXCEPT !.jumps = <<c>>]
  <2>1. CASE nat' = AddJump(c).nat /\ nat.jumps = <<>>
    BY <2>1, OneJump DEF AddJump
  <2>2. CASE nat' = ReplaceJump(c).nat /\ nat.jumps # <<>>
    <3>1. PICK j \in Generations : nat.jumps = <<j>>
      BY <2>2, Jumps
    <3>2. <<c>> \o SubSeq(nat.jumps, 2, Len(nat.jumps)) = <<c>>
      BY <3>1, OtherJump
    <3> QED
      BY <2>2, <3>2 DEF ReplaceJump
  <2> QED
    BY <2>1, <2>2
<1>2. c \in Chains
  BY Gens
<1>3. /\ nat' \in Tables /\ nat'.anchors = nat.anchors /\ nat'.jumps = <<c>>
      /\ nat'.gens = nat.gens /\ nat'.entry = nat.entry
  BY <1>1, <1>2 DEF TableOK, Tables
<1>4. Jumped' = {c}
  BY <1>3, OneJump DEF Jumped
<1> QED
  BY <1>3, <1>4 DEF SameGenerations, TableOK, Generations

LEMMA AfterFlushEntry ==
  ASSUME TableOK, nat' = FlushEntry.nat
  PROVE  /\ SameGenerations /\ nat'.anchors = nat.anchors /\ nat'.entry = nat.entry
         /\ nat'.jumps = <<>> /\ Jumped' = {}
<1>1. /\ nat' \in Tables /\ nat'.anchors = nat.anchors /\ nat'.jumps = <<>>
      /\ nat'.gens = nat.gens /\ nat'.entry = nat.entry
  BY DEF TableOK, Tables, FlushEntry
<1>2. Jumped' = {}
  BY <1>1 DEF Jumped
<1> QED
  BY <1>1, <1>2 DEF SameGenerations, TableOK, Generations

LEMMA AfterDeleteEntry ==
  ASSUME TableOK, nat.jumps = <<>>, nat.anchors = 0, nat' = DeleteEntry.nat
  PROVE  /\ SameGenerations /\ nat'.anchors = 0 /\ ~nat'.entry
         /\ nat'.jumps = <<>> /\ Jumped' = Jumped
<1>1. /\ nat' \in Tables /\ nat'.anchors = 0 /\ nat'.jumps = nat.jumps
      /\ nat'.gens = nat.gens /\ nat'.entry = FALSE
  BY DEF TableOK, Tables, DeleteEntry
<1> QED
  BY <1>1 DEF SameGenerations, TableOK, Generations, Jumped

--------------------------------------------------------------------------------
(* Short sequences of commands *)

Commands == {"flush chain", "delete chain", "delete anchor", "flush entry", "delete entry"}

LEMMA Concatenation ==
  ASSUME NEW s \in Seq(Commands), NEW t \in Seq(Commands)
  PROVE  \E u \in Seq(Commands) :
           /\ u = s \o t /\ Len(u) = Len(s) + Len(t)
           /\ \A i \in 1..Len(s) : u[i] = s[i]
           /\ \A i \in 1..Len(t) : u[Len(s) + i] = t[i]
<1> DEFINE u == s \o t
           m == Len(s)
           n == Len(t)
<1>1. /\ u \in Seq(Commands) /\ Len(u) = m + n
      /\ \A i \in 1..(m + n) : u[i] = IF i <= m THEN s[i] ELSE t[i - m]
  BY ConcatProperties
<1>2. m \in Nat /\ n \in Nat
  BY LenProperties
<1>3. u = s \o t
  OBVIOUS
<1> HIDE DEF u, m, n
<1>4. \A i \in 1..m : i \in 1..(m + n) /\ i <= m
  BY <1>2
<1>5. \A i \in 1..n : (m + i) \in 1..(m + n) /\ ~(m + i <= m) /\ (m + i) - m = i
  BY <1>2
<1>6. \A i \in 1..m : u[i] = s[i]
  BY <1>1, <1>4
<1>7. \A i \in 1..n : u[m + i] = t[i]
  BY <1>1, <1>5
<1> QED
  BY <1>1, <1>3, <1>6, <1>7 DEF m, n

LEMMA Two ==
  ASSUME NEW f \in Seq(Commands), Len(f) = 2, NEW a, NEW b,
         f[1] = a, f[2] = b
  PROVE  f = <<a, b>>
BY LenProperties

LEMMA TwoFrom1And1 ==
  ASSUME NEW s \in Seq(Commands), NEW t \in Seq(Commands), Len(s) = 1, Len(t) = 1
  PROVE  s \o t = <<s[1], t[1]>> /\ <<s[1], t[1]>> \in Seq(Commands)
<1>1. PICK u \in Seq(Commands) :
        /\ u = s \o t /\ Len(u) = Len(s) + Len(t)
        /\ \A i \in 1..Len(s) : u[i] = s[i]
        /\ \A i \in 1..Len(t) : u[Len(s) + i] = t[i]
  BY Concatenation
<1>2. Len(u) = 2 /\ u[1] = s[1]
  BY <1>1
<1>3. u[2] = t[1]
  BY <1>1
<1>4. u = <<s[1], t[1]>>
  BY <1>2, <1>3, Two
<1> QED
  BY <1>1, <1>4, Zenon

LEMMA Three ==
  ASSUME NEW f \in Seq(Commands), Len(f) = 3, NEW a, NEW b, NEW c,
         f[1] = a, f[2] = b, f[3] = c
  PROVE  f = <<a, b, c>>
BY LenProperties

LEMMA ThreeFrom2And1 ==
  ASSUME NEW s \in Seq(Commands), NEW t \in Seq(Commands), Len(s) = 2, Len(t) = 1
  PROVE  s \o t = <<s[1], s[2], t[1]>> /\ <<s[1], s[2], t[1]>> \in Seq(Commands)
<1>1. PICK u \in Seq(Commands) :
        /\ u = s \o t /\ Len(u) = Len(s) + Len(t)
        /\ \A i \in 1..Len(s) : u[i] = s[i]
        /\ \A i \in 1..Len(t) : u[Len(s) + i] = t[i]
  BY Concatenation
<1>2. Len(u) = 3 /\ u[1] = s[1] /\ u[2] = s[2]
  BY <1>1
<1>3. u[3] = t[1]
  BY <1>1
<1>4. u = <<s[1], s[2], t[1]>>
  BY <1>2, <1>3, Three
<1> QED
  BY <1>1, <1>4, Zenon

LEMMA Four ==
  ASSUME NEW f \in Seq(Commands), Len(f) = 4, NEW a, NEW b, NEW c, NEW d,
         f[1] = a, f[2] = b, f[3] = c, f[4] = d
  PROVE  f = <<a, b, c, d>>
BY LenProperties

LEMMA FourFrom2And2 ==
  ASSUME NEW s \in Seq(Commands), NEW t \in Seq(Commands), Len(s) = 2, Len(t) = 2
  PROVE  s \o t = <<s[1], s[2], t[1], t[2]>> /\ <<s[1], s[2], t[1], t[2]>> \in Seq(Commands)
<1>1. PICK u \in Seq(Commands) :
        /\ u = s \o t /\ Len(u) = Len(s) + Len(t)
        /\ \A i \in 1..Len(s) : u[i] = s[i]
        /\ \A i \in 1..Len(t) : u[Len(s) + i] = t[i]
  BY Concatenation
<1>2. Len(u) = 4 /\ u[1] = s[1] /\ u[2] = s[2]
  BY <1>1
<1>3. u[3] = t[1] /\ u[4] = t[2]
  BY <1>1
<1>4. u = <<s[1], s[2], t[1], t[2]>>
  BY <1>2, <1>3, Four
<1> QED
  BY <1>1, <1>4, Zenon

LEMMA Five ==
  ASSUME NEW f \in Seq(Commands), Len(f) = 5, NEW a, NEW b, NEW c, NEW d, NEW e,
         f[1] = a, f[2] = b, f[3] = c, f[4] = d, f[5] = e
  PROVE  f = <<a, b, c, d, e>>
BY LenProperties

LEMMA FiveFrom3And2 ==
  ASSUME NEW s \in Seq(Commands), NEW t \in Seq(Commands), Len(s) = 3, Len(t) = 2
  PROVE  s \o t = <<s[1], s[2], s[3], t[1], t[2]>>
         /\ <<s[1], s[2], s[3], t[1], t[2]>> \in Seq(Commands)
<1>1. PICK u \in Seq(Commands) :
        /\ u = s \o t /\ Len(u) = Len(s) + Len(t)
        /\ \A i \in 1..Len(s) : u[i] = s[i]
        /\ \A i \in 1..Len(t) : u[Len(s) + i] = t[i]
  BY Concatenation
<1>2. Len(u) = 5 /\ u[1] = s[1] /\ u[2] = s[2] /\ u[3] = s[3]
  BY <1>1
<1>3. u[4] = t[1] /\ u[5] = t[2]
  BY <1>1
<1>4. u = <<s[1], s[2], s[3], t[1], t[2]>>
  BY <1>2, <1>3, Five
<1> QED
  BY <1>1, <1>4, Zenon

LEMMA Single ==
  ASSUME NEW a \in Commands
  PROVE  <<a>> \in Seq(Commands) /\ Len(<<a>>) = 1 /\ <<a>>[1] = a
<1>1. Append(<<>>, a) = <<a>>
  OBVIOUS
<1>2. Append(<<>>, a) \in Seq(Commands)
  BY EmptySeq, AppendProperties
<1> QED
  BY <1>1, <1>2

LEMMA Pair ==
  ASSUME NEW a \in Commands, NEW b \in Commands
  PROVE  <<a, b>> \in Seq(Commands) /\ Len(<<a, b>>) = 2 /\ <<a, b>>[1] = a /\ <<a, b>>[2] = b
<1> DEFINE s == <<a>>
           t == <<b>>
<1>1. /\ s \in Seq(Commands) /\ Len(s) = 1 /\ s[1] = a
      /\ t \in Seq(Commands) /\ Len(t) = 1 /\ t[1] = b
  BY Single
<1> HIDE DEF s, t
<1>2. <<a, b>> \in Seq(Commands)
  BY <1>1, TwoFrom1And1
<1> QED
  BY <1>2

LEMMA UndoStepsAre ==
  /\ created = {} => UndoSteps = <<>>
  /\ created = {"chain"} => UndoSteps = <<"flush chain", "delete chain">>
  /\ created = {"chain", "entry"} =>
       UndoSteps = <<"flush chain", "delete chain", "flush entry", "delete entry">>
  /\ created = {"chain", "entry", "anchor"} =>
       UndoSteps = <<"flush chain", "delete chain", "delete anchor", "flush entry",
                     "delete entry">>
<1> DEFINE s == <<"flush chain", "delete chain">>
           t == <<"delete anchor">>
           u == <<"flush entry", "delete entry">>
           v == <<"flush chain", "delete chain", "delete anchor">>
<1>1. /\ "flush chain" \in Commands /\ "delete chain" \in Commands
      /\ "delete anchor" \in Commands
      /\ "flush entry" \in Commands /\ "delete entry" \in Commands
  BY DEF Commands
<1>2. s \in Seq(Commands) /\ Len(s) = 2
  BY <1>1, Pair, Zenon
<1>3. t \in Seq(Commands) /\ Len(t) = 1
  BY <1>1, Single, Zenon
<1>4. u \in Seq(Commands) /\ Len(u) = 2
  BY <1>1, Pair, Zenon
<1>5. /\ s[1] = "flush chain" /\ s[2] = "delete chain" /\ t[1] = "delete anchor"
      /\ u[1] = "flush entry" /\ u[2] = "delete entry"
  OBVIOUS
<1>6. /\ Len(v) = 3
      /\ v[1] = "flush chain" /\ v[2] = "delete chain" /\ v[3] = "delete anchor"
  OBVIOUS
<1>7. ASSUME NEW q \in Seq(Commands) PROVE <<>> \o q = q /\ q \o <<>> = q
  BY ConcatEmptySeq
<1> HIDE DEF s, t, u
<1>8. s \o t = v /\ v \in Seq(Commands)
  BY <1>2, <1>3, <1>5, ThreeFrom2And1
<1> HIDE DEF v
<1>9. v \o u = <<"flush chain", "delete chain", "delete anchor", "flush entry", "delete entry">>
  BY <1>4, <1>5, <1>6, <1>8, FiveFrom3And2
<1>10. s \o u = <<"flush chain", "delete chain", "flush entry", "delete entry">>
  BY <1>2, <1>4, <1>5, FourFrom2And2
<1>11. UndoSteps = (IF "chain" \in created THEN s ELSE <<>>)
                     \o (IF "anchor" \in created THEN t ELSE <<>>)
                     \o (IF "entry" \in created THEN u ELSE <<>>)
  BY Zenon DEF UndoSteps, s, t, u
<1>12. <<>> \in Seq(Commands)
  BY EmptySeq
<1>13. created = {} => UndoSteps = <<>>
  BY <1>7, <1>11, <1>12
<1>14. created = {"chain"} => UndoSteps = s
  <2>1. created = {"chain"} => UndoSteps = s \o <<>> \o <<>>
    BY <1>11
  <2> QED
    BY <2>1, <1>2, <1>7, Zenon
<1>15. created = {"chain", "entry"} => UndoSteps = s \o u
  <2>1. created = {"chain", "entry"} => UndoSteps = s \o <<>> \o u
    BY <1>11
  <2> QED
    BY <2>1, <1>2, <1>7, Zenon
<1>16. created = {"chain", "entry", "anchor"} => UndoSteps = v \o u
  <2>1. created = {"chain", "entry", "anchor"} => UndoSteps = s \o t \o u
    BY <1>11
  <2> QED
    BY <2>1, <1>8, Zenon
<1> QED
  BY <1>9, <1>10, <1>13, <1>14, <1>15, <1>16, Zenon DEF s

--------------------------------------------------------------------------------
(* The steps of a call *)

LEMMA WhereTo ==
  ASSUME NEW rest
  PROVE  /\ Filled(rest) = IF rest # {} THEN "append" ELSE IF managed THEN "switch"
                           ELSE "new entry"
         /\ Cleaned(rest) = IF rest # {} THEN "flush"
                            ELSE IF target = Absent /\ managed THEN "delete entry"
                            ELSE "return"
<1>1. Filled(rest) = IF rest # {} THEN "append" ELSE IF managed THEN "switch" ELSE "new entry"
  BY Zenon DEF Filled
<1>2. Cleaned(rest) = IF rest # {} THEN "flush"
                      ELSE IF target = Absent /\ managed THEN "delete entry" ELSE "return"
  BY Zenon DEF Cleaned
<1> QED
  BY <1>1, <1>2

LEMMA StartAbsent == ASSUME IInv, Readable(start), start.mode # "managed" PROVE start = Absent
BY DEF IInv, Calm, LocalsOK, FamilyState, Readable, Absent

LEMMA Targeted ==
  ASSUME IInv
  PROVE  /\ target \in FamilyState /\ target.rules \in SUBSET Rule
         /\ IsFiniteSet(target.rules)
         /\ target = Absent \/ (target.mode = "managed" /\ target = Managed(target.rules))
<1>1. target \in Targets \cup {Absent}
  BY DEF IInv, Calm, LocalsOK
<1>2. Absent.rules = {} /\ Absent \in FamilyState
  BY DEF Absent, FamilyState
<1>3. IsFiniteSet(target.rules)
  BY <1>1, <1>2, FiniteAssumption, FS_EmptySet
<1>4. target \in FamilyState /\ (target = Absent \/ target.mode = "managed")
  BY <1>1, <1>2, TargetsAssumption
<1> QED
  BY <1>3, <1>4 DEF FamilyState, Managed

LEMMA DifferentCleanups ==
  /\ {"chain"} # {} /\ {"chain"} # {"chain", "entry"} /\ {"chain"} # {"chain", "entry", "anchor"}
  /\ {"chain", "entry"} # {} /\ {"chain", "entry", "anchor"} # {}
  /\ {"chain", "entry"} # {"chain", "entry", "anchor"}
<1>1. "entry" \notin {"chain"} /\ "anchor" \notin {"chain", "entry"} /\ "chain" \notin {}
  OBVIOUS
<1> QED
  BY <1>1, Zenon

LEMMA Anchors ==
  TableOK => /\ nat.anchors = 0 \/ nat.anchors = 1
             /\ nat.anchors > 0 <=> nat.anchors = 1
BY DEF TableOK, Tables

LEMMA ModeIs ==
  ASSUME TableOK
  PROVE  /\ Parse = Absent <=> Bare
         /\ Parse.mode = "managed" =>
              /\ nat.anchors = 1 /\ nat.entry /\ nat.jumps # <<>>
              /\ \E c \in Generations :
                   nat.jumps = <<c>> /\ Jumped = {c} /\ Parse = Managed(nat.gens[c])
<1>1. /\ Absent.mode = "absent" /\ Drift.mode = "drift"
      /\ \A R : Managed(R).mode = "managed"
  BY DEF Absent, Drift, Managed
<1>2. Reading
  BY ParseIs
<1>3. Parse = Absent <=> Bare
  BY <1>1, <1>2 DEF Reading
<1>4. Parse.mode = "managed" =>
        nat.anchors = 1 /\ nat.jumps # <<>> /\ Parse = Managed(nat.gens[nat.jumps[1]])
  BY <1>1, <1>2 DEF Reading
<1>5. nat.jumps # <<>> =>
        \E c \in Generations : nat.jumps = <<c>> /\ Jumped = {c} /\ nat.jumps[1] = c
  BY Jumps
<1>6. nat.jumps # <<>> => nat.entry
  BY DEF TableOK
<1> QED
  BY <1>3, <1>4, <1>5, <1>6

LEMMA Loosened ==
  TableOK /\ nat.anchors = 0 /\ nat.entry => Parse = Drift
<1> SUFFICES ASSUME TableOK, nat.anchors = 0, nat.entry PROVE Parse = Drift
  OBVIOUS
<1>1. Reading /\ ~Bare /\ ~(nat.anchors = 1)
  BY ParseIs DEF Bare
<1> QED
  BY <1>1 DEF Reading

LEMMA LoosenedNext ==
  (TableOK /\ nat.anchors = 0 /\ nat.entry)' => (Parse = Drift)'
BY Loosened, PTL

LEMMA ParseNext == TableOK' => Reading'
BY ParseIs, PTL

LEMMA SameTable ==
  ASSUME UNCHANGED nat
  PROVE  /\ (TableOK => TableOK') /\ Parse' = Parse
         /\ Generations' = Generations /\ Jumped' = Jumped
         /\ (Bare' <=> Bare) /\ \A n \in Nat : Loose(n)' <=> Loose(n)
BY DEF TableOK, Parse, Generations, Jumped, Bare, Loose

LEMMA Hits ==
  ASSUME Calm, trouble = NoTrouble, FailOnce \/ KillOnce
  PROVE  /\ trouble' \in Troubles /\ budget' \in [Disturbances -> Nat] /\ Interrupts'
         /\ trouble'.killed \/ trouble'.fails > 0
         /\ FailOnce => ~trouble'.killed /\ trouble'.fails = 1
         /\ KillOnce => trouble'.killed /\ trouble'.fails = 0
<1> USE DEF Calm, LocalsOK, Interrupts
<1>1. budget \in [Disturbances -> Nat] /\ Budget["cancel"] \in Nat /\ ~trouble.killed
  BY BudgetAssumption DEF NoTrouble, Disturbances
<1>2. NoTrouble.fails = 0 /\ NoTrouble.killed = FALSE /\ NoTrouble.crashed = FALSE
  BY DEF NoTrouble
<1>3. CASE FailOnce
  <2>1. trouble' = [NoTrouble EXCEPT !.fails = 0 + 1] /\ 0 + 1 = 1
    BY <1>2, <1>3 DEF FailOnce
  <2>2. trouble' = [fails |-> 1, killed |-> FALSE, crashed |-> FALSE]
    <3>1. trouble' = [NoTrouble EXCEPT !.fails = 1]
      BY <2>1, Zenon
    <3> QED
      BY <3>1 DEF NoTrouble
  <2>3. budget' = [budget EXCEPT !["fail"] = @ - 1] /\ budget["fail"] > 0
    BY <1>3 DEF FailOnce, Spend
  <2>4. budget' \in [Disturbances -> Nat] /\ budget'["cancel"] = budget["cancel"]
    BY <1>1, <2>3 DEF Disturbances
  <2>5. ~KillOnce
    BY <2>2, <1>1 DEF KillOnce, Calm, LocalsOK, Troubles
  <2> QED
    BY <1>3, <2>2, <2>4, <2>5 DEF Troubles
<1>4. CASE KillOnce
  <2>1. trouble' = [NoTrouble EXCEPT !.killed = TRUE]
    BY <1>4 DEF KillOnce
  <2>2. trouble' = [fails |-> 0, killed |-> TRUE, crashed |-> FALSE]
    BY <2>1 DEF NoTrouble
  <2>3. budget' = [budget EXCEPT !["cancel"] = @ - 1] /\ budget["cancel"] > 0
    BY <1>4 DEF KillOnce, Spend
  <2>4. budget' \in [Disturbances -> Nat] /\ budget'["cancel"] < budget["cancel"]
    BY <1>1, <2>3 DEF Disturbances
  <2>5. budget["cancel"] \in Nat /\ budget'["cancel"] \in Nat
    BY <1>1, <2>4 DEF Disturbances
  <2>6. ~FailOnce
    BY <2>2, <1>2 DEF FailOnce
  <2>7. Interrupts'
    BY <1>1, <2>4, <2>5
  <2> QED
    BY <1>4, <2>2, <2>4, <2>6, <2>7 DEF Troubles
<1> QED
  BY <1>3, <1>4

\* What the deferred cleanup starts from.
LEMMA Abandoned ==
  ASSUME IInv, pc \in Running, Abandon, TableOK', trouble' \in Troubles, Interrupts',
         budget' \in [Disturbances -> Nat], IsFiniteSet(Generations'), created \in Created,
         Blame', Leftover'
  PROVE  IInv'
<1> USE DEF Abandon, locals
<1>1. Calm'
  BY DEF IInv, Calm, LocalsOK, LoopsEnd
<1>2. UndoOK'
  <2>1. /\ <<>> \notin UndoAll
        /\ <<"flush chain", "delete chain", "delete anchor", "flush entry", "delete entry">>
             \in UndoAll
    BY DEF UndoAll
  <2> QED
    BY <2>1, UndoStepsAre DEF UndoOK, Created
<1>3. Undisrupted' /\ Prepared' /\ Candidate' /\ Finishing'
  BY DEF Undisrupted, Prepared, Candidate, Finishing, Running, Building, Dismantling, Cleaning
<1>4. Undoing'
  BY <1>2 DEF Undoing
<1> QED
  BY <1>1, <1>3, <1>4 DEF IInv

\* A command that failed or was killed, after the snapshot.
LEMMA Stopped ==
  ASSUME IInv, pc \in Running, Readable(start), Abandon, FailOnce \/ KillOnce,
         TableOK', IsFiniteSet(Generations'), created \in Created, Leftover'
  PROVE  IInv'
<1>1. trouble = NoTrouble
  BY DEF IInv, Undisrupted
<1>2. /\ trouble' \in Troubles /\ budget' \in [Disturbances -> Nat] /\ Interrupts'
      /\ trouble'.killed \/ trouble'.fails > 0
  BY <1>1, Hits DEF IInv
<1>3. Blame'
  BY <1>2 DEF Blame, Abandon
<1> QED
  BY <1>2, <1>3, Abandoned

LEMMA BeginIInv ==
  ASSUME IInv, NEW t \in Targets, Begin(t)
  PROVE  IInv'
<1> USE DEF Begin, At
<1>1. UNCHANGED nat
  OBVIOUS
<1>2. Calm'
  BY SameTable, ParseIs DEF Reading, IInv, Calm, LocalsOK, LoopsEnd, Interrupts, Running
<1>3. Undisrupted' /\ Prepared' /\ Candidate' /\ Finishing' /\ Undoing'
  BY SameTable DEF IInv, Undisrupted, Prepared, Candidate, Finishing, Undoing, Running, Building,
    Dismantling, Cleaning
<1> QED
  BY <1>2, <1>3 DEF IInv

LEMMA SnapshotIInv ==
  ASSUME IInv, Snapshot
  PROVE  IInv'
<1> USE DEF At
<1>1. /\ pc = "snapshot" /\ pc \in Running /\ Parse = start /\ trouble = NoTrouble
      /\ created = {} /\ undo = <<>> /\ TableOK /\ IsFiniteSet(Generations)
  BY DEF Snapshot, IInv, Calm, LoopsEnd, Undisrupted, Prepared, Running
<1>2. UNCHANGED nat
  BY DEF Snapshot, Run, Only
<1>3. /\ TableOK' /\ Parse' = Parse /\ Generations' = Generations /\ Jumped' = Jumped
      /\ (Bare' <=> Bare)
  BY <1>1, <1>2, SameTable
<1> DEFINE Found ==
             /\ managed' = (Parse.mode = "managed")
             /\ obsolete' = Obsolete
             /\ pc' = CASE target # Absent -> "new chain"
                        [] target = Absent /\ managed' -> "delete anchor"
                        [] target = Absent /\ ~managed' /\ Obsolete # {} -> "flush"
                        [] OTHER -> "return"
             /\ UNCHANGED <<target, chain, todo, created, undo, start, last>>
<1>4. CASE ~Readable(start) /\ Abandon /\ Undisturbed
  <2>1. Blame' /\ Leftover'
    BY <1>1, <1>3, <1>4 DEF Blame, Leftover, NothingToUndo, Abandon, locals
  <2> QED
    BY <1>1, <1>3, <1>4, <2>1, Abandoned DEF Undisturbed, IInv, Calm, LocalsOK, Created,
      Interrupts
<1>5. CASE Abandon /\ (FailOnce \/ KillOnce)
  <2>1. start \in AfterFailure(start, target) /\ start \in AfterCrash(start, target)
    BY DEF AfterFailure, AfterCrash
  <2>2. Blame'
    BY <1>1, <1>3, <1>5, Hits DEF IInv, Blame, Abandon, locals
  <2>3. Leftover'
    BY <1>1, <1>3, <1>5, <2>1 DEF Leftover, NothingToUndo, Abandon, locals
  <2> QED
    BY <1>1, <1>3, <1>5, <2>2, <2>3, Hits, Abandoned DEF Created, IInv
<1>6. CASE Undisturbed /\ Readable(start) /\ Found
  <2>1. /\ managed' = (start.mode = "managed") /\ obsolete' = Generations
        /\ UNCHANGED <<target, chain, todo, created, undo, trouble, budget, start, last>>
    BY <1>1, <1>6 DEF Obsolete, Undisturbed
  <2>2. pc' = IF target # Absent THEN "new chain" ELSE IF managed' THEN "delete anchor"
              ELSE IF Generations # {} THEN "flush" ELSE "return"
    BY <1>6, Zenon DEF Obsolete
  <2> HIDE DEF Found
  <2>3. ASSUME ~managed', target = Absent
        PROVE  Bare /\ Jumped = {} /\ Parse = Absent
    <3>1. Parse = Absent
      BY <1>1, <1>6, <2>1, <2>3, StartAbsent
    <3>2. Bare
      BY <1>1, <3>1, ParseIs DEF Reading, Absent, Managed, Drift
    <3>3. nat.jumps = <<>>
      BY <1>1, <3>2 DEF TableOK, Bare
    <3> QED
      BY <3>1, <3>2, <3>3 DEF Jumped
  <2>4. Calm'
    BY <1>1, <1>3, <2>1, <2>2 DEF IInv, Calm, LocalsOK, LoopsEnd, Interrupts, Running, Building,
      Dismantling, Cleaning, TableOK, Tables, GenMaps, Generations
  <2>5. Undisrupted' /\ Prepared'
    BY <1>1, <1>3, <1>6, <2>1, <2>2, Targeted DEF Undisrupted, Prepared, Running, Building,
      Dismantling, Cleaning
  <2>6. Candidate' /\ Finishing' /\ Undoing'
    BY <1>1, <1>3, <1>6, <2>1, <2>2, <2>3 DEF Candidate, Finishing, Undoing, Building,
      Dismantling, Cleaning
  <2> QED
    BY <2>4, <2>5, <2>6 DEF IInv
<1>7. \/ Undisturbed /\ Readable(Parse) /\ Found
      \/ (trouble.killed \/ ~Readable(Parse)) /\ Undisturbed /\ Abandon
      \/ (FailOnce \/ KillOnce) /\ Abandon
  BY Zenon DEF Snapshot, Run
<1> QED
  BY <1>1, <1>4, <1>5, <1>6, <1>7 DEF NoTrouble

\* A command on a generation nothing jumps to is not seen.
LEMMA StillParses ==
  ASSUME TableOK, SameButGenerations, \A d \in Jumped : nat'.gens[d] = nat.gens[d]
  PROVE  Parse' = Parse /\ (Bare' <=> Bare) /\ \A n \in Nat : Loose(n)' <=> Loose(n)
<1>1. /\ nat'.anchors = nat.anchors /\ nat'.entry = nat.entry /\ nat'.jumps = nat.jumps
      /\ Reading /\ Reading'
  BY ParseIs, ParseNext DEF SameButGenerations
<1>2. (Bare' <=> Bare) /\ \A n \in Nat : Loose(n)' <=> Loose(n)
  BY <1>1 DEF Bare, Loose
<1>3. CASE nat.jumps = <<>>
  BY <1>1, <1>2, <1>3 DEF Reading
<1>4. CASE nat.jumps # <<>>
  <2>1. PICK c \in Generations : nat.jumps = <<c>> /\ Jumped = {c}
    BY <1>4, Jumps
  <2>2. nat.jumps[1] = c /\ nat'.gens[c] = nat.gens[c]
    BY <2>1
  <2> QED
    BY <1>1, <1>2, <2>2 DEF Reading
<1> QED
  BY <1>2, <1>3, <1>4

LEMMA NewChainIInv ==
  ASSUME IInv, NewChain
  PROVE  IInv'
<1> USE DEF At
<1>1. /\ pc = "new chain" /\ pc \in Running /\ Parse = start /\ trouble = NoTrouble
      /\ created = {} /\ undo = <<>> /\ TableOK /\ IsFiniteSet(Generations) /\ Readable(start)
      /\ target.mode = "managed" /\ managed = (start.mode = "managed")
      /\ obsolete = Generations
  BY DEF NewChain, IInv, Calm, LoopsEnd, Undisrupted, Prepared, Running
<1>2. PICK c \in Chains \ Generations :
        Run(NewGeneration(c),
            /\ chain' = c
            /\ todo' = target.rules
            /\ created' = {"chain"}
            /\ Go(Filled(target.rules))
            /\ UNCHANGED obsolete,
            Abandon)
  BY DEF NewChain
<1>3. Jumped \subseteq Generations
  BY <1>1 DEF TableOK
<1>4. ASSUME nat' = NewGeneration(c).nat
      PROVE  /\ SameButGenerations /\ Generations' = Generations \cup {c} /\ nat'.gens[c] = {}
             /\ Parse' = Parse /\ (Bare' <=> Bare) /\ IsFiniteSet(Generations') /\ TableOK'
  <2>1. /\ SameButGenerations /\ Generations' = Generations \cup {c} /\ nat'.gens[c] = {}
        /\ \A d \in Generations : nat'.gens[d] = nat.gens[d]
    BY <1>1, <1>4, AfterNewGeneration
  <2> QED
    BY <1>1, <1>3, <2>1, StillParses, FS_AddElement DEF SameButGenerations
<1>5. CASE Abandon /\ (FailOnce \/ KillOnce) /\ (UNCHANGED nat \/ nat' = NewGeneration(c).nat)
  <2>1. TableOK' /\ Parse' = start /\ IsFiniteSet(Generations')
    BY <1>1, <1>4, <1>5, SameTable
  <2>2. start \in AfterFailure(start, target) /\ start \in AfterCrash(start, target)
    BY DEF AfterFailure, AfterCrash
  <2>3. Leftover'
    BY <1>1, <1>5, <2>1, <2>2 DEF Leftover, NothingToUndo, Abandon, locals
  <2> QED
    BY <1>1, <1>5, <2>1, <2>3, Stopped DEF Created
<1>6. CASE /\ nat' = NewGeneration(c).nat /\ Undisturbed
           /\ chain' = c /\ todo' = target.rules /\ created' = {"chain"}
           /\ Go(Filled(target.rules)) /\ UNCHANGED obsolete
  <2>1. /\ pc' = IF target.rules # {} THEN "append" ELSE IF managed THEN "switch" ELSE "new entry"
        /\ UNCHANGED <<target, managed, undo, start, last, trouble, budget>>
    BY <1>6, WhereTo DEF Go, Undisturbed
  <2>2. c \notin Jumped'
    BY <1>3, <1>4, <1>6 DEF SameButGenerations
  <2>3. IsFiniteSet(target.rules) /\ target.rules \in SUBSET Rule
    BY Targeted
  <2>4. Calm'
    BY <1>1, <1>4, <1>6, <2>1, <2>3 DEF IInv, Calm, LocalsOK, LoopsEnd, Interrupts, Running,
      Building
  <2>5. Undisrupted' /\ Prepared'
    BY <1>1, <1>4, <1>6, <2>1 DEF Undisrupted, Prepared, Running, Building, Dismantling, Cleaning
  <2>6. Candidate' /\ Finishing' /\ Undoing'
    BY <1>1, <1>4, <1>6, <2>1, <2>2 DEF Candidate, Finishing, Undoing, Building, Dismantling,
      Cleaning
  <2> QED
    BY <2>4, <2>5, <2>6 DEF IInv
<1>7. NewGeneration(c).ok /\ ~trouble.killed
  BY <1>1 DEF NewGeneration, NoTrouble
<1> QED
  BY <1>2, <1>5, <1>6, <1>7, Zenon DEF Run, Only

\* The candidate is being filled: the rest of the table is as the call found it.
LEMMA Filling ==
  ASSUME IInv, pc \in {"append", "switch", "new entry"}
  PROVE  /\ pc \in Running /\ Parse = start /\ trouble = NoTrouble /\ Readable(start)
         /\ created = {"chain"} /\ undo = <<>> /\ TableOK /\ IsFiniteSet(Generations)
         /\ target.mode = "managed" /\ managed = (start.mode = "managed")
         /\ chain \in Generations /\ chain \notin obsolete \cup Jumped /\ chain \in Chains
         /\ Generations = obsolete \cup {chain}
         /\ todo \subseteq target.rules /\ nat.gens[chain] = target.rules \ todo
         /\ start.mode # "managed" => Bare /\ nat.jumps = <<>>
<1>1. /\ pc \in Running /\ Parse = start /\ trouble = NoTrouble /\ Readable(start)
      /\ created = {"chain"} /\ undo = <<>> /\ TableOK /\ IsFiniteSet(Generations)
      /\ target.mode = "managed" /\ managed = (start.mode = "managed")
      /\ chain \in Generations /\ chain \notin obsolete \cup Jumped
      /\ Generations = obsolete \cup {chain}
      /\ todo \subseteq target.rules /\ nat.gens[chain] = target.rules \ todo
  BY DEF IInv, Calm, LoopsEnd, Undisrupted, Prepared, Candidate, Running, Building
<1>2. ASSUME start.mode # "managed" PROVE Bare /\ nat.jumps = <<>>
  <2>1. Parse = Absent
    BY <1>1, <1>2, StartAbsent
  <2>2. Bare
    BY <1>1, <2>1, ModeIs
  <2> QED
    BY <1>1, <2>2 DEF TableOK, Bare
<1> QED
  BY <1>1, <1>2, Gens

\* The cleanup that removes the candidate alone, nothing else being touched.
LEMMA OnlyChain ==
  ASSUME IInv, pc \in {"append", "switch", "new entry"}, Abandon, TableOK', Parse' = Parse,
         nat'.anchors = nat.anchors, nat'.entry = nat.entry, nat'.jumps = nat.jumps
  PROVE  Leftover'
<1>1. Jumped' = Jumped
  BY DEF Jumped
<1>2. /\ start' = start /\ target' = target /\ created' = {"chain"} /\ chain' = chain
  BY Filling DEF Abandon, locals
<1>3. start.mode # "managed" => nat.anchors = 0 /\ ~nat.entry /\ nat.jumps = <<>>
  BY Filling DEF Bare
<1>4. ChainToUndo'
  BY <1>1, <1>2, <1>3, Filling DEF ChainToUndo
<1>5. target.mode = "managed" /\ chain \in Chains
  BY Filling
<1> QED
  BY <1>2, <1>4, <1>5, DifferentCleanups DEF Leftover

LEMMA AppendOneIInv ==
  ASSUME IInv, AppendOne
  PROVE  IInv'
<1> USE DEF At
<1>1. pc = "append"
  BY DEF AppendOne
<1>2. PICK r \in todo :
        Run(AppendRule(chain, r),
            /\ todo' = todo \ {r}
            /\ Go(Filled(todo \ {r}))
            /\ UNCHANGED <<chain, obsolete, created>>,
            Abandon)
  BY DEF AppendOne
<1>3. ASSUME nat' = AppendRule(chain, r).nat
      PROVE  /\ SameButGenerations /\ Generations' = Generations
             /\ nat'.gens[chain] = nat.gens[chain] \cup {r}
             /\ Parse' = Parse /\ (Bare' <=> Bare) /\ TableOK'
  <2>1. r \in Rule
    BY DEF IInv, Calm, LocalsOK
  <2>2. /\ SameButGenerations /\ Generations' = Generations
        /\ nat'.gens[chain] = nat.gens[chain] \cup {r}
        /\ \A d \in Generations \ {chain} : nat'.gens[d] = nat.gens[d]
    BY <1>1, <1>3, <2>1, Filling, AfterAppendRule
  <2> QED
    BY <1>1, <2>2, Filling, StillParses DEF SameButGenerations, TableOK
<1>4. CASE Abandon /\ (FailOnce \/ KillOnce) /\ (UNCHANGED nat \/ nat' = AppendRule(chain, r).nat)
  <2>1. /\ TableOK' /\ Parse' = Parse /\ IsFiniteSet(Generations')
        /\ nat'.anchors = nat.anchors /\ nat'.entry = nat.entry /\ nat'.jumps = nat.jumps
    BY <1>1, <1>3, <1>4, SameTable, Filling DEF SameButGenerations
  <2> QED
    BY <1>1, <1>4, <2>1, Filling, OnlyChain, Stopped DEF Created
<1>5. CASE /\ nat' = AppendRule(chain, r).nat /\ Undisturbed
           /\ todo' = todo \ {r} /\ Go(Filled(todo \ {r}))
           /\ UNCHANGED <<chain, obsolete, created>>
  <2>1. /\ pc' = IF todo' # {} THEN "append" ELSE IF managed THEN "switch" ELSE "new entry"
        /\ UNCHANGED <<target, managed, undo, start, last, trouble, budget>>
    BY <1>5, WhereTo DEF Go, Undisturbed
  <2>2. IsFiniteSet(todo') /\ todo' \subseteq todo
    BY <1>5, FS_RemoveElement DEF IInv, Calm, LoopsEnd
  <2>3. nat'.gens[chain] = target.rules \ todo'
    BY <1>1, <1>3, <1>5, Filling
  <2>4. Calm'
    BY <1>1, <1>3, <1>5, <2>1, <2>2 DEF IInv, Calm, LocalsOK, LoopsEnd, Interrupts, Running,
      Building
  <2>5. Undisrupted' /\ Prepared'
    BY <1>1, <1>3, <1>5, <2>1, Filling DEF Undisrupted, Prepared, Running, Building,
      Dismantling, Cleaning
  <2>6. Candidate' /\ Finishing' /\ Undoing'
    BY <1>1, <1>3, <1>5, <2>1, <2>2, <2>3, Filling DEF Candidate, Finishing, Undoing, Building,
      Dismantling, Cleaning, SameButGenerations
  <2> QED
    BY <2>4, <2>5, <2>6 DEF IInv
<1>6. chain \in Generations /\ trouble = NoTrouble
  BY <1>1, Filling
<1>7. AppendRule(chain, r).ok /\ ~trouble.killed
  BY <1>6 DEF AppendRule, NoTrouble
<1> QED
  BY <1>2, <1>4, <1>5, <1>7, Zenon DEF Run, Only

\* An entry chain is being built: there was none.
LEMMA Entering ==
  ASSUME IInv, pc \in {"add anchor", "activate"}
  PROVE  /\ pc \in Running /\ start = Absent /\ trouble = NoTrouble /\ Readable(start)
         /\ undo = <<>> /\ TableOK /\ IsFiniteSet(Generations) /\ managed = FALSE
         /\ managed = (start.mode = "managed")
         /\ target.mode = "managed" /\ target = Managed(target.rules)
         /\ chain \in Generations /\ chain \notin obsolete \cup Jumped /\ chain \in Chains
         /\ Generations = obsolete \cup {chain} /\ todo = {} /\ nat.gens[chain] = target.rules
         /\ pc = "add anchor" => created = {"chain", "entry"} /\ Loose(0)
         /\ pc = "activate" => created = {"chain", "entry", "anchor"} /\ Loose(1)
<1>1. /\ pc \in Running /\ trouble = NoTrouble /\ Readable(start)
      /\ undo = <<>> /\ TableOK /\ IsFiniteSet(Generations)
      /\ target.mode = "managed" /\ managed = FALSE /\ start.mode # "managed"
      /\ managed = (start.mode = "managed")
      /\ chain \in Generations /\ chain \notin obsolete \cup Jumped
      /\ Generations = obsolete \cup {chain} /\ todo = {} /\ nat.gens[chain] = target.rules
      /\ pc = "add anchor" => created = {"chain", "entry"} /\ Loose(0)
      /\ pc = "activate" => created = {"chain", "entry", "anchor"} /\ Loose(1)
  BY DEF IInv, Calm, LocalsOK, LoopsEnd, Undisrupted, Prepared, Candidate, Running, Building
<1>2. Absent.mode = "absent"
  BY DEF Absent
<1> QED
  BY <1>1, <1>2, Gens, StartAbsent, Targeted

LEMMA NewEntryIInv ==
  ASSUME IInv, Create("new entry", NewEntry, "entry", "add anchor")
  PROVE  IInv'
<1> USE DEF At
<1>1. /\ pc = "new entry" /\ managed = FALSE /\ todo = {}
  BY DEF Create, IInv, Calm, LocalsOK, Candidate, Building
<1>2. /\ Bare /\ nat.jumps = <<>> /\ start = Absent /\ Absent.mode = "absent"
  BY <1>1, Filling, StartAbsent DEF Absent
<1>3. ASSUME nat' = NewEntry.nat
      PROVE  /\ TableOK' /\ nat'.gens = nat.gens /\ Generations' = Generations
             /\ nat'.anchors = 0 /\ nat'.entry /\ nat'.jumps = <<>> /\ Jumped' = Jumped
  BY <1>1, <1>2, <1>3, Filling, AfterNewEntry DEF SameGenerations, Bare
<1>4. CASE Abandon /\ (FailOnce \/ KillOnce) /\ UNCHANGED nat
  BY <1>1, <1>4, SameTable, Filling, OnlyChain, Stopped DEF Created
<1>5. CASE Abandon /\ KillOnce /\ nat' = NewEntry.nat
  <2>1. /\ start' = start /\ target' = target /\ created' = {"chain"} /\ chain' = chain
        /\ trouble'.killed
    BY <1>1, <1>5, Filling, Hits DEF Abandon, locals, IInv
  <2>2. target.mode = "managed" /\ chain \in Chains
    BY <1>1, Filling
  <2>3. ChainToUndo'
    BY <1>2, <1>3, <1>5, <2>1 DEF ChainToUndo
  <2>4. Leftover'
    BY <2>1, <2>2, <2>3, DifferentCleanups DEF Leftover
  <2> QED
    BY <1>1, <1>3, <1>5, <2>4, Filling, Stopped DEF Created
<1>6. CASE /\ nat' = NewEntry.nat /\ Undisturbed /\ created' = created \cup {"entry"}
           /\ Go("add anchor") /\ UNCHANGED <<chain, todo, obsolete>>
  <2>1. /\ pc' = "add anchor" /\ created' = {"chain", "entry"}
        /\ UNCHANGED <<target, managed, undo, start, last, trouble, budget>>
    BY <1>1, <1>6, Filling DEF Go, Undisturbed
  <2>2. Loose(0)'
    BY <1>3, <1>6 DEF Loose
  <2>3. Calm'
    BY <1>3, <1>6, <2>1 DEF IInv, Calm, LocalsOK, LoopsEnd, Interrupts, Running, Building
  <2>4. Undisrupted' /\ Prepared'
    BY <1>1, <1>3, <1>6, <2>1, Filling DEF Undisrupted, Prepared, Running, Building,
      Dismantling, Cleaning
  <2>5. Candidate' /\ Finishing' /\ Undoing'
    BY <1>1, <1>3, <1>6, <2>1, <2>2, Filling DEF Candidate, Finishing, Undoing, Building,
      Dismantling, Cleaning
  <2> QED
    BY <2>3, <2>4, <2>5 DEF IInv
<1>7. ~nat.entry /\ trouble = NoTrouble
  BY <1>1, <1>2, Filling DEF Bare
<1>8. NewEntry.ok /\ ~trouble.killed
  BY <1>7 DEF NewEntry, NoTrouble
<1>9. Run(NewEntry,
          /\ created' = created \cup {"entry"}
          /\ Go("add anchor")
          /\ UNCHANGED <<chain, todo, obsolete>>,
          Abandon)
  BY DEF Create
<1> QED
  BY <1>4, <1>5, <1>6, <1>8, <1>9, Zenon DEF Run, Only

LEMMA AddAnchorIInv ==
  ASSUME IInv, Create("add anchor", AddAnchor, "anchor", "activate")
  PROVE  IInv'
<1> USE DEF At
<1>1. pc = "add anchor"
  BY DEF Create
<1>2. created = {"chain", "entry"} /\ nat.anchors = 0 /\ nat.entry /\ nat.jumps = <<>>
  BY <1>1, Entering DEF Loose
<1>3. ASSUME nat' = AddAnchor.nat
      PROVE  /\ TableOK' /\ nat'.gens = nat.gens /\ Generations' = Generations
             /\ nat'.anchors = 1 /\ nat'.entry /\ nat'.jumps = <<>> /\ Jumped' = Jumped
  BY <1>1, <1>2, <1>3, Entering, AfterAddAnchor DEF SameGenerations
<1>4. CASE /\ Abandon
           /\ \/ FailOnce /\ UNCHANGED nat
              \/ KillOnce /\ (UNCHANGED nat \/ nat' = AddAnchor.nat)
  <2>1. /\ start' = start /\ target' = target /\ created' = {"chain", "entry"} /\ chain' = chain
        /\ undo' = UndoSteps
    BY <1>2, <1>4 DEF Abandon, locals
  <2>2. undo' # <<>>
    <3>1. undo' = <<"flush chain", "delete chain", "flush entry", "delete entry">>
      BY <1>2, <2>1, UndoStepsAre, Zenon
    <3> QED
      BY <3>1
  <2>3. KillOnce => trouble'.killed
    BY <1>1, Entering, Hits DEF IInv
  <2>4. /\ TableOK' /\ IsFiniteSet(Generations') /\ nat'.jumps = <<>>
        /\ nat'.anchors = 0 \/ trouble'.killed
    <3>1. CASE UNCHANGED nat
      <4>1. nat'.anchors = 0 /\ nat'.jumps = <<>>
        BY <1>2, <3>1
      <4>2. TableOK' /\ IsFiniteSet(Generations')
        BY <1>1, <3>1, Entering, SameTable
      <4> QED
        BY <4>1, <4>2
    <3>2. CASE KillOnce /\ nat' = AddAnchor.nat
      BY <1>1, <1>3, <2>3, <3>2, Entering
    <3> QED
      BY <1>4, <3>1, <3>2
  <2>5. EntryToUndo'
    BY <1>1, <2>1, <2>2, <2>4, Entering DEF EntryToUndo
  <2>6. Leftover'
    BY <1>1, <2>1, <2>5, Entering, DifferentCleanups DEF Leftover
  <2> QED
    BY <1>1, <1>2, <1>4, <2>4, <2>6, Entering, Stopped DEF Created
<1>5. CASE /\ nat' = AddAnchor.nat /\ Undisturbed /\ created' = created \cup {"anchor"}
           /\ Go("activate") /\ UNCHANGED <<chain, todo, obsolete>>
  <2>1. /\ pc' = "activate" /\ created' = {"chain", "entry", "anchor"}
        /\ UNCHANGED <<target, managed, undo, start, last, trouble, budget>>
    BY <1>2, <1>5 DEF Go, Undisturbed
  <2>2. Loose(1)'
    BY <1>3, <1>5 DEF Loose
  <2>3. Calm'
    BY <1>3, <1>5, <2>1 DEF IInv, Calm, LocalsOK, LoopsEnd, Interrupts, Running, Building
  <2>4. Undisrupted' /\ Prepared'
    BY <1>1, <1>3, <1>5, <2>1, Entering DEF Undisrupted, Prepared, Running, Building,
      Dismantling, Cleaning,
      Absent
  <2>5. Candidate' /\ Finishing' /\ Undoing'
    BY <1>1, <1>3, <1>5, <2>1, <2>2, Entering DEF Candidate, Finishing, Undoing, Building,
      Dismantling, Cleaning
  <2> QED
    BY <2>3, <2>4, <2>5 DEF IInv
<1>6. trouble = NoTrouble
  BY <1>1, Entering
<1>7. AddAnchor.ok /\ ~trouble.killed
  BY <1>2, <1>6 DEF AddAnchor, NoTrouble
<1>8. Run(AddAnchor,
          /\ created' = created \cup {"anchor"}
          /\ Go("activate")
          /\ UNCHANGED <<chain, todo, obsolete>>,
          Abandon)
  BY DEF Create
<1> QED
  BY <1>4, <1>5, <1>7, <1>8, Zenon DEF Run, Only

\* The candidate is in force, and nothing of it would be undone any more.
LEMMA Enforced ==
  ASSUME IInv, pc \in {"activate", "switch"}, TableOK', Undisturbed, Go(Cleaned(obsolete)),
         created' = {}, UNCHANGED <<chain, todo, obsolete>>,
         Generations' = obsolete \cup {chain}, Generations' = Generations, chain \notin obsolete,
         Jumped' = {chain}, Readable(start), target.mode = "managed",
         Parse' = target, managed = (start.mode = "managed"), undo = <<>>, trouble = NoTrouble
  PROVE  IInv'
<1> USE DEF Go, Undisturbed
<1>1. target # Absent
  BY DEF Absent
<1>2. pc' = IF obsolete # {} THEN "flush" ELSE "return"
  BY <1>1, WhereTo
<1>3. Calm'
  BY <1>2 DEF IInv, Calm, LocalsOK, LoopsEnd, Interrupts, Running, Cleaning
<1>4. Undisrupted' /\ Prepared'
  BY <1>2 DEF Undisrupted, Prepared, Running, Building, Dismantling, Cleaning
<1>5. Candidate' /\ Finishing' /\ Undoing'
  BY <1>1, <1>2 DEF Candidate, Finishing, Undoing, Building, Dismantling, Cleaning
<1> QED
  BY <1>3, <1>4, <1>5 DEF IInv

LEMMA ActivateIInv ==
  ASSUME IInv, Enforce("activate", AddJump(chain))
  PROVE  IInv'
<1> USE DEF At
<1>1. pc = "activate"
  BY DEF Enforce
<1>2. created = {"chain", "entry", "anchor"} /\ nat.anchors = 1 /\ nat.entry /\ nat.jumps = <<>>
  BY <1>1, Entering DEF Loose
<1>3. ASSUME nat' = AddJump(chain).nat
      PROVE  /\ TableOK' /\ nat'.gens = nat.gens /\ Generations' = Generations
             /\ nat'.anchors = 1 /\ nat'.entry /\ nat'.jumps = <<chain>> /\ Jumped' = {chain}
  BY <1>1, <1>2, <1>3, Entering, AfterJump DEF SameGenerations
<1>4. CASE /\ Abandon
           /\ \/ FailOnce /\ UNCHANGED nat
              \/ KillOnce /\ (UNCHANGED nat \/ nat' = AddJump(chain).nat)
  <2>1. /\ start' = start /\ target' = target /\ chain' = chain
        /\ created' = {"chain", "entry", "anchor"} /\ undo' = UndoSteps
    BY <1>2, <1>4 DEF Abandon, locals
  <2>2. undo' \notin UndoEntry
    <3>1. undo' =
            <<"flush chain", "delete chain", "delete anchor", "flush entry", "delete entry">>
      BY <1>2, <2>1, UndoStepsAre, Zenon
    <3> QED
      BY <3>1 DEF UndoEntry
  <2>3. KillOnce => trouble'.killed
    BY <1>1, Entering, Hits DEF IInv
  <2>4. TableOK' /\ IsFiniteSet(Generations')
    BY <1>1, <1>3, <1>4, Entering, SameTable
  <2>5. nat'.jumps = <<>> \/ Exposed'
    <3>1. CASE UNCHANGED nat
      BY <1>2, <3>1
    <3>2. CASE KillOnce /\ nat' = AddJump(chain).nat
      BY <1>1, <1>3, <2>1, <2>3, <3>2, Entering DEF Exposed
    <3> QED
      BY <1>4, <3>1, <3>2
  <2>6. AnchorToUndo'
    <3>1. <<>> \in UndoEntry
      BY DEF UndoEntry
    <3> QED
      BY <1>1, <2>1, <2>2, <2>5, <3>1, Entering DEF AnchorToUndo
  <2>7. Leftover'
    BY <1>1, <2>1, <2>6, Entering, DifferentCleanups DEF Leftover
  <2> QED
    BY <1>1, <1>2, <1>4, <2>4, <2>7, Entering, Stopped DEF Created
<1>5. CASE /\ nat' = AddJump(chain).nat /\ Undisturbed /\ created' = CreatedAfterSwitch
           /\ Go(Cleaned(obsolete)) /\ UNCHANGED <<chain, todo, obsolete>>
  <2>1. Reading' /\ ~Bare' /\ nat'.jumps[1] = chain /\ nat'.jumps # <<>>
    BY <1>3, <1>5, ParseNext, OneJump DEF Bare
  <2>2. Parse' = target
    BY <1>1, <1>3, <1>5, <2>1, Entering DEF Reading
  <2> QED
    BY <1>1, <1>3, <1>5, <2>2, Entering, Enforced DEF CreatedAfterSwitch
<1>6. trouble = NoTrouble /\ chain \in Generations
  BY <1>1, Entering
<1>7. AddJump(chain).ok /\ ~trouble.killed
  BY <1>2, <1>6 DEF AddJump, NoTrouble
<1>8. Run(AddJump(chain),
          /\ created' = CreatedAfterSwitch
          /\ Go(Cleaned(obsolete))
          /\ UNCHANGED <<chain, todo, obsolete>>,
          Abandon)
  BY DEF Enforce
<1> QED
  BY <1>4, <1>5, <1>7, <1>8, Zenon DEF Run, Only

LEMMA SwitchIInv ==
  ASSUME IInv, Enforce("switch", ReplaceJump(chain))
  PROVE  IInv'
<1> USE DEF At
<1>1. pc = "switch" /\ managed = TRUE /\ todo = {}
  BY DEF Enforce, IInv, Calm, LocalsOK, Candidate, Building
<1>2. /\ Parse = start /\ start.mode = "managed" /\ target = Managed(target.rules)
      /\ nat.gens[chain] = target.rules
  <2>1. Absent.mode = "absent"
    BY DEF Absent
  <2> QED
    BY <1>1, <2>1, Filling, Targeted
<1>3. nat.anchors = 1 /\ nat.jumps # <<>> /\ nat.entry
  <2>1. TableOK
    BY <1>1, Filling
  <2> QED
    BY <1>2, <2>1, ModeIs
<1>4. ASSUME nat' = ReplaceJump(chain).nat
      PROVE  /\ TableOK' /\ nat'.gens = nat.gens /\ Generations' = Generations
             /\ nat'.anchors = 1 /\ nat'.entry /\ nat'.jumps = <<chain>> /\ Jumped' = {chain}
  BY <1>1, <1>3, <1>4, Filling, AfterJump DEF SameGenerations
<1>5. CASE Abandon /\ (FailOnce \/ KillOnce) /\ UNCHANGED nat
  BY <1>1, <1>5, SameTable, Filling, OnlyChain, Stopped DEF Created
<1>6. CASE Abandon /\ KillOnce /\ nat' = ReplaceJump(chain).nat
  <2>1. /\ start' = start /\ target' = target /\ created' = {"chain"} /\ chain' = chain
        /\ trouble'.killed
    BY <1>1, <1>6, Filling, Hits DEF Abandon, locals, IInv
  <2>2. Exposed' /\ nat'.anchors = 1
    BY <1>2, <1>4, <1>6, <2>1 DEF Exposed
  <2>3. ChainToUndo'
    BY <1>2, <2>1, <2>2 DEF ChainToUndo
  <2>4. target.mode = "managed" /\ chain \in Chains
    BY <1>1, Filling
  <2>5. Leftover'
    BY <2>1, <2>3, <2>4, DifferentCleanups DEF Leftover
  <2> QED
    BY <1>1, <1>4, <1>6, <2>5, Filling, Stopped DEF Created
<1>7. CASE /\ nat' = ReplaceJump(chain).nat /\ Undisturbed /\ created' = CreatedAfterSwitch
           /\ Go(Cleaned(obsolete)) /\ UNCHANGED <<chain, todo, obsolete>>
  <2>1. Reading' /\ ~Bare' /\ nat'.jumps[1] = chain /\ nat'.jumps # <<>>
    BY <1>4, <1>7, ParseNext, OneJump DEF Bare
  <2>2. Parse' = target
    BY <1>2, <1>4, <1>7, <2>1 DEF Reading
  <2> QED
    BY <1>1, <1>4, <1>7, <2>2, Filling, Enforced DEF CreatedAfterSwitch
<1>8. trouble = NoTrouble /\ chain \in Generations
  BY <1>1, Filling
<1>9. ReplaceJump(chain).ok /\ ~trouble.killed
  BY <1>3, <1>8 DEF ReplaceJump, NoTrouble
<1>10. Run(ReplaceJump(chain),
          /\ created' = CreatedAfterSwitch
          /\ Go(Cleaned(obsolete))
          /\ UNCHANGED <<chain, todo, obsolete>>,
          Abandon)
  BY DEF Enforce
<1> QED
  BY <1>5, <1>6, <1>7, <1>9, <1>10, Zenon DEF Run, Only

\* The cleanup of a call that left nothing to undo.
LEMMA NothingLeft ==
  ASSUME IInv, Abandon, created = {}, Parse' \in AfterCrash(start, target),
         trouble'.killed \/ Parse' \in AfterFailure(start, target)
  PROVE  Leftover'
<1>1. start' = start /\ target' = target /\ created' = {}
  BY DEF Abandon, locals
<1>2. NothingToUndo'
  BY <1>1 DEF NothingToUndo
<1> QED
  BY <1>1, <1>2, DifferentCleanups DEF Leftover

\* Obsolete generations are being removed.
LEMMA Tidying ==
  ASSUME IInv, pc \in {"flush", "remove"}
  PROVE  /\ pc \in Running /\ trouble = NoTrouble /\ Readable(start) /\ created = {}
         /\ undo = <<>> /\ TableOK /\ IsFiniteSet(Generations) /\ IsFiniteSet(obsolete)
         /\ managed \in BOOLEAN /\ managed = (start.mode = "managed")
         /\ Generations = obsolete \cup Jumped /\ obsolete \cap Jumped = {}
         /\ target # Absent => Parse = target
         /\ target = Absent => IF managed THEN Loose(0) ELSE Bare
         /\ Parse \in AfterCrash(start, target) /\ Parse \in AfterFailure(start, target)
<1>1. /\ pc \in Running /\ trouble = NoTrouble /\ Readable(start) /\ created = {}
      /\ undo = <<>> /\ TableOK /\ IsFiniteSet(Generations) /\ IsFiniteSet(obsolete)
      /\ managed \in BOOLEAN /\ managed = (start.mode = "managed")
      /\ Generations = obsolete \cup Jumped /\ obsolete \cap Jumped = {}
      /\ target # Absent => Parse = target
      /\ target = Absent => IF managed THEN Loose(0) ELSE Bare
  BY DEF IInv, Calm, LocalsOK, LoopsEnd, Undisrupted, Prepared, Finishing, Running, Cleaning
<1>2. /\ target # Absent => target.mode = "managed"
      /\ Absent.mode = "absent" /\ Reading
  BY <1>1, Targeted, ParseIs DEF Absent
<1>3. CASE target # Absent
  BY <1>1, <1>2, <1>3 DEF AfterCrash, AfterFailure
<1>4. CASE target = Absent /\ managed
  <2>1. Parse = Drift
    BY <1>1, <1>2, <1>4 DEF Reading, Loose, Bare
  <2>2. start.mode = "managed"
    BY <1>1, <1>4
  <2> QED
    BY <1>1, <1>2, <1>4, <2>1, <2>2 DEF AfterCrash, AfterFailure, Only
<1>5. CASE target = Absent /\ ~managed
  <2>1. Parse = Absent /\ start = Absent
    BY <1>1, <1>5, ModeIs, StartAbsent
  <2> QED
    BY <1>1, <1>2, <1>5, <2>1 DEF AfterCrash, AfterFailure
<1> QED
  BY <1>1, <1>3, <1>4, <1>5

LEMMA FlushObsoleteIInv ==
  ASSUME IInv, FlushObsolete
  PROVE  IInv'
<1> USE DEF At
<1>1. pc = "flush"
  BY DEF FlushObsolete
<1>2. PICK c \in obsolete :
        Run(FlushGeneration(c),
            chain' = c /\ Go("remove") /\ UNCHANGED <<todo, obsolete, created>>,
            Abandon)
  BY DEF FlushObsolete
<1>3. c \in Generations /\ c \notin Jumped /\ c \in Chains
  BY <1>1, Tidying, Gens
<1>4. ASSUME nat' = FlushGeneration(c).nat
      PROVE  /\ TableOK' /\ Generations' = Generations /\ nat'.gens[c] = {} /\ Jumped' = Jumped
             /\ Parse' = Parse /\ (Bare' <=> Bare) /\ Loose(0)' = Loose(0)
  <2>1. /\ SameButGenerations /\ Generations' = Generations /\ nat'.gens[c] = {}
        /\ \A d \in Generations \ {c} : nat'.gens[d] = nat.gens[d]
    BY <1>1, <1>3, <1>4, Tidying, AfterFlushGeneration
  <2>2. \A d \in Jumped : nat'.gens[d] = nat.gens[d]
    BY <1>1, <1>3, <2>1, Tidying
  <2>3. Parse' = Parse /\ (Bare' <=> Bare) /\ Loose(0)' = Loose(0)
    BY <1>1, <2>1, <2>2, Tidying, StillParses, 0 \in Nat DEF SameButGenerations, Loose
  <2> QED
    BY <2>1, <2>3 DEF SameButGenerations
<1>5. CASE Abandon /\ (FailOnce \/ KillOnce) /\ (UNCHANGED nat \/ nat' = FlushGeneration(c).nat)
  <2>1. TableOK' /\ Parse' = Parse /\ IsFiniteSet(Generations')
    BY <1>1, <1>4, <1>5, SameTable, Tidying
  <2> QED
    BY <1>1, <1>5, <2>1, Tidying, NothingLeft, Stopped DEF Created
<1>6. CASE /\ nat' = FlushGeneration(c).nat /\ Undisturbed
           /\ chain' = c /\ Go("remove") /\ UNCHANGED <<todo, obsolete, created>>
  <2>1. pc' = "remove" /\ UNCHANGED <<target, managed, undo, start, last, trouble, budget>>
    BY <1>6 DEF Go, Undisturbed
  <2>2. Calm'
    BY <1>3, <1>4, <1>6, <2>1 DEF IInv, Calm, LocalsOK, LoopsEnd, Interrupts, Running, Cleaning
  <2>3. Undisrupted' /\ Prepared'
    BY <1>1, <1>6, <2>1, Tidying DEF Undisrupted, Prepared, Running, Building, Dismantling,
      Cleaning
  <2>4. Candidate' /\ Finishing' /\ Undoing'
    BY <1>1, <1>4, <1>6, <2>1, Tidying DEF Candidate, Finishing, Undoing, Building, Dismantling,
      Cleaning
  <2> QED
    BY <2>2, <2>3, <2>4 DEF IInv
<1>7. FlushGeneration(c).ok /\ ~trouble.killed
  <2>1. trouble = NoTrouble
    BY <1>1, Tidying
  <2> QED
    BY <1>3, <2>1 DEF FlushGeneration, NoTrouble
<1> QED
  BY <1>2, <1>5, <1>6, <1>7, Zenon DEF Run, Only

LEMMA RemoveObsoleteIInv ==
  ASSUME IInv, RemoveObsolete
  PROVE  IInv'
<1> USE DEF At
<1>1. pc = "remove" /\ chain \in obsolete /\ nat.gens[chain] = {}
  BY DEF RemoveObsolete, IInv, Finishing
<1>2. chain \in Generations /\ chain \notin Jumped
  BY <1>1, Tidying
<1>3. ASSUME nat' = DeleteGeneration(chain).nat
      PROVE  /\ TableOK' /\ Generations' = Generations \ {chain} /\ Jumped' = Jumped
             /\ Parse' = Parse /\ (Bare' <=> Bare) /\ Loose(0)' = Loose(0)
             /\ IsFiniteSet(Generations')
  <2>1. /\ SameButGenerations /\ Generations' = Generations \ {chain}
        /\ \A d \in Generations \ {chain} : nat'.gens[d] = nat.gens[d]
    BY <1>1, <1>2, <1>3, Tidying, AfterDeleteGeneration
  <2>2. \A d \in Jumped : nat'.gens[d] = nat.gens[d]
    BY <1>1, <1>2, <2>1, Tidying
  <2>3. Parse' = Parse /\ (Bare' <=> Bare) /\ Loose(0)' = Loose(0)
    BY <1>1, <2>1, <2>2, Tidying, StillParses, 0 \in Nat DEF SameButGenerations, Loose
  <2> QED
    BY <1>1, <2>1, <2>3, Tidying, FS_RemoveElement DEF SameButGenerations
<1>4. CASE Abandon /\ (FailOnce \/ KillOnce)
           /\ (UNCHANGED nat \/ nat' = DeleteGeneration(chain).nat)
  <2>1. TableOK' /\ Parse' = Parse /\ IsFiniteSet(Generations')
    BY <1>1, <1>3, <1>4, SameTable, Tidying
  <2> QED
    BY <1>1, <1>4, <2>1, Tidying, NothingLeft, Stopped DEF Created
<1>5. CASE /\ nat' = DeleteGeneration(chain).nat /\ Undisturbed
           /\ obsolete' = obsolete \ {chain} /\ Go(Cleaned(obsolete \ {chain}))
           /\ UNCHANGED <<chain, todo, created>>
  <2>1. /\ pc' = IF obsolete' # {} THEN "flush"
                 ELSE IF target = Absent /\ managed THEN "delete entry" ELSE "return"
        /\ UNCHANGED <<target, managed, undo, start, last, trouble, budget>>
    BY <1>5, WhereTo DEF Go, Undisturbed
  <2>2. IsFiniteSet(obsolete')
    BY <1>1, <1>5, Tidying, FS_RemoveElement
  <2>3. Calm'
    BY <1>3, <1>5, <2>1, <2>2 DEF IInv, Calm, LocalsOK, LoopsEnd, Interrupts, Running, Cleaning,
      Dismantling
  <2>4. Undisrupted' /\ Prepared'
    BY <1>1, <1>5, <2>1, Tidying DEF Undisrupted, Prepared, Running, Building, Dismantling,
      Cleaning
  <2>5. Generations' = obsolete' \cup Jumped' /\ obsolete' \cap Jumped' = {}
    BY <1>1, <1>2, <1>3, <1>5, Tidying
  <2>6. target = Absent /\ ~managed => Parse' = Absent
    BY <1>1, <1>3, <1>5, Tidying, ModeIs
  <2>7. target = Absent /\ managed => Loose(0)' /\ Jumped' = {}
    BY <1>1, <1>3, <1>5, Tidying DEF Loose, Jumped
  <2>8. Candidate' /\ Undoing'
    BY <2>1 DEF Candidate, Undoing, Building
  <2>9. Finishing'
    BY <1>1, <1>3, <1>5, <2>1, <2>5, <2>6, <2>7, Tidying DEF Finishing, Dismantling, Cleaning
  <2> QED
    BY <2>3, <2>4, <2>8, <2>9 DEF IInv
<1>6. DeleteGeneration(chain).ok /\ ~trouble.killed
  <2>1. trouble = NoTrouble
    BY <1>1, Tidying
  <2> QED
    BY <1>1, <1>2, <2>1 DEF DeleteGeneration, NoTrouble
<1>7. Run(DeleteGeneration(chain),
          /\ obsolete' = obsolete \ {chain}
          /\ Go(Cleaned(obsolete \ {chain}))
          /\ UNCHANGED <<chain, todo, created>>,
          Abandon)
  BY DEF RemoveObsolete
<1> QED
  BY <1>4, <1>5, <1>6, <1>7, Zenon DEF Run, Only

\* deleteFamily takes a managed table apart.
LEMMA TakingApart ==
  ASSUME IInv, pc \in Dismantling
  PROVE  /\ pc \in Running /\ trouble = NoTrouble /\ Readable(start) /\ created = {}
         /\ undo = <<>> /\ TableOK /\ IsFiniteSet(Generations) /\ target = Absent
         /\ managed = TRUE /\ managed = (start.mode = "managed") /\ start.mode = "managed"
         /\ Drift \in AfterCrash(start, target) /\ Drift \in AfterFailure(start, target)
         /\ start \in AfterCrash(start, target) /\ start \in AfterFailure(start, target)
         /\ target \in AfterCrash(start, target)
<1>1. /\ pc \in Running /\ trouble = NoTrouble /\ Readable(start) /\ created = {}
      /\ undo = <<>> /\ TableOK /\ IsFiniteSet(Generations) /\ target = Absent
      /\ managed = TRUE /\ managed = (start.mode = "managed") /\ start.mode = "managed"
  BY DEF IInv, Calm, LocalsOK, LoopsEnd, Undisrupted, Prepared, Finishing, Running, Dismantling
<1>2. target.mode = "absent"
  BY <1>1 DEF Absent
<1> QED
  BY <1>1, <1>2 DEF AfterCrash, AfterFailure, Only

LEMMA DeleteAnchorIInv ==
  ASSUME IInv, Dismantle("delete anchor", DeleteAnchor, "flush entry")
  PROVE  IInv'
<1> USE DEF At
<1>1. pc = "delete anchor" /\ pc \in Dismantling /\ Parse = start /\ obsolete = Generations
  BY DEF Dismantle, IInv, Prepared, Dismantling
<1>2. nat.anchors = 1 /\ nat.entry
  <2>1. TableOK /\ start.mode = "managed"
    BY <1>1, TakingApart
  <2> QED
    BY <1>1, <2>1, ModeIs
<1>3. ASSUME nat' = DeleteAnchor.nat
      PROVE  /\ TableOK' /\ Generations' = Generations
             /\ nat'.anchors = 0 /\ nat'.entry /\ Parse' = Drift
  <2>1. TableOK' /\ Generations' = Generations /\ nat'.anchors = 0 /\ nat'.entry
    BY <1>1, <1>2, <1>3, TakingApart, Anchors, AfterDeleteAnchor DEF SameGenerations
  <2>2. Parse' = Drift
    BY <2>1, LoosenedNext
  <2> QED
    BY <2>1, <2>2
<1>4. CASE Abandon /\ (FailOnce \/ KillOnce) /\ (UNCHANGED nat \/ nat' = DeleteAnchor.nat)
  <2>1. TableOK' /\ Parse' \in {start, Drift} /\ IsFiniteSet(Generations')
    BY <1>1, <1>3, <1>4, SameTable, TakingApart
  <2> QED
    BY <1>1, <1>4, <2>1, TakingApart, NothingLeft, Stopped DEF Created
<1>5. CASE /\ nat' = DeleteAnchor.nat /\ Undisturbed
           /\ Go("flush entry") /\ UNCHANGED <<chain, todo, obsolete, created>>
  <2>1. pc' = "flush entry" /\ UNCHANGED <<target, managed, undo, start, last, trouble, budget>>
    BY <1>5 DEF Go, Undisturbed
  <2>2. Calm'
    BY <1>3, <1>5, <2>1 DEF IInv, Calm, LocalsOK, LoopsEnd, Interrupts, Running, Dismantling
  <2>3. Undisrupted' /\ Prepared'
    BY <1>1, <1>3, <1>5, <2>1, TakingApart DEF Undisrupted, Prepared, Running, Building,
      Dismantling, Cleaning
  <2>4. Candidate' /\ Finishing' /\ Undoing'
    BY <1>1, <1>3, <1>5, <2>1, TakingApart DEF Candidate, Finishing, Undoing, Building,
      Dismantling, Cleaning
  <2> QED
    BY <2>2, <2>3, <2>4 DEF IInv
<1>6. DeleteAnchor.ok /\ ~trouble.killed
  <2>1. trouble = NoTrouble
    BY <1>1, TakingApart
  <2> QED
    BY <1>1, <1>2, <2>1, TakingApart, Anchors DEF DeleteAnchor, NoTrouble
<1>7. Run(DeleteAnchor,
          Go("flush entry") /\ UNCHANGED <<chain, todo, obsolete, created>>,
          Abandon)
  BY DEF Dismantle
<1> QED
  BY <1>4, <1>5, <1>6, <1>7, Zenon DEF Run, Only

LEMMA FlushEntryIInv ==
  ASSUME IInv, Dismantle("flush entry", FlushEntry, Cleaned(obsolete))
  PROVE  IInv'
<1> USE DEF At
<1>1. /\ pc = "flush entry" /\ pc \in Dismantling /\ obsolete = Generations
      /\ nat.anchors = 0 /\ nat.entry
  BY DEF Dismantle, IInv, Prepared, Finishing, Dismantling
<1>2. Parse = Drift
  BY <1>1, TakingApart, Loosened
<1>3. ASSUME nat' = FlushEntry.nat
      PROVE  /\ TableOK' /\ Generations' = Generations /\ Loose(0)' /\ Jumped' = {}
             /\ Parse' = Drift
  <2>1. /\ TableOK' /\ Generations' = Generations /\ nat'.anchors = 0 /\ nat'.entry
        /\ nat'.jumps = <<>> /\ Jumped' = {}
    BY <1>1, <1>3, TakingApart, AfterFlushEntry DEF SameGenerations
  <2>2. Parse' = Drift
    BY <2>1, LoosenedNext
  <2> QED
    BY <2>1, <2>2 DEF Loose
<1>4. CASE Abandon /\ (FailOnce \/ KillOnce) /\ (UNCHANGED nat \/ nat' = FlushEntry.nat)
  <2>1. TableOK' /\ Parse' = Drift /\ IsFiniteSet(Generations')
    BY <1>1, <1>2, <1>3, <1>4, SameTable, TakingApart
  <2> QED
    BY <1>1, <1>4, <2>1, TakingApart, NothingLeft, Stopped DEF Created
<1>5. CASE /\ nat' = FlushEntry.nat /\ Undisturbed
           /\ Go(Cleaned(obsolete)) /\ UNCHANGED <<chain, todo, obsolete, created>>
  <2>1. /\ pc' = IF obsolete # {} THEN "flush" ELSE "delete entry"
        /\ UNCHANGED <<target, managed, undo, start, last, trouble, budget>>
    BY <1>1, <1>5, TakingApart, WhereTo DEF Go, Undisturbed
  <2>2. Calm'
    BY <1>3, <1>5, <2>1 DEF IInv, Calm, LocalsOK, LoopsEnd, Interrupts, Running, Dismantling,
      Cleaning
  <2>3. Undisrupted' /\ Prepared'
    BY <1>1, <1>3, <1>5, <2>1, TakingApart DEF Undisrupted, Prepared, Running, Building,
      Dismantling, Cleaning
  <2>4. Candidate' /\ Finishing' /\ Undoing'
    BY <1>1, <1>3, <1>5, <2>1, TakingApart DEF Candidate, Finishing, Undoing, Building,
      Dismantling, Cleaning
  <2> QED
    BY <2>2, <2>3, <2>4 DEF IInv
<1>6. FlushEntry.ok /\ ~trouble.killed
  <2>1. trouble = NoTrouble
    BY <1>1, TakingApart
  <2> QED
    BY <1>1, <2>1 DEF FlushEntry, NoTrouble
<1>7. Run(FlushEntry,
          Go(Cleaned(obsolete)) /\ UNCHANGED <<chain, todo, obsolete, created>>,
          Abandon)
  BY DEF Dismantle
<1> QED
  BY <1>4, <1>5, <1>6, <1>7, Zenon DEF Run, Only

LEMMA DeleteEntryIInv ==
  ASSUME IInv, Dismantle("delete entry", DeleteEntry, "return")
  PROVE  IInv'
<1> USE DEF At
<1>1. /\ pc = "delete entry" /\ pc \in Dismantling /\ Generations = {}
      /\ nat.anchors = 0 /\ nat.entry /\ nat.jumps = <<>>
  BY DEF Dismantle, IInv, Finishing, Loose, Dismantling
<1>2. Parse = Drift
  BY <1>1, TakingApart, Loosened
<1>3. ASSUME nat' = DeleteEntry.nat
      PROVE  /\ TableOK' /\ Generations' = {} /\ Jumped' = {} /\ Parse' = Absent
  <2>1. /\ TableOK' /\ Generations' = {} /\ nat'.anchors = 0 /\ ~nat'.entry /\ nat'.jumps = <<>>
    BY <1>1, <1>3, TakingApart, AfterDeleteEntry DEF SameGenerations
  <2>2. Parse' = Absent
    BY <2>1, ParseNext DEF Reading, Bare
  <2>3. Jumped' = {}
    BY <1>1, <1>3, NoJumps, TakingApart, AfterDeleteEntry
  <2> QED
    BY <2>1, <2>2, <2>3
<1>4. CASE /\ Abandon
           /\ \/ FailOnce /\ UNCHANGED nat
              \/ KillOnce /\ (UNCHANGED nat \/ nat' = DeleteEntry.nat)
  <2>1. TableOK' /\ IsFiniteSet(Generations')
    BY <1>1, <1>3, <1>4, SameTable, TakingApart
  <2>2. Parse' = Drift \/ (Parse' = target /\ trouble'.killed)
    <3>1. CASE UNCHANGED nat
      BY <1>2, <3>1, SameTable
    <3>2. CASE KillOnce /\ nat' = DeleteEntry.nat
      BY <1>1, <1>3, <3>2, TakingApart, Hits DEF IInv
    <3> QED
      BY <1>4, <3>1, <3>2
  <2>3. /\ Parse' \in AfterCrash(start, target)
        /\ (trouble'.killed \/ Parse' \in AfterFailure(start, target))
    BY <1>1, <2>2, TakingApart
  <2> QED
    BY <1>1, <1>4, <2>1, <2>3, TakingApart, NothingLeft, Stopped DEF Created
<1>5. CASE /\ nat' = DeleteEntry.nat /\ Undisturbed
           /\ Go("return") /\ UNCHANGED <<chain, todo, obsolete, created>>
  <2>1. pc' = "return" /\ UNCHANGED <<target, managed, undo, start, last, trouble, budget>>
    BY <1>5 DEF Go, Undisturbed
  <2>2. Calm'
    BY <1>1, <1>3, <1>5, <2>1 DEF IInv, Calm, LocalsOK, LoopsEnd, Interrupts, Running
  <2>3. Undisrupted' /\ Prepared'
    BY <1>1, <1>3, <1>5, <2>1, TakingApart DEF Undisrupted, Prepared, Running, Building,
      Dismantling, Cleaning
  <2>4. Candidate' /\ Finishing' /\ Undoing'
    BY <1>1, <1>3, <1>5, <2>1, TakingApart DEF Candidate, Finishing, Undoing, Building,
      Dismantling, Cleaning
  <2> QED
    BY <2>2, <2>3, <2>4 DEF IInv
<1>6. DeleteEntry.ok /\ ~trouble.killed
  <2>1. trouble = NoTrouble
    BY <1>1, TakingApart
  <2> QED
    BY <1>1, <2>1 DEF DeleteEntry, NoTrouble
<1>7. Run(DeleteEntry,
          Go("return") /\ UNCHANGED <<chain, todo, obsolete, created>>,
          Abandon)
  BY DEF Dismantle
<1> QED
  BY <1>4, <1>5, <1>6, <1>7, Zenon DEF Run, Only

--------------------------------------------------------------------------------
(* The deferred cleanup *)

Ran(command) ==
  \/ nat' = (IF command.ok THEN command.nat ELSE nat) /\ Undisturbed
  \/ FailOnce /\ UNCHANGED nat

LEMMA UndoIs ==
  ASSUME Undo
  PROVE  /\ pc = "undo" /\ undo # <<>> /\ undo' = Tail(undo)
         /\ UNCHANGED <<pc, target, managed, chain, todo, obsolete, created, start, last>>
         /\ Undisturbed \/ (FailOnce /\ UNCHANGED nat)
         /\ Head(undo) = "flush chain" => Ran(FlushGeneration(chain))
         /\ Head(undo) = "delete chain" => Ran(DeleteGeneration(chain))
         /\ Head(undo) = "delete anchor" => Ran(DeleteAnchor)
         /\ Head(undo) = "flush entry" => Ran(FlushEntry)
         /\ Head(undo) = "delete entry" => Ran(DeleteEntry)
<1> DEFINE command == CASE Head(undo) = "flush chain"   -> FlushGeneration(chain)
                        [] Head(undo) = "delete chain"  -> DeleteGeneration(chain)
                        [] Head(undo) = "delete anchor" -> DeleteAnchor
                        [] Head(undo) = "flush entry"   -> FlushEntry
                        [] Head(undo) = "delete entry"  -> DeleteEntry
<1>1. /\ pc = "undo" /\ undo # <<>> /\ undo' = Tail(undo)
      /\ UNCHANGED <<pc, locals, start, last>> /\ Ran(command)
  BY Zenon DEF Undo, UndoRest, Ran, At
<1>2. /\ Head(undo) = "flush chain" => command = FlushGeneration(chain)
      /\ Head(undo) = "delete chain" => command = DeleteGeneration(chain)
      /\ Head(undo) = "delete anchor" => command = DeleteAnchor
      /\ Head(undo) = "flush entry" => command = FlushEntry
      /\ Head(undo) = "delete entry" => command = DeleteEntry
  BY Zenon
<1> HIDE DEF command
<1>3. Undisturbed \/ (FailOnce /\ UNCHANGED nat)
  BY <1>1 DEF Ran
<1>4. UNCHANGED <<pc, target, managed, chain, todo, obsolete, created, start, last>>
  BY <1>1 DEF locals
<1> QED
  BY <1>1, <1>2, <1>3, <1>4, Zenon

\* Lists of commands, one by one.
LEMMA TailOf2 == ASSUME NEW a, NEW b PROVE Tail(<<a, b>>) = <<b>> /\ Len(<<a, b>>) = 2
OBVIOUS
LEMMA TailOf3 ==
  ASSUME NEW a, NEW b, NEW c PROVE Tail(<<a, b, c>>) = <<b, c>> /\ Len(<<a, b, c>>) = 3
OBVIOUS
LEMMA TailOf4 ==
  ASSUME NEW a, NEW b, NEW c, NEW d
  PROVE  Tail(<<a, b, c, d>>) = <<b, c, d>> /\ Len(<<a, b, c, d>>) = 4
OBVIOUS
LEMMA Lists ==
  /\ Head(<<"delete chain">>) = "delete chain" /\ Tail(<<"delete chain">>) = <<>>
  /\ Head(<<"flush chain", "delete chain">>) = "flush chain"
  /\ Tail(<<"flush chain", "delete chain">>) = <<"delete chain">>
  /\ Head(<<"delete entry">>) = "delete entry" /\ Tail(<<"delete entry">>) = <<>>
  /\ Head(<<"flush entry", "delete entry">>) = "flush entry"
  /\ Tail(<<"flush entry", "delete entry">>) = <<"delete entry">>
  /\ Head(<<"delete chain", "flush entry", "delete entry">>) = "delete chain"
  /\ Tail(<<"delete chain", "flush entry", "delete entry">>) = <<"flush entry", "delete entry">>
  /\ Head(<<"flush chain", "delete chain", "flush entry", "delete entry">>) = "flush chain"
  /\ Tail(<<"flush chain", "delete chain", "flush entry", "delete entry">>) =
       <<"delete chain", "flush entry", "delete entry">>
  /\ Head(<<"delete anchor", "flush entry", "delete entry">>) = "delete anchor"
  /\ Tail(<<"delete anchor", "flush entry", "delete entry">>) = <<"flush entry", "delete entry">>
  /\ Head(<<"delete chain", "delete anchor", "flush entry", "delete entry">>) = "delete chain"
  /\ Tail(<<"delete chain", "delete anchor", "flush entry", "delete entry">>) =
       <<"delete anchor", "flush entry", "delete entry">>
  /\ Head(<<"flush chain", "delete chain", "delete anchor", "flush entry", "delete entry">>) =
       "flush chain"
  /\ Tail(<<"flush chain", "delete chain", "delete anchor", "flush entry", "delete entry">>) =
       <<"delete chain", "delete anchor", "flush entry", "delete entry">>
<1>1. Head(<<"delete chain">>) = "delete chain"
  OBVIOUS
<1>2. Tail(<<"delete chain">>) = <<>>
  OBVIOUS
<1>3. Head(<<"flush chain", "delete chain">>) = "flush chain"
  OBVIOUS
<1>4. Tail(<<"flush chain", "delete chain">>) = <<"delete chain">>
  BY TailOf2, Zenon
<1>5. Head(<<"delete entry">>) = "delete entry"
  OBVIOUS
<1>6. Tail(<<"delete entry">>) = <<>>
  OBVIOUS
<1>7. Head(<<"flush entry", "delete entry">>) = "flush entry"
  OBVIOUS
<1>8. Tail(<<"flush entry", "delete entry">>) = <<"delete entry">>
  BY TailOf2, Zenon
<1>9. Head(<<"delete chain", "flush entry", "delete entry">>) = "delete chain"
  OBVIOUS
<1>10. Tail(<<"delete chain", "flush entry", "delete entry">>) =
       <<"flush entry", "delete entry">>
  BY TailOf3, Zenon
<1>11. Head(<<"flush chain", "delete chain", "flush entry", "delete entry">>) =
       "flush chain"
  OBVIOUS
<1>12. Tail(<<"flush chain", "delete chain", "flush entry", "delete entry">>) =
       <<"delete chain", "flush entry", "delete entry">>
  BY TailOf4, Zenon
<1>13. Head(<<"delete anchor", "flush entry", "delete entry">>) = "delete anchor"
  OBVIOUS
<1>14. Tail(<<"delete anchor", "flush entry", "delete entry">>) =
       <<"flush entry", "delete entry">>
  BY TailOf3, Zenon
<1>15. Head(<<"delete chain", "delete anchor", "flush entry", "delete entry">>) =
       "delete chain"
  OBVIOUS
<1>16. Tail(<<"delete chain", "delete anchor", "flush entry", "delete entry">>) =
       <<"delete anchor", "flush entry", "delete entry">>
  BY TailOf4, Zenon
<1>17. Head(<<"flush chain", "delete chain", "delete anchor", "flush entry", "delete entry">>) =
       "flush chain"
  OBVIOUS
<1>18. Tail(<<"flush chain", "delete chain", "delete anchor", "flush entry", "delete entry">>) =
       <<"delete chain", "delete anchor", "flush entry", "delete entry">>
  <2> DEFINE a == "flush chain"
             b == "delete chain"
             c == "delete anchor"
             d == "flush entry"
             e == "delete entry"
  <2> HIDE DEF a, b, c, d, e
  <2>1. Tail(<<a, b, c, d, e>>) = <<b, c, d, e>>
    OBVIOUS
  <2> QED
    BY <2>1 DEF a, b, c, d, e
<1> QED
  BY <1>1, <1>2, <1>3, <1>4, <1>5, <1>6, <1>7, <1>8, <1>9, <1>10, <1>11, <1>12, <1>13, <1>14,
    <1>15, <1>16, <1>17, <1>18

LEMMA NotYet ==
  /\ <<>> \in UndoEntry /\ <<"flush entry", "delete entry">> \in UndoEntry
  /\ <<"flush entry", "delete entry">> # <<>>
  /\ <<"delete chain", "flush entry", "delete entry">> # <<>>
  /\ <<>> \notin UndoAll
  /\ \A l \in UndoAll : l \notin UndoEntry
  /\ <<"delete anchor", "flush entry", "delete entry">> \in UndoAll
  /\ <<"delete chain", "delete anchor", "flush entry", "delete entry">> \in UndoAll
<1>1. <<>> \in UndoEntry /\ <<"flush entry", "delete entry">> \in UndoEntry
  BY DEF UndoEntry
<1>2. /\ <<"flush entry", "delete entry">> # <<>>
      /\ <<"delete chain", "flush entry", "delete entry">> # <<>>
  OBVIOUS
<1>3. \A l \in UndoAll : Len(l) \in {3, 4, 5}
  <2>1. Len(<<"delete anchor", "flush entry", "delete entry">>) = 3
    BY TailOf3, Zenon
  <2>2. Len(<<"delete chain", "delete anchor", "flush entry", "delete entry">>) = 4
    BY TailOf4, Zenon
  <2>3. Len(<<"flush chain", "delete chain", "delete anchor", "flush entry", "delete entry">>) = 5
    OBVIOUS
  <2> QED
    BY <2>1, <2>2, <2>3, Zenon DEF UndoAll
<1>4. \A l \in UndoEntry : Len(l) \in {0, 1, 2}
  <2>1. Len(<<"flush entry", "delete entry">>) = 2
    BY TailOf2, Zenon
  <2>2. Len(<<>>) = 0 /\ Len(<<"delete entry">>) = 1
    OBVIOUS
  <2> QED
    BY <2>1, <2>2, Zenon DEF UndoEntry
<1>5. {0, 1, 2} \cap {3, 4, 5} = {}
  OBVIOUS
<1>6. \A l \in UndoAll : l \notin UndoEntry
  BY <1>3, <1>4, <1>5
<1>7. /\ <<"delete anchor", "flush entry", "delete entry">> \in UndoAll
      /\ <<"delete chain", "delete anchor", "flush entry", "delete entry">> \in UndoAll
  BY DEF UndoAll
<1>8. <<>> \notin UndoAll
  BY <1>1, <1>6
<1> QED
  BY <1>1, <1>2, <1>6, <1>7, <1>8

\* What is done when the entry chain's turn comes.
LEMMA UndoChain ==
  ASSUME UndoOK, undo # <<>>, created = {"chain"}, created' = created, undo' = Tail(undo)
  PROVE  UndoOK' /\ Head(undo) \in {"flush chain", "delete chain"}
<1>1. undo \in {<<"delete chain">>, <<"flush chain", "delete chain">>}
  BY DEF UndoOK
<1>2. /\ Head(undo) \in {"flush chain", "delete chain"}
      /\ undo' \in {<<>>, <<"delete chain">>, <<"flush chain", "delete chain">>}
  BY <1>1, Lists
<1> QED
  BY <1>2, DifferentCleanups DEF UndoOK

LEMMA UndoEntryTail ==
  ASSUME undo \in UndoEntry, undo # <<>>
  PROVE  /\ Tail(undo) \in UndoEntry /\ Head(undo) \in {"flush entry", "delete entry"}
         /\ Tail(undo) = <<>> => Head(undo) = "delete entry"
<1>1. undo \in {<<"delete entry">>, <<"flush entry", "delete entry">>}
  BY DEF UndoEntry
<1>2. <<"delete entry">> # <<>>
  OBVIOUS
<1> QED
  BY <1>1, <1>2, Lists DEF UndoEntry

LEMMA UndoEntryChain ==
  ASSUME UndoOK, undo # <<>>, created = {"chain", "entry"}, created' = created,
         undo' = Tail(undo)
  PROVE  /\ UndoOK'
         /\ Head(undo) \in {"flush chain", "delete chain", "flush entry", "delete entry"}
         /\ undo' = <<>> => Head(undo) = "delete entry"
<1>1. CASE undo \in UndoEntry
  BY <1>1, UndoEntryTail, DifferentCleanups DEF UndoOK
<1>2. CASE undo = <<"delete chain", "flush entry", "delete entry">>
  <2>1. undo' = <<"flush entry", "delete entry">> /\ Head(undo) = "delete chain"
    BY <1>2, Lists
  <2>2. undo' \in UndoEntry /\ undo' # <<>>
    BY <2>1, NotYet, Zenon
  <2> QED
    BY <2>1, <2>2, DifferentCleanups DEF UndoOK
<1>3. CASE undo = <<"flush chain", "delete chain", "flush entry", "delete entry">>
  <2>1. undo' = <<"delete chain", "flush entry", "delete entry">> /\ Head(undo) = "flush chain"
    BY <1>3, Lists
  <2>2. undo' # <<>>
    BY <2>1, NotYet, Zenon
  <2> QED
    BY <2>1, <2>2, DifferentCleanups DEF UndoOK
<1> QED
  BY <1>1, <1>2, <1>3 DEF UndoOK

LEMMA UndoAnchor ==
  ASSUME UndoOK, undo # <<>>, created = {"chain", "entry", "anchor"}, created' = created,
         undo' = Tail(undo)
  PROVE  /\ UndoOK' /\ Head(undo) \in Commands
         /\ undo' = <<>> => Head(undo) = "delete entry" /\ undo \in UndoEntry
         /\ undo' \in UndoEntry => undo \in UndoEntry \/ Head(undo) = "delete anchor"
<1>1. <<>> \in UndoEntry
  BY DEF UndoEntry
<1>2. CASE undo \in UndoEntry
  BY <1>2, UndoEntryTail, DifferentCleanups DEF UndoOK, Commands
<1>3. CASE undo = <<"delete anchor", "flush entry", "delete entry">>
  <2>1. undo' = <<"flush entry", "delete entry">> /\ Head(undo) = "delete anchor"
    BY <1>3, Lists
  <2>2. undo' \in UndoEntry /\ undo' # <<>>
    BY <2>1, NotYet, Zenon
  <2> QED
    BY <2>1, <2>2, DifferentCleanups DEF UndoOK, Commands
<1>4. CASE undo = <<"delete chain", "delete anchor", "flush entry", "delete entry">>
  <2>1. undo' = <<"delete anchor", "flush entry", "delete entry">> /\ Head(undo) = "delete chain"
    BY <1>4, Lists
  <2>2. undo' \in UndoAll /\ undo' \notin UndoEntry
    BY <2>1, NotYet, Zenon
  <2> QED
    BY <1>1, <2>1, <2>2, DifferentCleanups DEF UndoOK, Commands
<1>5. CASE undo =
             <<"flush chain", "delete chain", "delete anchor", "flush entry", "delete entry">>
  <2>1. /\ undo' = <<"delete chain", "delete anchor", "flush entry", "delete entry">>
        /\ Head(undo) = "flush chain"
    BY <1>5, Lists
  <2>2. undo' \in UndoAll /\ undo' \notin UndoEntry
    BY <2>1, NotYet, Zenon
  <2> QED
    BY <1>1, <2>1, <2>2, DifferentCleanups DEF UndoOK, Commands
<1> QED
  BY <1>2, <1>3, <1>4, <1>5 DEF UndoOK, UndoAll

\* A deferred command may fail; then the cleanup no longer achieves all it set out to.
LEMMA UndoTrouble ==
  ASSUME IInv, Undo
  PROVE  /\ trouble' \in Troubles /\ budget' \in [Disturbances -> Nat] /\ Interrupts'
         /\ trouble'.killed = trouble.killed
         /\ Readable(start) => trouble'.killed \/ trouble'.fails > 0
         /\ Undisturbed => ~FailOnce /\ (CleanupWorks' <=> CleanupWorks)
         /\ FailOnce /\ Readable(start) => ~CleanupWorks'
<1> USE DEF IInv, Calm, LocalsOK, Interrupts
<1>1. /\ trouble \in Troubles /\ budget \in [Disturbances -> Nat]
      /\ Readable(start) => trouble.killed \/ trouble.fails > 0
      /\ trouble.fails \in Nat /\ trouble.killed \in BOOLEAN
  BY UndoIs DEF Undoing, Blame, Troubles
<1>2. CASE Undisturbed
  <2>1. ~FailOnce
    BY <1>1, <1>2 DEF Undisturbed, FailOnce, Troubles
  <2> QED
    BY <1>1, <1>2, <2>1 DEF Undisturbed, CleanupWorks
<1>3. CASE FailOnce
  <2>1. /\ trouble' = [trouble EXCEPT !.fails = @ + 1]
        /\ budget' = [budget EXCEPT !["fail"] = @ - 1] /\ budget["fail"] > 0
    BY <1>3 DEF FailOnce, Spend
  <2>2. budget' \in [Disturbances -> Nat] /\ budget'["cancel"] = budget["cancel"]
    BY <1>1, <2>1 DEF Disturbances
  <2>3. /\ trouble' \in Troubles /\ trouble'.killed = trouble.killed
        /\ trouble'.fails = trouble.fails + 1
    <3> DEFINE n == trouble.fails + 1
    <3>1. n \in Nat /\ trouble' = [trouble EXCEPT !.fails = n]
      BY <1>1, <2>1
    <3> HIDE DEF n
    <3>2. trouble' \in Troubles /\ trouble'.killed = trouble.killed /\ trouble'.fails = n
      BY <1>1, <3>1 DEF Troubles
    <3> QED
      BY <3>2 DEF n
  <2>4. trouble'.fails > 0 /\ ~Undisturbed
    BY <1>1, <2>3 DEF Undisturbed
  <2>5. Readable(start) => ~CleanupWorks'
    BY <1>1, <2>3 DEF CleanupWorks
  <2> QED
    BY <2>2, <2>3, <2>4, <2>5
<1> QED
  BY <1>2, <1>3, UndoIs

LEMMA Undone ==
  ASSUME IInv, Undo
  PROVE  /\ pc = "undo" /\ TableOK /\ IsFiniteSet(Generations) /\ Readable(start)
         /\ created \in {{"chain"}, {"chain", "entry"}, {"chain", "entry", "anchor"}}
         /\ UndoOK /\ Leftover /\ undo # <<>> /\ undo' = Tail(undo)
         /\ target.mode = "managed" /\ chain \in Chains
         /\ UNCHANGED <<pc, target, chain, created, start>>
         /\ Undisturbed \/ (FailOnce /\ UNCHANGED nat)
<1>1. /\ pc = "undo" /\ undo # <<>> /\ undo' = Tail(undo)
      /\ UNCHANGED <<pc, target, chain, created, start>>
      /\ Undisturbed \/ (FailOnce /\ UNCHANGED nat)
  BY UndoIs
<1>2. /\ TableOK /\ IsFiniteSet(Generations) /\ created \in Created /\ UndoOK /\ Leftover
      /\ ~Readable(start) => created = {}
  BY <1>1 DEF IInv, Calm, LoopsEnd, Undoing, Blame
<1>3. created # {}
  BY <1>1, <1>2 DEF UndoOK
<1>4. Readable(start) /\ target.mode = "managed" /\ chain \in Chains
  BY <1>2, <1>3 DEF Leftover
<1>5. created \in {{"chain"}, {"chain", "entry"}, {"chain", "entry", "anchor"}}
  BY <1>2, <1>3 DEF Created
<1> QED
  BY <1>1, <1>2, <1>4, <1>5

LEMMA UndoKeeps ==
  ASSUME IInv, Undo, TableOK', IsFiniteSet(Generations'), UndoOK', Leftover'
  PROVE  IInv'
<1>1. /\ pc = "undo" /\ pc' = "undo" /\ Readable(start') /\ created' \in Created
      /\ UNCHANGED <<target, managed, chain, todo, obsolete, created, start, last>>
  BY UndoIs, Undone DEF Created
<1>2. trouble' \in Troubles /\ budget' \in [Disturbances -> Nat] /\ Interrupts'
  BY UndoTrouble
<1>3. Calm'
  BY <1>1, <1>2 DEF IInv, Calm, LocalsOK, LoopsEnd
<1>4. Undisrupted' /\ Prepared' /\ Candidate' /\ Finishing'
  BY <1>1 DEF Undisrupted, Prepared, Candidate, Finishing, Running, Building, Dismantling,
    Cleaning
<1>5. Readable(start) => trouble'.killed \/ trouble'.fails > 0
  BY UndoTrouble
<1>6. Blame'
  BY <1>1, <1>5 DEF Blame
<1>7. Undoing'
  BY <1>1, <1>6 DEF Undoing
<1> QED
  BY <1>3, <1>4, <1>7 DEF IInv

\* Commands on a chain that carries no traffic leave what is in force alone.
LEMMA SameForce ==
  ASSUME TableOK, SameButGenerations, Parse.mode = "managed",
         \A d \in Jumped : nat'.gens[d] = nat.gens[d]
  PROVE  Parse' = Parse
<1>1. PICK c \in Generations : /\ nat.anchors = 1 /\ nat.entry /\ nat.jumps # <<>>
                               /\ nat.jumps = <<c>> /\ Jumped = {c}
                               /\ Parse = Managed(nat.gens[c])
  BY ModeIs
<1>2. /\ nat'.anchors = 1 /\ nat'.entry /\ nat'.jumps = <<c>> /\ nat'.jumps # <<>>
      /\ nat'.gens[c] = nat.gens[c] /\ TableOK'
  BY <1>1 DEF SameButGenerations
<1>3. Reading' /\ ~Bare' /\ nat'.jumps[1] = c
  BY <1>2, ParseNext, OneJump DEF Bare
<1> QED
  BY <1>1, <1>2, <1>3 DEF Reading

\* What the two commands on the candidate do.
LEMMA ChainUndone ==
  ASSUME IInv, Undo, Head(undo) \in {"flush chain", "delete chain"}
  PROVE  /\ TableOK' /\ IsFiniteSet(Generations')
         /\ nat'.anchors = nat.anchors /\ nat'.entry = nat.entry /\ nat'.jumps = nat.jumps
         /\ Jumped' = Jumped
         /\ Parse = start /\ start.mode = "managed" /\ chain \notin Jumped => Parse' = start
         /\ Exposed => Exposed'
<1>1. /\ TableOK /\ IsFiniteSet(Generations) /\ UNCHANGED <<chain, target>>
      /\ trouble'.killed = trouble.killed
  BY Undone, UndoTrouble
<1>2. CASE UNCHANGED nat
  BY <1>1, <1>2, SameTable DEF Exposed
<1>3. CASE nat' = FlushGeneration(chain).nat /\ FlushGeneration(chain).ok
  <2>1. chain \in Generations
    BY <1>3 DEF FlushGeneration
  <2>2. /\ SameButGenerations /\ Generations' = Generations /\ nat'.gens[chain] = {}
        /\ \A d \in Generations \ {chain} : nat'.gens[d] = nat.gens[d]
    BY <1>1, <1>3, <2>1, AfterFlushGeneration
  <2>3. Jumped \subseteq Generations
    BY <1>1 DEF TableOK
  <2>4. Parse = start /\ start.mode = "managed" /\ chain \notin Jumped => Parse' = start
    BY <1>1, <2>2, <2>3, SameForce
  <2>5. Exposed => Exposed'
    BY <1>1, <2>2 DEF Exposed, SameButGenerations
  <2> QED
    BY <1>1, <2>2, <2>4, <2>5 DEF SameButGenerations
<1>4. CASE nat' = DeleteGeneration(chain).nat /\ DeleteGeneration(chain).ok
  <2>1. chain \notin Jumped
    BY <1>4 DEF DeleteGeneration
  <2>2. /\ SameButGenerations /\ Generations' = Generations \ {chain}
        /\ \A d \in Generations \ {chain} : nat'.gens[d] = nat.gens[d]
    BY <1>1, <1>4, <2>1, AfterDeleteGeneration
  <2>3. Jumped \subseteq Generations
    BY <1>1 DEF TableOK
  <2>4. Parse = start /\ start.mode = "managed" /\ chain \notin Jumped => Parse' = start
    BY <1>1, <2>1, <2>2, <2>3, SameForce
  <2>5. ~Exposed
    <3>1. nat.jumps = <<chain>> => Jumped = {chain}
      BY JumpTo, Zenon
    <3> QED
      BY <2>1, <3>1 DEF Exposed
  <2>6. IsFiniteSet(Generations')
    BY <1>1, <2>2, FS_Subset
  <2> QED
    BY <2>2, <2>4, <2>5, <2>6 DEF SameButGenerations
<1> QED
  BY <1>2, <1>3, <1>4, UndoIs DEF Ran

LEMMA UndoChainIInv ==
  ASSUME IInv, Undo, created = {"chain"}
  PROVE  IInv'
<1>1. /\ UndoOK /\ undo # <<>> /\ undo' = Tail(undo) /\ ChainToUndo
      /\ UNCHANGED <<target, chain, created, start>> /\ trouble'.killed = trouble.killed
      /\ target.mode = "managed" /\ chain \in Chains
  BY Undone, UndoTrouble DEF Leftover
<1>2. UndoOK' /\ Head(undo) \in {"flush chain", "delete chain"}
  BY <1>1, UndoChain
<1>3. /\ TableOK' /\ IsFiniteSet(Generations')
      /\ nat'.anchors = nat.anchors /\ nat'.entry = nat.entry /\ nat'.jumps = nat.jumps
      /\ Jumped' = Jumped
      /\ Parse = start /\ start.mode = "managed" /\ chain \notin Jumped => Parse' = start
      /\ Exposed => Exposed'
  BY <1>2, ChainUndone
<1>4. ChainToUndo'
  BY <1>1, <1>3 DEF ChainToUndo
<1>5. Leftover'
  BY <1>1, <1>4, DifferentCleanups DEF Leftover
<1> QED
  BY <1>2, <1>3, <1>5, UndoKeeps

\* What the two commands on the entry chain do, and the one on the anchor.
LEMMA EntryFlushed ==
  ASSUME IInv, Undo, Head(undo) = "flush entry"
  PROVE  /\ TableOK' /\ IsFiniteSet(Generations') /\ nat'.anchors = nat.anchors
         /\ nat.jumps = <<>> \/ Exposed => nat'.jumps = <<>> \/ Exposed'
<1>1. /\ TableOK /\ IsFiniteSet(Generations) /\ UNCHANGED <<chain, target>>
      /\ trouble'.killed = trouble.killed
  BY Undone, UndoTrouble
<1>2. CASE UNCHANGED nat
  BY <1>1, <1>2, SameTable DEF Exposed
<1>3. CASE nat' = FlushEntry.nat
  BY <1>1, <1>3, AfterFlushEntry DEF SameGenerations
<1> QED
  BY <1>2, <1>3, UndoIs DEF Ran

LEMMA EntryDeleted ==
  ASSUME IInv, Undo, Head(undo) = "delete entry"
  PROVE  /\ TableOK' /\ IsFiniteSet(Generations') /\ nat'.anchors = nat.anchors
         /\ nat'.jumps = nat.jumps /\ (Exposed => Exposed')
         /\ Undisturbed /\ nat.jumps = <<>> /\ nat.anchors = 0 => ~nat'.entry
<1>1. /\ TableOK /\ IsFiniteSet(Generations) /\ UNCHANGED <<chain, target>>
      /\ trouble'.killed = trouble.killed /\ nat.entry \in BOOLEAN
  BY Undone, UndoTrouble DEF TableOK, Tables
<1>2. CASE UNCHANGED nat /\ (FailOnce \/ ~DeleteEntry.ok)
  <2>1. ~(FailOnce /\ Undisturbed)
    BY UndoTrouble
  <2>2. ~DeleteEntry.ok /\ nat.jumps = <<>> /\ nat.anchors = 0 => ~nat.entry
    BY DEF DeleteEntry
  <2> QED
    BY <1>1, <1>2, <2>1, <2>2, SameTable DEF Exposed
<1>3. CASE nat' = DeleteEntry.nat /\ DeleteEntry.ok
  <2>1. nat.jumps = <<>> /\ nat.anchors = 0
    BY <1>3 DEF DeleteEntry
  <2>2. ~Exposed
    BY <2>1, OneJump DEF Exposed
  <2> QED
    BY <1>1, <1>3, <2>1, <2>2, AfterDeleteEntry DEF SameGenerations
<1> QED
  BY <1>2, <1>3, UndoIs DEF Ran

LEMMA AnchorDeleted ==
  ASSUME IInv, Undo, Head(undo) = "delete anchor"
  PROVE  /\ TableOK' /\ IsFiniteSet(Generations') /\ nat'.jumps = nat.jumps
         /\ (Exposed => Exposed')
         /\ Undisturbed => nat'.anchors = 0
<1>1. /\ TableOK /\ IsFiniteSet(Generations) /\ UNCHANGED <<chain, target>>
      /\ trouble'.killed = trouble.killed
  BY Undone, UndoTrouble
<1>2. CASE UNCHANGED nat /\ (FailOnce \/ ~DeleteAnchor.ok)
  <2>1. ~(FailOnce /\ Undisturbed)
    BY UndoTrouble
  <2>2. ~DeleteAnchor.ok => nat.anchors = 0
    <3>1. DeleteAnchor.ok = (nat.anchors > 0)
      BY DEF DeleteAnchor
    <3> QED
      BY <1>1, <3>1, Anchors
  <2> QED
    BY <1>1, <1>2, <2>1, <2>2, SameTable DEF Exposed
<1>3. CASE nat' = DeleteAnchor.nat /\ DeleteAnchor.ok
  <2>1. nat.anchors > 0
    BY <1>3 DEF DeleteAnchor
  <2>2. SameGenerations /\ nat'.anchors = 0 /\ nat'.jumps = nat.jumps
    BY <1>1, <1>3, <2>1, AfterDeleteAnchor
  <2>3. Exposed => Exposed'
    BY <1>1, <2>2 DEF Exposed, SameGenerations
  <2> QED
    BY <1>1, <2>2, <2>3 DEF SameGenerations
<1> QED
  BY <1>2, <1>3, UndoIs DEF Ran

LEMMA UndoEntryIInv ==
  ASSUME IInv, Undo, created = {"chain", "entry"}
  PROVE  IInv'
<1>1. /\ UndoOK /\ undo # <<>> /\ undo' = Tail(undo) /\ EntryToUndo
      /\ UNCHANGED <<target, chain, created, start>> /\ trouble'.killed = trouble.killed
      /\ target.mode = "managed" /\ chain \in Chains /\ Readable(start)
      /\ Undisturbed \/ FailOnce
      /\ FailOnce => ~CleanupWorks'
  <2>1. created # {}
    BY DifferentCleanups
  <2>2. EntryToUndo /\ target.mode = "managed" /\ chain \in Chains
    BY <2>1, Undone DEF Leftover
  <2> QED
    BY <2>2, Undone, UndoTrouble
<1>2. /\ UndoOK' /\ Head(undo) \in {"flush chain", "delete chain", "flush entry", "delete entry"}
      /\ undo' = <<>> => Head(undo) = "delete entry"
  BY <1>1, UndoEntryChain
<1>3. nat.jumps = <<>> /\ (nat.anchors = 0 \/ trouble.killed) /\ start = Absent
  BY <1>1 DEF EntryToUndo
<1>4. ~Exposed
  BY <1>3, OneJump DEF Exposed
<1>5. /\ TableOK' /\ IsFiniteSet(Generations') /\ nat'.jumps = <<>> /\ nat'.anchors = nat.anchors
      /\ undo' = <<>> /\ Undisturbed /\ nat.anchors = 0 => ~nat'.entry
  <2>1. CASE Head(undo) \in {"flush chain", "delete chain"}
    BY <1>2, <1>3, <2>1, ChainUndone
  <2>2. CASE Head(undo) = "flush entry"
    <3>1. /\ TableOK' /\ IsFiniteSet(Generations') /\ nat'.anchors = nat.anchors
      BY <2>2, EntryFlushed
    <3>2. nat'.jumps = <<>>
      BY <1>3, <2>2, UndoIs, AfterFlushEntry, Undone DEF Ran
    <3> QED
      BY <1>2, <2>2, <3>1, <3>2
  <2>3. CASE Head(undo) = "delete entry"
    BY <1>3, <2>3, EntryDeleted
  <2> QED
    BY <1>2, <2>1, <2>2, <2>3
<1>6. EntryToUndo'
  BY <1>1, <1>3, <1>5 DEF EntryToUndo
<1>7. Leftover'
  BY <1>1, <1>6, DifferentCleanups DEF Leftover
<1> QED
  BY <1>2, <1>5, <1>7, UndoKeeps

LEMMA UndoAnchorIInv ==
  ASSUME IInv, Undo, created = {"chain", "entry", "anchor"}
  PROVE  IInv'
<1>1. /\ UndoOK /\ undo # <<>> /\ undo' = Tail(undo) /\ AnchorToUndo
      /\ UNCHANGED <<target, chain, created, start>> /\ trouble'.killed = trouble.killed
      /\ target.mode = "managed" /\ chain \in Chains /\ Readable(start)
      /\ Undisturbed \/ FailOnce
      /\ FailOnce => ~CleanupWorks'
      /\ Undisturbed => (CleanupWorks' <=> CleanupWorks)
  <2>1. created # {}
    BY DifferentCleanups
  <2>2. AnchorToUndo /\ target.mode = "managed" /\ chain \in Chains
    BY <2>1, Undone DEF Leftover
  <2> QED
    BY <2>2, Undone, UndoTrouble
<1>2. /\ UndoOK' /\ Head(undo) \in Commands
      /\ undo' = <<>> => Head(undo) = "delete entry" /\ undo \in UndoEntry
      /\ undo' \in UndoEntry => undo \in UndoEntry \/ Head(undo) = "delete anchor"
  BY <1>1, UndoAnchor
<1>3. /\ start = Absent /\ (nat.jumps = <<>> \/ Exposed)
      /\ CleanupWorks /\ undo \in UndoEntry => nat.anchors = 0
  BY <1>1 DEF AnchorToUndo
<1>4. /\ TableOK' /\ IsFiniteSet(Generations') /\ (nat'.jumps = <<>> \/ Exposed')
      /\ nat'.anchors = nat.anchors \/ (Undisturbed => nat'.anchors = 0)
      /\ Head(undo) = "delete anchor" => (Undisturbed => nat'.anchors = 0)
      /\ Head(undo) # "delete anchor" => nat'.anchors = nat.anchors
      /\ Head(undo) = "delete entry" /\ Undisturbed /\ nat.jumps = <<>> /\ nat.anchors = 0 =>
           ~nat'.entry
  <2>1. CASE Head(undo) \in {"flush chain", "delete chain"}
    BY <1>3, <2>1, ChainUndone
  <2>2. CASE Head(undo) = "flush entry"
    BY <1>3, <2>2, EntryFlushed
  <2>3. CASE Head(undo) = "delete entry"
    BY <1>3, <2>3, EntryDeleted
  <2>4. CASE Head(undo) = "delete anchor"
    BY <1>3, <2>4, AnchorDeleted
  <2> QED
    BY <1>2, <2>1, <2>2, <2>3, <2>4 DEF Commands
<1>5. CleanupWorks' => Undisturbed /\ CleanupWorks
  BY <1>1
<1>6. CleanupWorks' /\ undo' \in UndoEntry => nat'.anchors = 0
  <2> SUFFICES ASSUME CleanupWorks', undo' \in UndoEntry PROVE nat'.anchors = 0
    OBVIOUS
  <2>1. CASE Head(undo) = "delete anchor"
    BY <1>4, <1>5, <2>1
  <2>2. CASE Head(undo) # "delete anchor"
    BY <1>2, <1>3, <1>4, <1>5, <2>2
  <2> QED
    BY <2>1, <2>2
<1>7. ~trouble'.killed /\ CleanupWorks' /\ undo' = <<>> => ~nat'.entry
  <2> SUFFICES ASSUME ~trouble'.killed, CleanupWorks', undo' = <<>> PROVE ~nat'.entry
    OBVIOUS
  <2>1. ~Exposed
    BY <1>1 DEF Exposed
  <2> QED
    BY <1>2, <1>3, <1>4, <1>5, <2>1
<1>8. AnchorToUndo'
  BY <1>1, <1>3, <1>4, <1>6, <1>7 DEF AnchorToUndo
<1>9. Leftover'
  BY <1>1, <1>8, DifferentCleanups DEF Leftover
<1> QED
  BY <1>2, <1>4, <1>9, UndoKeeps

LEMMA UndoIInv == ASSUME IInv, Undo PROVE IInv'
BY Undone, UndoChainIInv, UndoEntryIInv, UndoAnchorIInv

LEMMA LeaveIInv ==
  ASSUME IInv, UNCHANGED nat, NEW t, Leave(t), budget' \in [Disturbances -> Nat],
         budget'["cancel"] = budget["cancel"]
  PROVE  IInv'
<1> USE DEF Leave
<1>1. /\ TableOK' /\ Generations' = Generations
      /\ NoTrouble \in Troubles /\ NoTrouble.killed = FALSE
  BY SameTable DEF IInv, Calm, NoTrouble, Troubles
<1>2. Absent \in FamilyState
  BY DEF Absent, FamilyState
<1>3. IsFiniteSet({})
  BY FS_EmptySet
<1>4. Calm'
  BY <1>1, <1>2, <1>3 DEF IInv, Calm, LocalsOK, LoopsEnd, Interrupts
<1>5. Undisrupted' /\ Prepared' /\ Candidate' /\ Finishing' /\ Undoing'
  BY DEF Undisrupted, Prepared, Candidate, Finishing, Undoing, Running, Building, Dismantling,
    Cleaning
<1> QED
  BY <1>4, <1>5 DEF IInv

LEMMA ReturnIInv == ASSUME IInv, Return PROVE IInv'
<1>1. UNCHANGED nat /\ Leave(trouble) /\ budget' = budget
  BY DEF Return
<1>2. budget \in [Disturbances -> Nat]
  BY DEF IInv, Calm, LocalsOK
<1> QED
  BY <1>1, <1>2, LeaveIInv

LEMMA CrashIInv == ASSUME IInv, Crash PROVE IInv'
<1> DEFINE t == [trouble EXCEPT !.crashed = TRUE]
<1>1. /\ UNCHANGED nat /\ Leave(t)
      /\ budget["crash"] > 0 /\ budget' = [budget EXCEPT !["crash"] = @ - 1]
  BY DEF Crash, Spend
<1>2. budget \in [Disturbances -> Nat]
  BY DEF IInv, Calm, LocalsOK
<1>3. budget' \in [Disturbances -> Nat] /\ budget'["cancel"] = budget["cancel"]
  BY <1>1, <1>2 DEF Disturbances
<1> HIDE DEF t
<1> QED
  BY <1>1, <1>3, LeaveIInv

LEMMA InitIInv == Init => IInv
<1> SUFFICES ASSUME Init PROVE IInv
  OBVIOUS
<1> USE DEF Init
<1>1. /\ nat.anchors = 0 /\ nat.entry = FALSE /\ nat.jumps = <<>> /\ DOMAIN nat.gens = {}
      /\ nat.gens = [c \in {} |-> {}]
  BY DEF EmptyTable
<1>2. Jumped = {} /\ Generations = {} /\ Bare
  BY <1>1, NoJumps DEF Generations, Bare
<1>3. TableOK
  <2>1. [c \in {} |-> {}] \in [{} -> SUBSET Rule]
    OBVIOUS
  <2>2. nat.gens \in GenMaps
    BY <1>1, <2>1 DEF GenMaps
  <2>3. nat \in Tables
    BY <2>2 DEF Tables, EmptyTable
  <2> QED
    BY <1>1, <1>2, <2>3 DEF TableOK
<1>4. LocalsOK
  BY BudgetAssumption DEF LocalsOK, Troubles, NoTrouble, Absent, FamilyState
<1>5. LoopsEnd
  BY <1>2, FS_EmptySet DEF LoopsEnd
<1>6. Interrupts
  BY BudgetAssumption DEF Interrupts, Disturbances, NoTrouble
<1>7. Undisrupted /\ Prepared /\ Candidate /\ Finishing /\ Undoing
  BY DEF Undisrupted, Prepared, Candidate, Finishing, Undoing, Running, Building, Dismantling,
    Cleaning
<1> QED
  BY <1>3, <1>4, <1>5, <1>6, <1>7 DEF IInv, Calm

LEMMA StutterIInv == ASSUME IInv, UNCHANGED vars PROVE IInv'
<1> USE DEF vars, locals
<1>1. TableOK' /\ Parse' = Parse /\ Generations' = Generations /\ Jumped' = Jumped
  BY SameTable DEF IInv, Calm
<1>2. Calm'
  BY <1>1 DEF IInv, Calm, LocalsOK, LoopsEnd, Interrupts
<1>3. Undisrupted' /\ Prepared'
  BY <1>1 DEF IInv, Undisrupted, Prepared
<1>4. Candidate' /\ Finishing'
  BY <1>1 DEF IInv, Candidate, Finishing, Loose, Bare
<1>5. Undoing'
  BY <1>1 DEF IInv, Undoing, UndoOK, Blame, Leftover, NothingToUndo, ChainToUndo, EntryToUndo,
    AnchorToUndo, Exposed, CleanupWorks
<1> QED
  BY <1>2, <1>3, <1>4, <1>5 DEF IInv

LEMMA NextIInv == ASSUME IInv, Next PROVE IInv'
<1>1. CASE \E t \in Targets : Begin(t)
  BY <1>1, BeginIInv
<1>2. CASE Step
  BY <1>2, SnapshotIInv, NewChainIInv, AppendOneIInv, NewEntryIInv, AddAnchorIInv, ActivateIInv,
    SwitchIInv, FlushObsoleteIInv, RemoveObsoleteIInv, DeleteAnchorIInv, FlushEntryIInv,
    DeleteEntryIInv, UndoIInv, ReturnIInv, Zenon DEF Step
<1>3. CASE Crash
  BY <1>3, CrashIInv
<1> QED
  BY <1>1, <1>2, <1>3 DEF Next

\* The invariant holds of every reachable state, whatever commands failed, were killed or
\* never ran (applyFamily iptables.go:129-202, deleteFamily :450-484).
THEOREM Invariant == Spec => []IInv
<1>1. Init => IInv
  BY InitIInv
<1>2. IInv /\ [Next]_vars => IInv'
  BY NextIInv, StutterIInv
<1> QED
  BY <1>1, <1>2, PTL DEF Spec

--------------------------------------------------------------------------------
(* What the invariant gives *)

\* The types, and the shape of the table: one anchor and one jump at most, no jump that
\* dangles, whatever was interrupted (applyFamily iptables.go:129-202, deleteFamily :450-484).
THEOREM TypesAndShape == Spec => []TypeOK
<1>1. ASSUME IInv PROVE TypeOK
  <2>1. TableOK /\ LocalsOK
    BY <1>1 DEF IInv, Calm
  <2>2. nat.anchors \in 0..1 /\ nat.entry \in BOOLEAN
    BY <2>1 DEF TableOK, Tables
  <2>3. Len(nat.jumps) <= 1
    <3>1. Len(<<>>) = 0 /\ \A c \in Chains : Len(<<c>>) = 1
      OBVIOUS
    <3>2. Len(nat.jumps) \in {0, 1}
      BY <2>1, <3>1 DEF TableOK, Tables
    <3>3. \A n \in {0, 1} : n <= 1
      OBVIOUS
    <3> QED
      BY <3>2, <3>3, Zenon
  <2>4. /\ Jumped \subseteq Generations /\ Generations \subseteq Chains
        /\ \A c \in Generations : nat.gens[c] \subseteq Rule
    BY <2>1, Gens DEF TableOK
  <2>5. nat.jumps # <<>> \/ nat.anchors > 0 => nat.entry
    BY <2>1 DEF TableOK
  <2>6. created \subseteq {"chain", "anchor", "entry"}
    <3>1. created \in Created
      BY <1>1 DEF IInv, Calm, Undisrupted, Candidate, Undoing, Created, Running, Building,
        Dismantling, Cleaning
    <3> QED
      BY <3>1 DEF Created
  <2> QED
    BY <2>1, <2>2, <2>3, <2>4, <2>5, <2>6 DEF TypeOK, LocalsOK
<1>2. IInv => TypeOK
  BY <1>1
<1> QED
  BY <1>2, Invariant, PTL

\* What a step can make of the table.
StepChanges ==
  \/ UNCHANGED nat
  \/ pc = "new chain" /\ \E c \in Chains \ Generations : nat' = NewGeneration(c).nat
  \/ pc = "append" /\ \E r \in todo : nat' = AppendRule(chain, r).nat
  \/ pc = "new entry" /\ nat' = NewEntry.nat
  \/ pc = "add anchor" /\ nat' = AddAnchor.nat
  \/ pc = "activate" /\ nat' = AddJump(chain).nat
  \/ pc = "switch" /\ nat' = ReplaceJump(chain).nat
  \/ pc = "flush" /\ \E c \in obsolete : nat' = FlushGeneration(c).nat
  \/ pc = "remove" /\ nat' = DeleteGeneration(chain).nat
  \/ pc = "delete anchor" /\ nat' = DeleteAnchor.nat
  \/ pc = "flush entry" /\ nat' = FlushEntry.nat
  \/ pc = "delete entry" /\ nat' = DeleteEntry.nat

LEMMA StepTable == ASSUME Step PROVE StepChanges \/ Undo
<1> USE DEF At
<1>1. CASE Snapshot
  BY <1>1 DEF Snapshot, Run, Only, StepChanges
<1>2. CASE NewChain
  <2>1. pc = "new chain"
    BY <1>2 DEF NewChain
  <2>2. PICK c \in Chains \ Generations : UNCHANGED nat \/ nat' = NewGeneration(c).nat
    <3>1. \A c : \A x \in {nat} \cup Only(NewGeneration(c).ok, NewGeneration(c).nat) :
            x = nat \/ x = NewGeneration(c).nat
      BY DEF Only
    <3> QED
      BY <1>2, <3>1, Zenon DEF NewChain, Run
  <2> QED
    BY <2>1, <2>2 DEF StepChanges
<1>3. CASE AppendOne
  <2>1. pc = "append"
    BY <1>3 DEF AppendOne
  <2>2. PICK r \in todo : UNCHANGED nat \/ nat' = AppendRule(chain, r).nat
    <3>1. \A r : \A x \in {nat} \cup Only(AppendRule(chain, r).ok, AppendRule(chain, r).nat) :
            x = nat \/ x = AppendRule(chain, r).nat
      BY DEF Only
    <3> QED
      BY <1>3, <3>1, Zenon DEF AppendOne, Run
  <2> QED
    BY <2>1, <2>2 DEF StepChanges
<1>4. \A command : \A x \in {nat} \cup Only(command.ok, command.nat) : x = nat \/ x = command.nat
  BY DEF Only
<1>5. CASE Create("new entry", NewEntry, "entry", "add anchor")
  BY <1>4, <1>5, Zenon DEF Create, Run, StepChanges
<1>6. CASE Create("add anchor", AddAnchor, "anchor", "activate")
  BY <1>4, <1>6, Zenon DEF Create, Run, StepChanges
<1>7. CASE Enforce("activate", AddJump(chain))
  BY <1>4, <1>7, Zenon DEF Enforce, Run, StepChanges
<1>8. CASE Enforce("switch", ReplaceJump(chain))
  BY <1>4, <1>8, Zenon DEF Enforce, Run, StepChanges
<1>9. CASE FlushObsolete
  <2>1. pc = "flush"
    BY <1>9 DEF FlushObsolete
  <2>2. PICK c \in obsolete : UNCHANGED nat \/ nat' = FlushGeneration(c).nat
    BY <1>4, <1>9, Zenon DEF FlushObsolete, Run
  <2> QED
    BY <2>1, <2>2 DEF StepChanges
<1>10. CASE RemoveObsolete
  BY <1>4, <1>10, Zenon DEF RemoveObsolete, Run, StepChanges
<1>11. CASE Dismantle("delete anchor", DeleteAnchor, "flush entry")
  BY <1>4, <1>11, Zenon DEF Dismantle, Run, StepChanges
<1>12. CASE Dismantle("flush entry", FlushEntry, Cleaned(obsolete))
  BY <1>4, <1>12, Zenon DEF Dismantle, Run, StepChanges
<1>13. CASE Dismantle("delete entry", DeleteEntry, "return")
  BY <1>4, <1>13, Zenon DEF Dismantle, Run, StepChanges
<1>14. CASE Return
  BY <1>14 DEF Return, StepChanges
<1> QED
  BY <1>1, <1>2, <1>3, <1>5, <1>6, <1>7, <1>8, <1>9, <1>10, <1>11, <1>12, <1>13, <1>14, Zenon
  DEF Step

\* A call that met no trouble leaves its target and nothing else: orphans of any number of
\* earlier calls are gone (applyFamily iptables.go:186-201, deleteFamily :455-482).
THEOREM CleanReturns == Spec => NoLitter
<1> DEFINE Clean == pc = "return" /\ pc' = "idle" =>
                      /\ nat'.entry <=> target # Absent
                      /\ DOMAIN nat'.gens = {nat'.jumps[i] : i \in DOMAIN nat'.jumps}
<1>1. ASSUME IInv, [Next]_vars PROVE Clean
  <2> SUFFICES ASSUME pc = "return", pc' = "idle"
               PROVE  /\ nat'.entry <=> target # Absent
                      /\ DOMAIN nat'.gens = {nat'.jumps[i] : i \in DOMAIN nat'.jumps}
    OBVIOUS
  <2>1. UNCHANGED nat
    <3>1. CASE Step
      <4>1. ~Undo
        BY UndoIs
      <4> QED
        BY <3>1, <4>1, StepTable DEF StepChanges
    <3> QED
      BY <1>1, <3>1 DEF Next, Begin, Crash, vars
  <2>2. Parse = target /\ Generations = Jumped /\ TableOK
    BY <1>1 DEF IInv, Calm, Finishing
  <2>3. nat.entry <=> target # Absent
    <3>1. CASE target = Absent
      BY <2>2, <3>1, ModeIs DEF Bare
    <3>2. CASE target # Absent
      BY <1>1, <2>2, <3>2, ModeIs, Targeted
    <3> QED
      BY <3>1, <3>2
  <2> QED
    BY <2>1, <2>2, <2>3 DEF Generations, Jumped
<1>2. Spec => [][Clean]_vars
  BY <1>1, Invariant, PTL DEF Spec
<1> QED
  BY <1>2, PTL DEF NoLitter

LEMMA NoRedirects == nat.anchors = 0 \/ nat.jumps = <<>> => Redirects = {}
<1>1. nat.anchors = 0 => ~(nat.anchors > 0)
  OBVIOUS
<1> QED
  BY <1>1, Zenon DEF Redirects

LEMMA NoRedirectsNext == (nat.anchors = 0 \/ nat.jumps = <<>> => Redirects = {})'
BY NoRedirects, PTL

LEMMA SameRedirects ==
  ASSUME TableOK, nat'.anchors = nat.anchors, nat'.jumps = nat.jumps,
         \A d \in Jumped : nat'.gens[d] = nat.gens[d]
  PROVE  Redirects' = Redirects
<1>1. CASE nat.jumps = <<>>
  BY <1>1 DEF Redirects
<1>2. CASE nat.jumps # <<>>
  <2>1. PICK c \in Generations : nat.jumps = <<c>> /\ Jumped = {c}
    BY <1>2, Jumps
  <2>2. nat'.gens[nat.jumps[1]] = nat.gens[nat.jumps[1]]
    BY <2>1, OneJump
  <2> QED
    BY <2>2 DEF Redirects
<1> QED
  BY <1>1, <1>2

\* The one command of applyFamily that changes what packets meet.
LEMMA CandidateInForce ==
  ASSUME IInv, \/ pc = "activate" /\ nat' = AddJump(chain).nat
               \/ pc = "switch" /\ nat' = ReplaceJump(chain).nat
  PROVE  Redirects' = target.rules
<1>1. /\ TableOK /\ chain \in Generations /\ nat.gens[chain] = target.rules
      /\ nat.anchors = 1 /\ nat.entry
      /\ pc = "activate" => nat.jumps = <<>>
      /\ pc = "switch" => nat.jumps # <<>>
  <2>1. CASE pc = "activate"
    BY <2>1, Entering DEF Loose
  <2>2. CASE pc = "switch"
    <3>1. managed = TRUE /\ todo = {}
      BY <2>2 DEF IInv, Calm, LocalsOK, Candidate, Building
    <3>2. /\ TableOK /\ Parse.mode = "managed" /\ chain \in Generations
          /\ nat.gens[chain] = target.rules
      BY <2>2, <3>1, Filling
    <3> QED
      BY <2>2, <3>2, ModeIs
  <2> QED
    BY <2>1, <2>2
<1>2. SameGenerations /\ nat'.anchors = nat.anchors /\ nat'.jumps = <<chain>>
  BY <1>1, AfterJump
<1>3. nat'.anchors = 1 /\ nat'.jumps # <<>> /\ nat'.gens[nat'.jumps[1]] = target.rules
  BY <1>1, <1>2, OneJump DEF SameGenerations
<1>4. nat'.anchors > 0
  <2>1. 1 > 0
    OBVIOUS
  <2> QED
    BY <1>3, <2>1, Zenon
<1> QED
  BY <1>3, <1>4, Zenon DEF Redirects

\* The commands on the candidate and on chains nothing refers to.
LEMMA OffTraffic ==
  ASSUME IInv, \/ pc = "new chain" /\ \E c \in Chains \ Generations : nat' = NewGeneration(c).nat
               \/ pc = "append" /\ \E r \in todo : nat' = AppendRule(chain, r).nat
               \/ pc = "flush" /\ \E c \in obsolete : nat' = FlushGeneration(c).nat
               \/ pc = "remove" /\ nat' = DeleteGeneration(chain).nat
  PROVE  Redirects' = Redirects
<1>1. TableOK /\ Jumped \subseteq Generations
  BY DEF IInv, Calm, TableOK
<1>2. SUFFICES /\ nat'.anchors = nat.anchors /\ nat'.jumps = nat.jumps
               /\ \A d \in Jumped : nat'.gens[d] = nat.gens[d]
  BY <1>1, SameRedirects
<1> USE DEF SameButGenerations
<1>3. CASE pc = "new chain" /\ \E c \in Chains \ Generations : nat' = NewGeneration(c).nat
  BY <1>1, <1>3, AfterNewGeneration
<1>4. CASE pc = "append" /\ \E r \in todo : nat' = AppendRule(chain, r).nat
  <2>1. PICK r \in todo : nat' = AppendRule(chain, r).nat
    BY <1>4
  <2>2. chain \in Generations /\ chain \notin Jumped /\ todo \subseteq Rule
    BY <1>4, Filling DEF IInv, Calm, LocalsOK
  <2> QED
    BY <1>1, <2>1, <2>2, AfterAppendRule
<1>5. CASE pc = "flush" /\ \E c \in obsolete : nat' = FlushGeneration(c).nat
  <2>1. PICK c \in obsolete : nat' = FlushGeneration(c).nat
    BY <1>5
  <2>2. c \in Generations /\ c \notin Jumped
    BY <1>5, Tidying
  <2> QED
    BY <1>1, <2>1, <2>2, AfterFlushGeneration
<1>6. CASE pc = "remove" /\ nat' = DeleteGeneration(chain).nat
  <2>1. chain \notin Jumped
    BY <1>6, Tidying DEF IInv, Finishing
  <2> QED
    BY <1>1, <1>6, <2>1, AfterDeleteGeneration
<1> QED
  BY <1>3, <1>4, <1>5, <1>6

\* The commands that make or take apart an entry chain that carries no traffic, and the
\* one that takes the traffic off it.
LEMMA NoTraffic ==
  ASSUME IInv, \/ pc = "new entry" /\ nat' = NewEntry.nat
               \/ pc = "add anchor" /\ nat' = AddAnchor.nat
               \/ pc = "delete anchor" /\ nat' = DeleteAnchor.nat
               \/ pc = "flush entry" /\ nat' = FlushEntry.nat
               \/ pc = "delete entry" /\ nat' = DeleteEntry.nat
  PROVE  Redirects' = Redirects \/ Redirects' = target.rules
<1>1. TableOK
  BY DEF IInv, Calm
<1> USE DEF SameGenerations
<1>2. CASE pc = "new entry" /\ nat' = NewEntry.nat
  BY <1>1, <1>2, AfterNewEntry, SameRedirects
<1>3. CASE pc = "add anchor" /\ nat' = AddAnchor.nat
  <2>1. nat.jumps = <<>> /\ nat.anchors = 0 /\ nat.entry
    BY <1>3, Entering DEF Loose
  <2>2. nat'.jumps = <<>>
    BY <1>1, <1>3, <2>1, AfterAddAnchor
  <2> QED
    BY <2>1, <2>2, NoRedirects, NoRedirectsNext
<1>4. CASE pc = "delete anchor" /\ nat' = DeleteAnchor.nat
  <2>1. target = Absent /\ Parse.mode = "managed"
    BY <1>4, TakingApart DEF IInv, Prepared, Dismantling
  <2>2. nat.anchors > 0
    BY <1>1, <2>1, ModeIs, Anchors
  <2>3. nat'.anchors = 0
    BY <1>1, <1>4, <2>2, AfterDeleteAnchor
  <2>4. Redirects' = {} /\ target.rules = {}
    BY <2>1, <2>3, NoRedirectsNext DEF Absent
  <2> QED
    BY <2>4
<1>5. CASE pc = "flush entry" /\ nat' = FlushEntry.nat
  <2>1. nat.anchors = 0
    BY <1>5 DEF IInv, Finishing
  <2>2. nat'.anchors = 0
    BY <1>1, <1>5, <2>1, AfterFlushEntry
  <2> QED
    BY <2>1, <2>2, NoRedirects, NoRedirectsNext
<1>6. CASE pc = "delete entry" /\ nat' = DeleteEntry.nat
  <2>1. nat.anchors = 0 /\ nat.jumps = <<>>
    BY <1>6 DEF IInv, Finishing, Loose
  <2>2. nat'.anchors = 0
    BY <1>1, <1>6, <2>1, AfterDeleteEntry
  <2> QED
    BY <2>1, <2>2, NoRedirects, NoRedirectsNext
<1> QED
  BY <1>2, <1>3, <1>4, <1>5, <1>6

\* The deferred cleanup of a call that was not interrupted finds its candidate off the
\* traffic.
LEMMA CleanupOffTraffic ==
  ASSUME IInv, Undo, ~trouble.killed
  PROVE  Redirects' = Redirects
<1>1. /\ TableOK /\ Leftover
      /\ created \in {{"chain"}, {"chain", "entry"}, {"chain", "entry", "anchor"}}
  BY Undone
<1>2. /\ Head(undo) \in Commands
      /\ created = {"chain"} => Head(undo) \in {"flush chain", "delete chain"}
  BY <1>1, Undone, UndoChain, UndoEntryChain, UndoAnchor DEF Commands
<1>3. ~Exposed
  BY DEF Exposed
<1>4. CASE created = {"chain"} /\ start.mode = "managed"
  <2>1. Parse.mode = "managed" /\ chain \notin Jumped /\ Jumped \subseteq Generations
    BY <1>1, <1>3, <1>4 DEF Leftover, ChainToUndo, TableOK
  <2>2. CASE UNCHANGED nat
    BY <1>1, <2>2, SameRedirects
  <2>3. CASE nat' = FlushGeneration(chain).nat /\ FlushGeneration(chain).ok
    <3>1. chain \in Generations
      BY <2>3 DEF FlushGeneration
    <3>2. SameButGenerations /\ \A d \in Generations \ {chain} : nat'.gens[d] = nat.gens[d]
      BY <1>1, <2>3, <3>1, AfterFlushGeneration
    <3> QED
      BY <1>1, <2>1, <3>2, SameRedirects DEF SameButGenerations
  <2>4. CASE nat' = DeleteGeneration(chain).nat
    <3>1. SameButGenerations /\ \A d \in Generations \ {chain} : nat'.gens[d] = nat.gens[d]
      BY <1>1, <2>1, <2>4, AfterDeleteGeneration
    <3> QED
      BY <1>1, <2>1, <3>1, SameRedirects DEF SameButGenerations
  <2> QED
    BY <1>2, <1>4, <2>2, <2>3, <2>4, UndoIs DEF Ran
<1>5. CASE ~(created = {"chain"} /\ start.mode = "managed")
  <2>1. nat.jumps = <<>>
    BY <1>1, <1>3, <1>5 DEF Leftover, ChainToUndo, EntryToUndo, AnchorToUndo
  <2>2. nat'.jumps = <<>>
    <3>1. CASE Head(undo) \in {"flush chain", "delete chain"}
      BY <2>1, <3>1, ChainUndone
    <3>2. CASE Head(undo) = "flush entry"
      BY <1>1, <2>1, <3>2, UndoIs, AfterFlushEntry DEF Ran
    <3>3. CASE Head(undo) = "delete entry"
      BY <2>1, <3>3, EntryDeleted
    <3>4. CASE Head(undo) = "delete anchor"
      BY <2>1, <3>4, AnchorDeleted
    <3> QED
      BY <1>2, <3>1, <3>2, <3>3, <3>4 DEF Commands
  <2> QED
    BY <2>1, <2>2, NoRedirects, NoRedirectsNext
<1> QED
  BY <1>4, <1>5

\* Until a first interrupt, what packets meet changes in one command, to the rules asked
\* for: the candidate is off the traffic while it is filled, one AddJump or ReplaceJump puts
\* it in force, and neither an error path nor a later command touches it (applyFamily
\* iptables.go:160-185, its deferred function :145-159, deleteFamily :450-484).
THEOREM SwitchesAreAtomic == Spec => AtomicUntilInterrupt
<1> DEFINE Atomically == Redirects' # Redirects /\ budget'["cancel"] = Budget["cancel"] =>
                           Redirects' \in {start.rules, target.rules}
<1>1. ASSUME IInv, [Next]_vars PROVE Atomically
  <2>1. CASE UNCHANGED nat
    BY <2>1 DEF Redirects
  <2>2. CASE StepChanges
    BY <1>1, <2>1, <2>2, CandidateInForce, OffTraffic, NoTraffic DEF StepChanges
  <2>3. CASE Undo
    <3>1. trouble.killed => budget'["cancel"] < Budget["cancel"]
      BY <1>1, <2>3, UndoTrouble DEF Interrupts
    <3>2. budget'["cancel"] \in Nat
      BY <1>1, <2>3, UndoTrouble DEF Disturbances
    <3>3. trouble.killed => budget'["cancel"] # Budget["cancel"]
      BY <3>1, <3>2
    <3>4. trouble.killed \in BOOLEAN
      BY <1>1 DEF IInv, Calm, LocalsOK, Troubles
    <3>5. ~trouble.killed => Redirects' = Redirects
      BY <1>1, <2>3, CleanupOffTraffic
    <3> QED
      BY <3>3, <3>4, <3>5
  <2> QED
    BY <1>1, <2>1, <2>2, <2>3, StepTable DEF Next, Begin, Crash, vars
<1>2. Spec => [][Atomically]_vars
  BY <1>1, Invariant, PTL DEF Spec
<1> QED
  BY <1>2, PTL DEF AtomicUntilInterrupt

--------------------------------------------------------------------------------
(* Termination *)

Stages ==
  /\ pc = "snapshot" => Stage = 9
  /\ pc = "new chain" => Stage = 8
  /\ pc = "append" => Stage = 7
  /\ pc = "new entry" => Stage = 6
  /\ pc = "add anchor" => Stage = 5
  /\ pc \in {"activate", "switch"} => Stage = 4
  /\ pc = "delete anchor" => Stage = 3
  /\ pc = "flush entry" => Stage = 2
  /\ pc \in {"flush", "remove"} => Stage = 1
  /\ pc \in {"delete entry", "return", "undo"} => Stage = 0
Lefts ==
  /\ pc = "append" => Left = Cardinality(todo)
  /\ pc = "flush" => Left = 2 * Cardinality(obsolete) + 1
  /\ pc = "remove" => Left = 2 * Cardinality(obsolete)
  /\ pc = "delete entry" => Left = 6
  /\ pc = "undo" => Left = Len(undo)
  /\ pc = "return" => Left = 0

LEMMA StageIs == Stages /\ Lefts
<1>1. Stages
  BY Zenon DEF Stages, Stage
<1>2. Lefts
  BY Zenon DEF Lefts, Left
<1> QED
  BY <1>1, <1>2

LEMMA StageIsNext == Stages' /\ Lefts'
BY StageIs, PTL

\* Where a step goes.
Moves ==
  \/ pc' = "undo" /\ undo' = UndoSteps /\ pc \notin {"idle", "return", "undo"}
  \/ pc = "snapshot" /\ pc' \in {"new chain", "delete anchor", "flush", "return"}
  \/ pc = "new chain" /\ pc' \in {"append", "switch", "new entry"}
  \/ pc = "append" /\ pc' \in {"switch", "new entry"}
  \/ pc = "append" /\ pc' = "append" /\ \E r \in todo : todo' = todo \ {r}
  \/ pc = "new entry" /\ pc' = "add anchor"
  \/ pc = "add anchor" /\ pc' = "activate"
  \/ pc \in {"activate", "switch", "flush entry"} /\ pc' \in {"flush", "delete entry", "return"}
  \/ pc = "delete anchor" /\ pc' = "flush entry"
  \/ pc = "flush" /\ pc' = "remove" /\ obsolete' = obsolete
  \/ pc = "remove" /\ pc' = "flush" /\ obsolete' = obsolete \ {chain}
  \/ pc = "remove" /\ pc' \in {"delete entry", "return"}
  \/ pc = "delete entry" /\ pc' = "return"
  \/ pc = "undo" /\ pc' = "undo" /\ undo # <<>> /\ undo' = Tail(undo)
  \/ pc' = "idle"

LEMMA StepMoves == ASSUME Step PROVE Moves
<1> USE DEF At, Abandon
<1>1. /\ \A rest : Filled(rest) \in {"append", "switch", "new entry"}
      /\ \A rest : Cleaned(rest) \in {"flush", "delete entry", "return"}
      /\ \A rest : rest = {} => Filled(rest) # "append"
  BY WhereTo
<1>2. CASE Snapshot
  <2>1. pc = "snapshot"
    BY <1>2 DEF Snapshot
  <2>2. \/ pc' = "undo" /\ undo' = UndoSteps
        \/ pc' = CASE target # Absent -> "new chain"
                   [] target = Absent /\ managed' -> "delete anchor"
                   [] target = Absent /\ ~managed' /\ Obsolete # {} -> "flush"
                   [] OTHER -> "return"
    BY <1>2, Zenon DEF Snapshot, Run
  <2>3. \/ pc' = "undo" /\ undo' = UndoSteps
        \/ pc' \in {"new chain", "delete anchor", "flush", "return"}
    BY <2>2, Zenon
  <2> QED
    BY <2>1, <2>3, Zenon DEF Moves
<1>3. CASE NewChain
  <2>1. pc = "new chain"
    BY <1>3 DEF NewChain
  <2>2. (pc' = "undo" /\ undo' = UndoSteps) \/ pc' = Filled(target.rules)
    BY <1>3, Zenon DEF NewChain, Run, Go
  <2> QED
    BY <1>1, <2>1, <2>2, Zenon DEF Moves
<1>4. CASE AppendOne
  <2>1. pc = "append"
    BY <1>4 DEF AppendOne
  <2>2. PICK r \in todo : \/ pc' = "undo" /\ undo' = UndoSteps
                          \/ pc' = Filled(todo \ {r}) /\ todo' = todo \ {r}
    BY <1>4, Zenon DEF AppendOne, Run, Go
  <2> QED
    BY <1>1, <2>1, <2>2, Zenon DEF Moves
<1>5. CASE Create("new entry", NewEntry, "entry", "add anchor")
  BY <1>5, Zenon DEF Create, Run, Go, Moves
<1>6. CASE Create("add anchor", AddAnchor, "anchor", "activate")
  BY <1>6, Zenon DEF Create, Run, Go, Moves
<1>7. CASE Enforce("activate", AddJump(chain))
  BY <1>1, <1>7, Zenon DEF Enforce, Run, Go, Moves
<1>8. CASE Enforce("switch", ReplaceJump(chain))
  BY <1>1, <1>8, Zenon DEF Enforce, Run, Go, Moves
<1>9. CASE FlushObsolete
  <2>1. pc = "flush"
    BY <1>9 DEF FlushObsolete
  <2>2. \/ pc' = "undo" /\ undo' = UndoSteps
        \/ pc' = "remove" /\ obsolete' = obsolete
    BY <1>9, Zenon DEF FlushObsolete, Run, Go
  <2> QED
    BY <2>1, <2>2, Zenon DEF Moves
<1>10. CASE RemoveObsolete
  BY <1>1, <1>10, Zenon DEF RemoveObsolete, Run, Go, Moves
<1>11. CASE Dismantle("delete anchor", DeleteAnchor, "flush entry")
  BY <1>11, Zenon DEF Dismantle, Run, Go, Moves
<1>12. CASE Dismantle("flush entry", FlushEntry, Cleaned(obsolete))
  BY <1>1, <1>12, Zenon DEF Dismantle, Run, Go, Moves
<1>13. CASE Dismantle("delete entry", DeleteEntry, "return")
  BY <1>13, Zenon DEF Dismantle, Run, Go, Moves
<1>14. CASE Undo
  <2>1. pc = "undo" /\ pc' = "undo" /\ undo # <<>> /\ undo' = Tail(undo)
    BY <1>14, UndoIs, Zenon
  <2> QED
    BY <2>1, Zenon DEF Moves
<1>15. CASE Return
  BY <1>15, Zenon DEF Return, Leave, Moves
<1> QED
  BY <1>2, <1>3, <1>4, <1>5, <1>6, <1>7, <1>8, <1>9, <1>10, <1>11, <1>12, <1>13, <1>14, <1>15,
    Zenon
  DEF Step

\* A list of deferred commands gets shorter.
LEMMA UndoShrinks ==
  ASSUME UndoOK, created \in Created, undo # <<>>
  PROVE  Len(Tail(undo)) \in Nat /\ Len(undo) \in Nat /\ Len(Tail(undo)) < Len(undo)
<1>1. undo \in Seq(Commands)
  <2>1. \A a, b, c, d, e \in Commands :
          /\ <<a>> \in Seq(Commands) /\ <<a, b>> \in Seq(Commands)
          /\ <<a, b, c>> \in Seq(Commands) /\ <<a, b, c, d>> \in Seq(Commands)
          /\ <<a, b, c, d, e>> \in Seq(Commands)
    OBVIOUS
  <2>2. /\ "flush chain" \in Commands /\ "delete chain" \in Commands
        /\ "delete anchor" \in Commands
        /\ "flush entry" \in Commands /\ "delete entry" \in Commands
    BY DEF Commands
  <2>3. UndoEntry \subseteq Seq(Commands)
    BY <2>1, <2>2, EmptySeq, Zenon DEF UndoEntry
  <2>4. UndoAll \subseteq Seq(Commands)
    <3>1. <<"delete anchor", "flush entry", "delete entry">> \in Seq(Commands)
      BY <2>1, <2>2, Zenon
    <3>2. <<"delete chain", "delete anchor", "flush entry", "delete entry">> \in Seq(Commands)
      BY <2>1, <2>2, Zenon
    <3>3. <<"flush chain", "delete chain", "delete anchor", "flush entry", "delete entry">>
            \in Seq(Commands)
      BY <2>1, <2>2, Zenon
    <3> QED
      BY <3>1, <3>2, <3>3, Zenon DEF UndoAll
  <2>5. /\ <<"delete chain">> \in Seq(Commands)
        /\ <<"flush chain", "delete chain">> \in Seq(Commands)
        /\ <<"delete chain", "flush entry", "delete entry">> \in Seq(Commands)
        /\ <<"flush chain", "delete chain", "flush entry", "delete entry">> \in Seq(Commands)
    BY <2>1, <2>2, Zenon
  <2> QED
    BY <2>3, <2>4, <2>5, Zenon DEF UndoOK, Created
<1> QED
  BY <1>1, HeadTailProperties, LenProperties

LEMMA MovesAdvance ==
  ASSUME IInv, Moves
  PROVE  pc # "idle" => pc' = "idle" \/ Stage' < Stage \/ (Stage' = Stage /\ Left' < Left)
<1> SUFFICES ASSUME pc # "idle", pc' # "idle"
             PROVE  Stage' < Stage \/ (Stage' = Stage /\ Left' < Left)
  OBVIOUS
<1>1. CASE pc' = "undo" /\ undo' = UndoSteps /\ pc \notin {"idle", "return", "undo"}
  <2>1. Stage' = 0
    BY <1>1, StageIsNext, Zenon DEF Stages
  <2>2. CASE pc = "delete entry"
    <3>1. created = {}
      BY <2>2 DEF IInv, Undisrupted, Dismantling
    <3>2. undo' = <<>> /\ Len(<<>>) = 0
      BY <1>1, <3>1, UndoStepsAre
    <3>3. Left' = Len(undo)' /\ Left = 6 /\ Stage = 0
      BY <1>1, <2>2, StageIs, StageIsNext, Zenon DEF Stages, Lefts
    <3>4. Left' = 0
      BY <3>2, <3>3, Zenon
    <3> QED
      BY <2>1, <3>3, <3>4
  <2>3. CASE pc # "delete entry"
    <3>1. pc \in {"snapshot", "new chain", "append", "new entry", "add anchor", "activate",
                  "switch", "delete anchor", "flush entry", "flush", "remove"}
      BY <1>1, <2>3 DEF IInv, Calm, Running, Building, Dismantling, Cleaning
    <3>2. Stage \in 1..9
      <4>1. Stage \in {1, 2, 3, 4, 5, 6, 7, 8, 9}
        BY <3>1, StageIs, Zenon DEF Stages
      <4> QED
        BY <4>1
    <3> QED
      BY <2>1, <3>2
  <2> QED
    BY <2>2, <2>3
<1>2. CASE pc = "append" /\ pc' = "append" /\ \E r \in todo : todo' = todo \ {r}
  <2>1. PICK r \in todo : todo' = todo \ {r}
    BY <1>2
  <2>2. IsFiniteSet(todo)
    BY DEF IInv, Calm, LoopsEnd
  <2>3. Cardinality(todo) \in Nat /\ Cardinality(todo \ {r}) = Cardinality(todo) - 1
    BY <2>2, FS_RemoveElement, FS_CardinalityType
  <2>4. Left' = Cardinality(todo)' /\ Left = Cardinality(todo) /\ Stage = 7 /\ Stage' = 7
    BY <1>2, StageIs, StageIsNext, Zenon DEF Stages, Lefts
  <2>5. Left' = Cardinality(todo \ {r})
    BY <2>1, <2>4, Zenon
  <2> QED
    BY <2>3, <2>4, <2>5
<1>3. CASE pc = "flush" /\ pc' = "remove" /\ obsolete' = obsolete
  <2>1. Cardinality(obsolete) \in Nat
    BY FS_CardinalityType DEF IInv, Calm, LoopsEnd
  <2>2. /\ Left = 2 * Cardinality(obsolete) + 1 /\ Left' = 2 * Cardinality(obsolete)
        /\ Stage = 1 /\ Stage' = 1
    BY <1>3, StageIs, StageIsNext, Zenon DEF Stages, Lefts
  <2> QED
    BY <2>1, <2>2
<1>4. CASE pc = "remove" /\ pc' = "flush" /\ obsolete' = obsolete \ {chain}
  <2>1. IsFiniteSet(obsolete) /\ chain \in obsolete
    BY <1>4 DEF IInv, Calm, LoopsEnd, Finishing
  <2>2. /\ Cardinality(obsolete) \in Nat
        /\ Cardinality(obsolete \ {chain}) = Cardinality(obsolete) - 1
    BY <2>1, FS_RemoveElement, FS_CardinalityType
  <2>3. /\ Left = 2 * Cardinality(obsolete)
        /\ Left' = 2 * Cardinality(obsolete \ {chain}) + 1
        /\ Stage = 1 /\ Stage' = 1
    BY <1>4, StageIs, StageIsNext, Zenon DEF Stages, Lefts
  <2> QED
    BY <2>2, <2>3
<1>5. CASE pc = "delete entry" /\ pc' = "return"
  <2>1. Stage = 0 /\ Stage' = 0 /\ Left = 6 /\ Left' = 0
    BY <1>5, StageIs, StageIsNext, Zenon DEF Stages, Lefts
  <2> QED
    BY <2>1
<1>6. CASE pc = "undo" /\ pc' = "undo" /\ undo # <<>> /\ undo' = Tail(undo)
  <2>1. UndoOK /\ created \in Created
    BY <1>6 DEF IInv, Undoing
  <2>2. Len(Tail(undo)) < Len(undo)
    BY <1>6, <2>1, UndoShrinks
  <2>3. Left' = Len(Tail(undo)) /\ Left = Len(undo) /\ Stage = 0 /\ Stage' = 0
    BY <1>6, StageIs, StageIsNext, Zenon DEF Stages, Lefts
  <2> QED
    BY <2>2, <2>3
<1>7. CASE pc = "snapshot" /\ pc' \in {"new chain", "delete anchor", "flush", "return"}
  <2>1. Stage = 9 /\ Stage' \in {8, 3, 1, 0}
    BY <1>7, StageIs, StageIsNext, Zenon DEF Stages
  <2> QED
    BY <2>1
<1>8. CASE pc = "new chain" /\ pc' \in {"append", "switch", "new entry"}
  <2>1. Stage = 8 /\ Stage' \in {7, 4, 6}
    BY <1>8, StageIs, StageIsNext, Zenon DEF Stages
  <2> QED
    BY <2>1
<1>9. CASE pc = "append" /\ pc' \in {"switch", "new entry"}
  <2>1. Stage = 7 /\ Stage' \in {4, 6}
    BY <1>9, StageIs, StageIsNext, Zenon DEF Stages
  <2> QED
    BY <2>1
<1>10. CASE pc = "new entry" /\ pc' = "add anchor"
  <2>1. Stage = 6 /\ Stage' = 5
    BY <1>10, StageIs, StageIsNext, Zenon DEF Stages
  <2> QED
    BY <2>1
<1>11. CASE pc = "add anchor" /\ pc' = "activate"
  <2>1. Stage = 5 /\ Stage' = 4
    BY <1>11, StageIs, StageIsNext, Zenon DEF Stages
  <2> QED
    BY <2>1
<1>12. CASE /\ pc \in {"activate", "switch", "flush entry"}
            /\ pc' \in {"flush", "delete entry", "return"}
  <2>1. Stage \in {2, 4} /\ Stage' \in {0, 1}
    BY <1>12, StageIs, StageIsNext, Zenon DEF Stages
  <2> QED
    BY <2>1
<1>13. CASE pc = "delete anchor" /\ pc' = "flush entry"
  <2>1. Stage = 3 /\ Stage' = 2
    BY <1>13, StageIs, StageIsNext, Zenon DEF Stages
  <2> QED
    BY <2>1
<1>14. CASE pc = "remove" /\ pc' \in {"delete entry", "return"}
  <2>1. Stage = 1 /\ Stage' = 0
    BY <1>14, StageIs, StageIsNext, Zenon DEF Stages
  <2> QED
    BY <2>1
<1> QED
  BY <1>1, <1>2, <1>3, <1>4, <1>5, <1>6, <1>7, <1>8, <1>9, <1>10, <1>11, <1>12, <1>13, <1>14,
    Zenon
  DEF Moves

\* Every command brings its call closer to the return, in sets of rules and chains of any
\* size (the loops of applyFamily iptables.go:160-166, 190-201 and deleteFamily :472-479, and the
\* deferred function :145-159): with CallsReturn's fairness this is why calls end.
THEOREM NoCallGoesInCircles == Spec => CallsAdvance
<1> DEFINE Closer ==
      pc # "idle" => pc' = "idle" \/ Stage' < Stage \/ (Stage' = Stage /\ Left' < Left)
<1>1. ASSUME IInv, Next PROVE Closer
  <2>1. CASE \E t \in Targets : Begin(t)
    BY <2>1 DEF Begin, At
  <2>2. CASE Step
    BY <1>1, <2>2, StepMoves, MovesAdvance
  <2>3. CASE Crash
    BY <2>3 DEF Crash, Leave
  <2> QED
    BY <1>1, <2>1, <2>2, <2>3 DEF Next
<1>2. IInv /\ [Next]_vars => [Closer]_vars
  BY <1>1
<1>3. Spec => [][Closer]_vars
  BY <1>2, Invariant, PTL DEF Spec
<1> QED
  BY <1>3, PTL DEF CallsAdvance

--------------------------------------------------------------------------------
(* The contract with the transaction manager *)

\* A call that went worse may leave more.
LEMMA Outcomes ==
  ASSUME NEW k, NEW t
  PROVE  /\ k \in AfterFailure(k, t) /\ k \in AfterCrash(k, t) /\ t \in AfterCrash(k, t)
         /\ k.mode # t.mode => Drift \in AfterCrash(k, t)
         /\ k.mode = "managed" /\ t.mode = "managed" => Managed({}) \in AfterKill(k, t)
         /\ t.mode = "managed" => Managed({}) \in AfterKillAndMore(k, t)
         /\ AfterFailure(k, t) \subseteq AfterCrash(k, t)
         /\ AfterCrash(k, t) \subseteq AfterKill(k, t)
         /\ AfterKill(k, t) \subseteq AfterKillAndMore(k, t)
<1>1. AfterFailure(k, t) \subseteq AfterCrash(k, t)
  BY DEF AfterFailure, AfterCrash, Only
<1> QED
  BY <1>1 DEF AfterFailure, AfterCrash, AfterKill, AfterKillAndMore, Only

\* What is in force when an entry chain has no jump, or one to an exposed candidate.
LEMMA ParseLoose ==
  ASSUME IInv, start = Absent, nat.jumps = <<>>
  PROVE  Parse = IF nat.anchors = 0 /\ ~nat.entry THEN start ELSE Drift
BY ParseIs DEF Reading, Bare, IInv, Calm

LEMMA ParseExposed ==
  ASSUME IInv, Exposed, target.mode = "managed"
  PROVE  /\ nat.anchors = 1 => Parse \in {target, Managed({})}
         /\ nat.anchors = 0 => Parse = Drift
         /\ nat.anchors = 0 \/ nat.anchors = 1
<1>1. TableOK /\ Reading /\ nat.jumps[1] = chain /\ nat.jumps # <<>>
  BY ParseIs, OneJump DEF IInv, Calm, Exposed
<1>2. nat.entry /\ ~Bare
  BY <1>1 DEF TableOK, Bare
<1>3. target = Managed(target.rules)
  BY Targeted DEF Absent
<1>4. nat.anchors = 1 => Parse = Managed(nat.gens[chain])
  BY <1>1, <1>2 DEF Reading
<1>5. nat.anchors = 0 => Parse = Drift
  BY <1>1, <1>2, Loosened
<1>6. nat.gens[chain] = {} \/ nat.gens[chain] = target.rules
  BY DEF Exposed
<1> QED
  BY <1>1, <1>3, <1>4, <1>5, <1>6, Anchors

\* What the deferred cleanup makes of an error, and what it leaves when it ends.
LEMMA AfterCleanup ==
  ASSUME IInv, pc = "undo", Readable(start)
  PROVE  /\ ~trouble.killed => Parse \in AfterCrash(start, target)
         /\ trouble.killed => Parse \in AfterKillAndMore(start, target)
         /\ undo = <<>> /\ trouble.killed /\ trouble.fails = 0 =>
              Parse \in AfterKill(start, target)
         /\ undo = <<>> /\ ~trouble.killed /\ trouble.fails = 1 =>
              Parse \in AfterFailure(start, target)
<1>1. created \in Created /\ Leftover /\ trouble.killed \in BOOLEAN
  BY DEF IInv, Calm, LocalsOK, Troubles, Undoing
<1>2. /\ start \in AfterFailure(start, target) /\ start \in AfterCrash(start, target)
      /\ target \in AfterCrash(start, target)
      /\ AfterFailure(start, target) \subseteq AfterCrash(start, target)
      /\ AfterCrash(start, target) \subseteq AfterKill(start, target)
      /\ AfterKill(start, target) \subseteq AfterKillAndMore(start, target)
  BY Outcomes
<1>3. created # {} =>
        /\ target.mode = "managed"
        /\ start.mode # "managed" => Drift \in AfterCrash(start, target)
        /\ start.mode = "managed" => Managed({}) \in AfterKill(start, target)
        /\ Managed({}) \in AfterKillAndMore(start, target)
  BY <1>1, Outcomes DEF Leftover
<1>4. CASE created = {}
  BY <1>1, <1>2, <1>4 DEF Leftover, NothingToUndo
<1>5. CASE created = {"chain"}
  <2>1. ChainToUndo /\ target.mode = "managed"
    BY <1>1, <1>3, <1>5, DifferentCleanups DEF Leftover
  <2>2. CASE start.mode = "managed"
    <3>1. Parse = start \/ (trouble.killed /\ Exposed /\ nat.anchors = 1)
      BY <2>1, <2>2 DEF ChainToUndo, Exposed
    <3>2. Exposed /\ nat.anchors = 1 => Parse \in {target, Managed({})}
      BY <2>1, ParseExposed
    <3>3. Managed({}) \in AfterKill(start, target)
      BY <1>3, <1>5, <2>2, DifferentCleanups
    <3> QED
      BY <1>2, <3>1, <3>2, <3>3
  <2>3. CASE start.mode # "managed"
    <3>1. start = Absent /\ Drift \in AfterCrash(start, target)
      BY <1>3, <1>5, <2>3, StartAbsent, DifferentCleanups
    <3>2. nat.anchors = 0 /\ nat.jumps = <<>> /\ (nat.entry => trouble.killed)
      BY <2>1, <2>3 DEF ChainToUndo
    <3>3. Parse = start \/ (trouble.killed /\ Parse = Drift)
      BY <3>1, <3>2, ParseLoose
    <3> QED
      BY <1>2, <3>1, <3>3
  <2> QED
    BY <2>2, <2>3
<1>6. CASE created = {"chain", "entry"}
  <2>1. EntryToUndo
    BY <1>1, <1>6 DEF Leftover
  <2>2. start = Absent /\ nat.jumps = <<>> /\ (nat.anchors = 0 \/ trouble.killed)
    BY <2>1 DEF EntryToUndo
  <2>3. Drift \in AfterCrash(start, target)
    BY <1>3, <1>6, <2>2, DifferentCleanups DEF Absent
  <2>4. Parse = start \/ Parse = Drift
    BY <2>2, ParseLoose
  <2>5. undo = <<>> /\ ~trouble.killed /\ trouble.fails = 1 => Parse = start
    <3>1. undo = <<>> /\ ~trouble.killed /\ trouble.fails = 1 => ~nat.entry
      BY <2>1 DEF EntryToUndo, CleanupWorks
    <3> QED
      BY <2>2, <3>1, ParseLoose
  <2> QED
    BY <1>2, <2>3, <2>4, <2>5
<1>7. CASE created = {"chain", "entry", "anchor"}
  <2>1. AnchorToUndo /\ target.mode = "managed"
    BY <1>1, <1>3, <1>7, DifferentCleanups DEF Leftover
  <2>2. start = Absent
    BY <2>1 DEF AnchorToUndo
  <2>3. Drift \in AfterCrash(start, target) /\ Managed({}) \in AfterKillAndMore(start, target)
    BY <1>3, <1>7, <2>2, DifferentCleanups DEF Absent
  <2>4. undo = <<>> /\ CleanupWorks => nat.anchors = 0
    BY <2>1 DEF AnchorToUndo, UndoEntry
  <2>5. CASE nat.jumps = <<>>
    <3>1. Parse = start \/ Parse = Drift
      BY <2>2, <2>5, ParseLoose
    <3>2. undo = <<>> /\ ~trouble.killed /\ trouble.fails = 1 => Parse = start
      <4>1. undo = <<>> /\ ~trouble.killed /\ trouble.fails = 1 => ~nat.entry /\ nat.anchors = 0
        BY <2>1, <2>4 DEF AnchorToUndo, CleanupWorks
      <4> QED
        BY <2>2, <2>5, <4>1, ParseLoose
    <3> QED
      BY <1>2, <2>3, <3>1, <3>2
  <2>6. CASE Exposed
    <3>1. trouble.killed
      BY <2>6 DEF Exposed
    <3>2. trouble.fails = 0 => CleanupWorks
      BY <3>1 DEF CleanupWorks
    <3>3. Parse \in {target, Managed({}), Drift} /\ (nat.anchors = 0 => Parse = Drift)
      BY <2>1, <2>6, ParseExposed
    <3> QED
      BY <1>2, <2>3, <2>4, <3>1, <3>2, <3>3
  <2> QED
    BY <2>1, <2>5, <2>6 DEF AnchorToUndo
<1> QED
  BY <1>1, <1>4, <1>5, <1>6, <1>7 DEF Created

\* What a process that dies leaves, when nothing had gone wrong before.
LEMMA AfterDeath ==
  ASSUME IInv, pc \in Running, Readable(start)
  PROVE  Parse \in AfterCrash(start, target)
<1>1. /\ start \in AfterCrash(start, target) /\ target \in AfterCrash(start, target)
      /\ start.mode # target.mode => Drift \in AfterCrash(start, target)
  BY Outcomes
<1>2. CASE pc \in {"snapshot", "new chain", "append", "switch", "new entry", "delete anchor"}
  BY <1>1, <1>2 DEF IInv, Prepared
<1>3. CASE pc \in {"add anchor", "activate"}
  <2>1. start = Absent /\ target.mode = "managed" /\ nat.jumps = <<>> /\ nat.entry
    BY <1>3, Entering DEF Loose
  <2>2. Parse = Drift
    BY <2>1, ParseLoose
  <2> QED
    BY <1>1, <2>1, <2>2 DEF Absent
<1>4. CASE pc \in {"flush entry", "delete entry"}
  <2>1. nat.anchors = 0 /\ nat.entry /\ TableOK
    BY <1>4 DEF IInv, Calm, Finishing, Loose
  <2>2. Parse = Drift
    BY <2>1, Loosened
  <2> QED
    BY <1>4, <2>2, TakingApart DEF Dismantling
<1>5. CASE pc \in {"flush", "remove"}
  BY <1>5, Tidying
<1>6. CASE pc = "return"
  BY <1>1, <1>6 DEF IInv, Finishing
<1> QED
  BY <1>2, <1>3, <1>4, <1>5, <1>6 DEF Running, Building, Dismantling, Cleaning

\* The words of FamilyOutcomes mean the same in the contract.
LEMMA SameOutcomes ==
  ASSUME NEW k, NEW t, NEW u
  PROVE  Calls!Leaves(k, t, u) =
           IF ~Readable(k) THEN {k}
           ELSE IF u.killed /\ (u.crashed \/ u.fails > 0) THEN AfterKillAndMore(k, t)
           ELSE IF u.killed THEN AfterKill(k, t)
           ELSE IF u.crashed \/ u.fails > 1 THEN AfterCrash(k, t)
           ELSE IF u.fails = 1 THEN AfterFailure(k, t)
           ELSE {t}
BY Zenon DEF Calls!Leaves, Calls!Readable, Calls!AfterKillAndMore, Calls!AfterKill,
  Calls!AfterCrash,
  Calls!AfterFailure, Calls!Drift, Calls!Managed, Calls!Only, Readable, AfterKillAndMore,
  AfterKill, AfterCrash, AfterFailure, Drift, Managed, Only

LEMMA ReturnsKeep ==
  ASSUME IInv, pc = "return" \/ (pc = "undo" /\ undo = <<>>)
  PROVE  Parse \in Calls!Leaves(start, target, trouble)
<1>1. trouble.crashed = FALSE /\ trouble.killed \in BOOLEAN /\ trouble.fails \in Nat
  BY DEF IInv, Calm, LocalsOK, Troubles
<1>2. CASE pc = "return"
  <2>1. Parse = target /\ trouble = NoTrouble /\ Readable(start)
    BY <1>2 DEF IInv, Finishing, Undisrupted, Running
  <2>2. trouble.killed = FALSE /\ ~(trouble.fails > 1) /\ ~(trouble.fails = 1)
    BY <2>1 DEF NoTrouble
  <2>3. Calls!Leaves(start, target, trouble) = {target}
    BY <1>1, <2>1, <2>2, SameOutcomes
  <2> QED
    BY <2>1, <2>3
<1>3. CASE pc = "undo" /\ undo = <<>> /\ ~Readable(start)
  <2>1. Parse = start
    BY <1>3 DEF IInv, Undoing, Blame
  <2> QED
    BY <1>3, <2>1, SameOutcomes
<1>4. CASE pc = "undo" /\ undo = <<>> /\ Readable(start)
  <2>1. trouble.killed \/ trouble.fails > 0
    BY <1>4 DEF IInv, Undoing, Blame
  <2>2. CASE trouble.killed /\ trouble.fails > 0
    BY <1>4, <2>2, AfterCleanup, SameOutcomes
  <2>3. CASE trouble.killed /\ ~(trouble.fails > 0)
    <3>1. trouble.fails = 0
      BY <1>1, <2>3
    <3>2. Calls!Leaves(start, target, trouble) = AfterKill(start, target)
      BY <1>1, <1>4, <2>3, SameOutcomes
    <3> QED
      BY <1>4, <2>3, <3>1, <3>2, AfterCleanup
  <2>4. CASE ~trouble.killed /\ trouble.fails > 1
    BY <1>1, <1>4, <2>4, AfterCleanup, SameOutcomes
  <2>5. CASE ~trouble.killed /\ ~(trouble.fails > 1)
    <3>1. trouble.fails = 1
      BY <1>1, <2>1, <2>5
    <3>2. Calls!Leaves(start, target, trouble) = AfterFailure(start, target)
      BY <1>1, <1>4, <2>5, <3>1, SameOutcomes
    <3> QED
      BY <1>4, <2>5, <3>1, <3>2, AfterCleanup
  <2> QED
    BY <1>1, <2>2, <2>3, <2>4, <2>5
<1> QED
  BY <1>2, <1>3, <1>4

LEMMA DeathsKeep ==
  ASSUME IInv, pc # "idle"
  PROVE  Parse \in Calls!Leaves(start, target, [trouble EXCEPT !.crashed = TRUE])
<1> DEFINE t == [trouble EXCEPT !.crashed = TRUE]
<1>1. t.crashed = TRUE /\ t.killed = trouble.killed /\ trouble.killed \in BOOLEAN
  BY DEF IInv, Calm, LocalsOK, Troubles
<1> HIDE DEF t
<1>2. SUFFICES Parse \in Calls!Leaves(start, target, t)
  BY DEF t
<1>3. CASE ~Readable(start)
  <2>1. Parse = start
    BY <1>3 DEF IInv, Calm, Undisrupted, Prepared, Undoing, Blame, Running
  <2> QED
    BY <1>3, <2>1, SameOutcomes
<1>4. CASE Readable(start)
  <2>1. Calls!Leaves(start, target, t) =
          IF trouble.killed THEN AfterKillAndMore(start, target) ELSE AfterCrash(start, target)
    BY <1>1, <1>4, SameOutcomes
  <2>2. CASE pc = "undo"
    BY <1>4, <2>1, <2>2, AfterCleanup
  <2>3. CASE pc \in Running
    <3>1. trouble = NoTrouble
      BY <2>3 DEF IInv, Undisrupted
    <3> QED
      BY <1>4, <2>1, <2>3, <3>1, AfterDeath DEF NoTrouble
  <2> QED
    BY <2>2, <2>3 DEF IInv, Calm
<1> QED
  BY <1>3, <1>4

\* Between its snapshot and its return, a call shows nothing.
Hidden == pc # "idle" /\ pc' # "idle" /\ start' = start /\ last' = last

LEMMA CallsAreHidden == ASSUME Step PROVE Hidden \/ Return
<1> USE DEF At, Abandon
<1>1. /\ \A rest : Filled(rest) \in {"append", "switch", "new entry"}
      /\ \A rest : Cleaned(rest) \in {"flush", "delete entry", "return"}
  BY WhereTo
<1>2. CASE Snapshot
  <2>1. pc = "snapshot"
    BY <1>2 DEF Snapshot
  <2>2. /\ start' = start /\ last' = last
        /\ \/ pc' = "undo"
           \/ pc' = CASE target # Absent -> "new chain"
                      [] target = Absent /\ managed' -> "delete anchor"
                      [] target = Absent /\ ~managed' /\ Obsolete # {} -> "flush"
                      [] OTHER -> "return"
    BY <1>2, Zenon DEF Snapshot, Run
  <2>3. pc' \in {"undo", "new chain", "delete anchor", "flush", "return"}
    BY <2>2, Zenon
  <2> QED
    BY <2>1, <2>2, <2>3, Zenon DEF Hidden
<1>3. CASE NewChain
  <2>1. pc = "new chain"
    BY <1>3 DEF NewChain
  <2>2. start' = start /\ last' = last /\ (pc' = "undo" \/ pc' = Filled(target.rules))
    BY <1>3, Zenon DEF NewChain, Run, Go
  <2> QED
    BY <1>1, <2>1, <2>2, Zenon DEF Hidden
<1>4. CASE AppendOne
  <2>1. pc = "append"
    BY <1>4 DEF AppendOne
  <2>2. PICK r \in todo : /\ start' = start /\ last' = last
                          /\ (pc' = "undo" \/ pc' = Filled(todo \ {r}))
    BY <1>4, Zenon DEF AppendOne, Run, Go
  <2> QED
    BY <1>1, <2>1, <2>2, Zenon DEF Hidden
<1>5. CASE Create("new entry", NewEntry, "entry", "add anchor")
  BY <1>5, Zenon DEF Create, Run, Go, Hidden
<1>6. CASE Create("add anchor", AddAnchor, "anchor", "activate")
  BY <1>6, Zenon DEF Create, Run, Go, Hidden
<1>7. CASE Enforce("activate", AddJump(chain))
  BY <1>1, <1>7, Zenon DEF Enforce, Run, Go, Hidden
<1>8. CASE Enforce("switch", ReplaceJump(chain))
  BY <1>1, <1>8, Zenon DEF Enforce, Run, Go, Hidden
<1>9. CASE FlushObsolete
  BY <1>9, Zenon DEF FlushObsolete, Run, Go, Hidden
<1>10. CASE RemoveObsolete
  BY <1>1, <1>10, Zenon DEF RemoveObsolete, Run, Go, Hidden
<1>11. CASE Dismantle("delete anchor", DeleteAnchor, "flush entry")
  BY <1>11, Zenon DEF Dismantle, Run, Go, Hidden
<1>12. CASE Dismantle("flush entry", FlushEntry, Cleaned(obsolete))
  BY <1>1, <1>12, Zenon DEF Dismantle, Run, Go, Hidden
<1>13. CASE Dismantle("delete entry", DeleteEntry, "return")
  BY <1>13, Zenon DEF Dismantle, Run, Go, Hidden
<1>14. CASE Undo
  <2>1. pc = "undo" /\ pc' = "undo" /\ start' = start /\ last' = last
    BY <1>14, UndoIs
  <2> QED
    BY <2>1, Zenon DEF Hidden
<1> QED
  BY <1>2, <1>3, <1>4, <1>5, <1>6, <1>7, <1>8, <1>9, <1>10, <1>11, <1>12, <1>13, <1>14, Zenon
  DEF Step

\* Every call, whatever met it, leaves what FamilyOutcomes allows, in whatever state the
\* calls before it left the table: the contract the transaction manager is modelled and
\* proved against (applyFamily iptables.go:129-202, deleteFamily :450-484).
THEOREM CallsKeepTheContract == Spec => KeepsContract
<1> DEFINE family == IF pc = "idle" THEN Parse ELSE start
<1>1. Init => Calls!Init
  <2> SUFFICES ASSUME Init PROVE Calls!Init
    OBVIOUS
  <2>1. Parse = Absent
    BY DEF Init, EmptyTable, Parse
  <2> QED
    BY <2>1, Zenon DEF Init, Calls!Init, Calls!Absent, Absent, Calls!NoTrouble, NoTrouble
<1>2. ASSUME IInv, [Next]_vars PROVE [Calls!Call]_<<family, last>>
  <2>1. CASE \E t \in Targets : Begin(t)
    <3>1. pc = "idle" /\ pc' = "snapshot" /\ start' = Parse /\ last' = last
      BY <2>1 DEF Begin, At
    <3> QED
      BY <3>1
  <2>2. CASE Hidden
    BY <2>2 DEF Hidden
  <2>3. ASSUME NEW u, pc # "idle", Leave(u), UNCHANGED nat,
               Parse \in Calls!Leaves(start, target, u)
        PROVE  Calls!Call
    <3>1. pc' = "idle" /\ last' = [target |-> target, trouble |-> u] /\ Parse' = Parse
      BY <2>3, SameTable DEF Leave
    <3>2. family' = Parse /\ family = start /\ last'.target = target /\ last'.trouble = u
      BY <2>3, <3>1
    <3> QED
      BY <2>3, <3>2, Zenon DEF Calls!Call
  <2>4. CASE Return
    BY <1>2, <2>3, <2>4, ReturnsKeep DEF Return, At
  <2>5. CASE Crash
    BY <1>2, <2>3, <2>5, DeathsKeep DEF Crash, At
  <2>6. CASE UNCHANGED vars
    <3>1. Parse' = Parse
      BY <2>6, SameTable DEF vars
    <3> QED
      BY <2>6, <3>1 DEF vars
  <2> QED
    BY <1>2, <2>1, <2>2, <2>4, <2>5, <2>6, CallsAreHidden DEF Next
<1>3. IInv /\ [Next]_vars => [Calls!Call]_<<family, last>>
  BY <1>2
<1> QED
  BY <1>1, <1>3, Invariant, PTL DEF Spec, Calls!Spec, KeepsContract

================================================================================
