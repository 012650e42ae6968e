-------------------------------- MODULE Monitor --------------------------------
(***************************************************************************)
(* `pmm monitor`: the sampler (internal/monitor) and the loop around it    *)
(* (cmd/pmm/main.go cli.monitor), beside commands that put new generations *)
(* of the rule chain in place while it runs.                               *)
(*                                                                         *)
(* One rule of one family is followed.  Every chain that holds the rule    *)
(* has a line for it with counters of its own, and Counters reads them     *)
(* all: the active generation's, and those of a candidate, of the replaced *)
(* generation until it is deleted, and of chains a killed command left.    *)
(***************************************************************************)
EXTENDS Integers, FiniteSets, Functions

CONSTANTS
  Word,        \* the counters' arithmetic is modulo this: 2^64 in the code
  Sizes,       \* sizes of packets, in bytes
  MaxPackets,  \* bound on the packets a line counts
  MaxGens,     \* bound on the generations commands make
  MaxCount     \* bound on `--count`

\* The counters do not overflow within the bounds, as 64-bit ones do not in years.
ASSUME WordAssumption ==
  /\ Word \in Nat /\ MaxPackets \in Nat /\ MaxPackets < Word
  /\ Sizes \subseteq Nat
  /\ \E most \in 0..Word : MaxPackets * most < Word /\ \A size \in Sizes : size <= most

Gens == 1..MaxGens
NoLine == [packets |-> -1, bytes |-> -1]
Zero == [packets |-> 0, bytes |-> 0]
Endless == -1   \* `--count 0`

VARIABLES
  lines,        \* the rule's lines in the kernel: generation |-> counters
  active,       \* the generation packets go through, 0 before the first
  newest,       \* the last generation made
  work,         \* what a command has done: "none", "filled", "switched"
  monitoring,   \* a monitor is running
  remaining,    \* samples it has left, or Endless
  last,         \* Sampler.last: the counters kept for the rule, or NoLine
  interrupted,  \* the context is cancelled
  seen,         \* history: the generation the last sample read, if it read the active one's
                \* line and no other, or 0
  arrived       \* history: packets and bytes redirected since such a sample

kernelVars == <<lines, active, newest, work>>
samplerVars == <<monitoring, remaining, last>>
judgeVars == <<arrived, seen>>
monitorVars == <<kernelVars, samplerVars, judgeVars>>

NoLines == [g \in {} |-> Zero]

MonitorInit ==
  /\ lines = NoLines /\ active = 0 /\ newest = 0 /\ work = "none"
  /\ monitoring = FALSE /\ remaining = 0 /\ last = NoLine
  /\ interrupted = FALSE
  /\ arrived = Zero /\ seen = 0

--------------------------------------------------------------------------------
(* The kernel, and the commands that replace its chains: applyFamily's steps *)

Without(gens) == Restrict(lines, DOMAIN lines \ gens)

Plus(counter, size) ==
  [packets |-> counter.packets + 1, bytes |-> counter.bytes + size]

\* A packet the rule redirects.
Packet ==
  /\ active \in DOMAIN lines /\ lines[active].packets < MaxPackets
  /\ \E size \in Sizes :
       /\ lines' = [lines EXCEPT ![active] = Plus(@, size)]
       /\ arrived' = (IF seen = 0 THEN arrived ELSE Plus(arrived, size))
  /\ UNCHANGED <<active, newest, work, samplerVars, seen>>

\* The candidate chain is made and filled, with the rule in it or without.
Fill ==
  /\ work = "none" /\ newest < MaxGens
  /\ newest' = newest + 1
  /\ \/ lines' = [g \in DOMAIN lines \cup {newest'} |-> IF g = newest' THEN Zero ELSE lines[g]]
     \/ lines' = lines
  /\ work' = "filled"
  /\ UNCHANGED active

Switch ==
  /\ work = "filled"
  /\ active' = newest /\ work' = "switched"
  /\ UNCHANGED <<lines, newest>>

\* One more of the replaced chain and older leftovers is deleted.
DeleteObsolete ==
  /\ work = "switched"
  /\ LET obsolete == DOMAIN lines \ {active}
     IN \/ \E g \in obsolete : lines' = Without({g}) /\ work' = work
        \/ obsolete = {} /\ work' = "none" /\ lines' = lines
  /\ UNCHANGED <<active, newest>>

\* The command fails before the switch, and deletes its candidate.
GiveUp ==
  /\ work = "filled"
  /\ lines' = Without({newest}) /\ work' = "none"
  /\ UNCHANGED <<active, newest>>

\* The command ends wherever it is: killed, or a deletion failed.
Stop ==
  /\ work # "none" /\ work' = "none"
  /\ UNCHANGED <<lines, active, newest>>

Commands ==
  /\ Fill \/ Switch \/ DeleteObsolete \/ GiveUp \/ Stop
  /\ UNCHANGED <<samplerVars, judgeVars>>

--------------------------------------------------------------------------------
(* The sampler *)

\* Mutant: a reset takes both counters to be smaller.
IsResetBoth(counter) == counter.packets < last.packets /\ counter.bytes < last.bytes

IsReset(counter) == counter.packets < last.packets \/ counter.bytes < last.bytes

\* What Sample makes of one line.  The clock it divides by is monotonic and the ticker's
\* interval positive, so that only a first sighting is a baseline.
Rate(counter) ==
  IF last = NoLine THEN [kind |-> "baseline", packets |-> 0, bytes |-> 0]
  ELSE IF IsReset(counter) THEN [kind |-> "reset", packets |-> 0, bytes |-> 0]
  ELSE [kind    |-> "rate",
        packets |-> (counter.packets - last.packets) % Word,
        bytes   |-> (counter.bytes - last.bytes) % Word]

\* The rates Sample would report now, one for every line.
Rates == {Rate(lines[g]) : g \in DOMAIN lines}

\* The rule has one line, where its packets go.
OnlyActive == DOMAIN lines = {active}

\* Sampler.Sample.  Of two lines the one printed later is kept, which the code does not
\* choose.
Sample ==
  /\ IF DOMAIN lines = {} THEN last' = NoLine ELSE last' \in Range(lines)
  /\ seen' = (IF OnlyActive THEN active ELSE 0)
  /\ arrived' = Zero

--------------------------------------------------------------------------------
(* The loop *)

StartMonitor(count) ==
  /\ monitoring' = TRUE /\ remaining' = count /\ last' = NoLine
  /\ arrived' = Zero /\ seen' = 0

EndMonitor ==
  /\ monitoring' = FALSE /\ remaining' = 0 /\ last' = NoLine
  /\ arrived' = Zero /\ seen' = 0

\* One turn of the loop: a sample; or the end, when there have been enough, when the
\* context is cancelled (waitMonitor sees it, or the sample fails), or when the counters
\* cannot be read.
MonitorStep ==
  /\ monitoring
  /\ \/ /\ ~interrupted /\ remaining # 0
        /\ Sample
        /\ remaining' = (IF remaining = Endless THEN Endless ELSE remaining - 1)
        /\ UNCHANGED monitoring
     \/ EndMonitor

--------------------------------------------------------------------------------

Honest(rate) ==
  CASE rate.kind = "rate" ->
         IF seen = active THEN [packets |-> rate.packets, bytes |-> rate.bytes] = arrived
         ELSE rate.packets <= arrived.packets /\ rate.bytes <= arrived.bytes
    [] rate.kind = "reset" -> seen # active
    [] rate.kind = "baseline" -> FALSE

\* If two samples in a row each find the rule in its active generation only, what the
\* second reports is true: what arrived in between, or no more than that when a commit
\* started the counters anew, and a reset only then (monitor.go:44-51).
RatesAreHonest == monitoring /\ seen # 0 /\ OnlyActive => \A rate \in Rates : Honest(rate)

\* The same without the condition: a sample between the steps of a commit, or beside a
\* chain a killed command left, reads two lines and reports packets that never came.
RatesAreAlwaysHonest ==
  monitoring /\ seen # 0 => \A rate \in Rates : Honest(rate)
================================================================================
