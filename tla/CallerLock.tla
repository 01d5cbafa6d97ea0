----------------------------- MODULE CallerLock -----------------------------
(***************************************************************************)
(* The walk of src/scanner/caller_lock.py over the callers of a function   *)
(* within one file: does every call of it come with a lock, taken by the   *)
(* caller before the call or, a few calls up, by all of the caller's own   *)
(* callers?                                                                *)
(*                                                                         *)
(* A line of the file is what the regular expressions see in it: the       *)
(* header of a function, a call (a prototype looks like one), a lock being *)
(* taken, or nothing of these.  Unlocking is nothing of these.             *)
(* A definition named Bug_X is X with a mistake that code could contain.   *)
(***************************************************************************)
EXTENDS Naturals, Sequences, FiniteSets, FiniteSetsExt

CONSTANTS
  Names,     \* functions of the file
  Locks,     \* lock functions
  Reach,     \* how many lines up a header is looked for
  Depth,     \* how many calls up the walk goes
  MaxLines   \* bound on the length of the file

ASSUME LinesAssumption == Reach \in Nat \ {0} /\ Depth \in Nat \ {0} /\ MaxLines \in Nat

VARIABLE file

Lines == [kind : {"def", "call"}, of : Names] \union [kind : {"lock"}, of : Locks]
           \union {[kind |-> "other"]}

FileInit == \E n \in 0 .. MaxLines : file \in [1 .. n -> Lines]

-----------------------------------------------------------------------------
(* What the helpers find.                                                  *)

Is(i, kind, name) == file[i] = [kind |-> kind, of |-> name]

\* _function_def_index: the first line that looks like a header of f.
FirstDef(f) == Min({i \in DOMAIN file : Is(i, "def", f)})

\* _enclosing_function: the nearest header at or above line i, if it is near.
Headers(i) == {j \in DOMAIN file : j <= i /\ i < j + Reach /\ file[j].kind = "def"}

Enclosing(i) == {file[j].of : j \in {j \in Headers(i) : \A k \in Headers(i) : k <= j}}

CallersOf(f) ==
  UNION {{[by |-> g, at |-> i] : g \in Enclosing(i) \ {f}} :
           i \in {i \in DOMAIN file : Is(i, "call", f)}}

Calls == UNION {CallersOf(f) : f \in Names}

Bug_LockLines(c) == {j \in 1 .. c.at - 1 : file[j].kind = "lock"}

\* The locks between the caller's header and the call.
LockLines(c) == {j \in FirstDef(c.by) .. c.at - 1 : file[j].kind = "lock"}

-----------------------------------------------------------------------------
(* _holds_lock, by the number of calls it may still go up.                 *)

Bug_ParentsHold(c, held) == CallersOf(c.by) \subseteq held
ParentsHold(c, held) == CallersOf(c.by) # {} /\ CallersOf(c.by) \subseteq held

\* The calls found to come with a lock, d calls up.
Covered[d \in Nat] ==
  IF d = 0 THEN {}
  ELSE {c \in Calls : LockLines(c) # {} \/ (d > 1 /\ ParentsHold(c, Covered[d - 1]))}

Bug_FirstOf(cs) == CHOOSE c \in cs : \A e \in cs : c.at >= e.at
FirstOf(cs) == CHOOSE c \in cs : \A e \in cs : c.at <= e.at

\* The lock that is named for a covered call.
NameOf[d \in Nat] ==
  [c \in Covered[d] |->
     IF LockLines(c) # {} THEN file[Min(LockLines(c))].of
     ELSE NameOf[d - 1][FirstOf(CallersOf(c.by))]]

\* analyze: caller_lock_held and caller_lock_name of a candidate in f.
Held(f) == CallersOf(f) # {} /\ CallersOf(f) \subseteq Covered[Depth]

HeldName(f) == NameOf[Depth][FirstOf(CallersOf(f))]

-----------------------------------------------------------------------------
(* Properties.  The reference is in terms of chains of calls up the file.  *)

\* Chains of calls that end in a call of f: the nearest call comes first.
ChainsTo(f) ==
  {s \in UNION {[1 .. n -> Calls] : n \in 1 .. Depth} :
     /\ s[1] \in CallersOf(f)
     /\ \A i \in 1 .. Len(s) - 1 : s[i + 1] \in CallersOf(s[i].by)}

\* The lock is in the body the call is in: no header comes between.
TakenBefore(j, i) ==
  /\ file[j].kind = "lock" /\ j < i
  /\ \E h \in 1 .. j : file[h].kind = "def"
  /\ \A h \in j .. i : file[h].kind # "def"

Unlocked(s) == \A k \in DOMAIN s : \A j \in DOMAIN file : ~TakenBefore(j, s[k].at)

Complete(s) == Len(s) = Depth \/ CallersOf(s[Len(s)].by) = {}

OneHeaderEach ==
  \A i, j \in DOMAIN file : file[i].kind = "def" /\ file[j] = file[i] => i = j

(* In a file that defines each function once, a candidate is exonerated     *)
(* just if its function is called and no chain of calls that leads to it,   *)
(* as far as the walk may go, is free of locks: one unlocked caller keeps   *)
(* it, however the callers call each other (caller_lock.py:3-8, 81-104).    *)
WalkMatchesChains ==
  OneHeaderEach =>
    \A f \in Names :
      Held(f) <=> /\ CallersOf(f) # {}
                  /\ ~\E s \in ChainsTo(f) : Complete(s) /\ Unlocked(s)

(* In such a file the lock named with an exonerated candidate is one that a *)
(* chain from its first caller takes, with none nearer to the candidate     *)
(* (caller_lock.py:98-104, 120).                                            *)
NameIsTaken ==
  OneHeaderEach =>
    \A f \in Names : Held(f) =>
      \E s \in ChainsTo(f) :
        /\ s[1] = FirstOf(CallersOf(f))
        /\ \A k \in 1 .. Len(s) - 1 : Unlocked(<<s[k]>>)
        /\ \E j \in DOMAIN file : TakenBefore(j, s[Len(s)].at) /\ file[j].of = HeldName(f)

=============================================================================
