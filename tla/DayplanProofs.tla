--------------------------- MODULE DayplanProofs ---------------------------
(***************************************************************************)
(* Proofs about the reports, for every list, every period and every        *)
(* sequence of commands, and about the program, for every command line:    *)
(* how dpl_time_fmt_durance writes a durance, who owns the iterators, what *)
(* is printed, the period the options leave, and what the commands in main *)
(* then print and free.                                                    *)
(***************************************************************************)
EXTENDS Dayplan, SequenceTheorems,
        WellFoundedInduction, TLAPS

\* A set of numbers that has 0, and each number's successor, has all of them.
LEMMA Induction ==
    ASSUME NEW S \in SUBSET Nat, 0 \in S, \A n \in S : n + 1 \in S
    PROVE  S = Nat
<1>. SUFFICES ASSUME Nat \ S # {}
              PROVE  FALSE
  OBVIOUS
<1>1. PICK m \in Nat \ S : \A k \in Nat \ S : <<k, m>> \notin OpToRel(<, Nat)
  BY NatLessThanWellFounded, WFMin
<1>2. \A k \in Nat \ S : ~(k < m)
  BY <1>1 DEF OpToRel
<1>3. m \in Nat /\ m \notin S /\ m # 0
  OBVIOUS
<1>4. m - 1 \in S
  BY <1>2, <1>3
<1>. QED
  BY <1>3, <1>4

----------------------------------------------------------------------------
(* dpl_time_fmt_durance, for every durance. *)

LEMMA QuotRem60 ==
    ASSUME NEW a \in Int
    PROVE  /\ D!Quot(a, 60) \in Int /\ D!Rem(a, 60) \in -59..59
           /\ a = 60 * D!Quot(a, 60) + D!Rem(a, 60)
           /\ a >= 0 => D!Rem(a, 60) >= 0
           /\ a <= 0 => D!Rem(a, 60) <= 0
  BY DEF D!Quot, D!Rem

LEMMA QuotRem24 ==
    ASSUME NEW a \in Int
    PROVE  /\ D!Quot(a, 24) \in Int /\ D!Rem(a, 24) \in -23..23
           /\ a = 24 * D!Quot(a, 24) + D!Rem(a, 24)
           /\ a >= 0 => D!Rem(a, 24) >= 0
           /\ a <= 0 => D!Rem(a, 24) <= 0
  BY DEF D!Quot, D!Rem

LEMMA Exact60 ==
    ASSUME NEW q \in Int
    PROVE  D!Quot(60 * q, 60) = q
  BY DEF D!Quot

LEMMA Exact24 ==
    ASSUME NEW q \in Int
    PROVE  D!Quot(24 * q, 24) = q
  BY DEF D!Quot

\* time.c:20-38: seconds, minutes, hours and days are the durance again, each
\* is less than one of the next unit, and all have the sign of the durance.
THEOREM SplitExact ==
    ASSUME NEW d \in Int
    PROVE  /\ d = D!Secs(d) + 60 * D!Mins(d) + 3600 * D!Hours(d)
                    + 86400 * D!Days(d)
           /\ D!Secs(d) \in -59..59 /\ D!Mins(d) \in -59..59
           /\ D!Hours(d) \in -23..23 /\ D!Days(d) \in Int
           /\ d >= 0 => /\ D!Secs(d) >= 0 /\ D!Mins(d) >= 0
                        /\ D!Hours(d) >= 0 /\ D!Days(d) >= 0
  <1> DEFINE m == D!Quot(d, 60)
  <1>1. /\ m \in Int /\ D!Secs(d) \in -59..59 /\ d = 60 * m + D!Secs(d)
        /\ d >= 0 => D!Secs(d) >= 0
        /\ d <= 0 => D!Secs(d) <= 0
    BY QuotRem60 DEF D!Secs
  <1>2. D!InMinutes(d) = D!Quot(d - D!Secs(d), 60)
    BY DEF D!InMinutes, D!Secs
  <1> HIDE DEF m
  <1>3. /\ D!InMinutes(d) = m
        /\ d >= 0 => m >= 0
        /\ d <= 0 => m <= 0
    <2>1. d - D!Secs(d) = 60 * m /\ m \in Int
      BY <1>1
    <2>2. D!Quot(d - D!Secs(d), 60) = m
      BY <2>1, Exact60
    <2> QED
      BY <1>1, <1>2, <2>1, <2>2
  <1> DEFINE h == D!Quot(m, 60)
  <1>4. /\ h \in Int /\ D!Mins(d) \in -59..59 /\ m = 60 * h + D!Mins(d)
        /\ m >= 0 => D!Mins(d) >= 0
        /\ m <= 0 => D!Mins(d) <= 0
    BY <1>1, <1>3, QuotRem60 DEF D!Mins
  <1>5. D!InHours(D!InMinutes(d)) = D!Quot(m - D!Mins(d), 60)
    BY <1>3 DEF D!InHours, D!Mins
  <1> HIDE DEF h
  <1>6. /\ D!InHours(D!InMinutes(d)) = h
        /\ m >= 0 => h >= 0
        /\ m <= 0 => h <= 0
    <2>1. m - D!Mins(d) = 60 * h /\ h \in Int
      BY <1>1, <1>4
    <2>2. D!Quot(m - D!Mins(d), 60) = h
      BY <2>1, Exact60
    <2> QED
      BY <1>4, <1>5, <1>1, <2>1, <2>2
  <1> DEFINE k == D!Quot(h, 24)
  <1>7. /\ k \in Int /\ D!Hours(d) \in -23..23 /\ h = 24 * k + D!Hours(d)
        /\ h >= 0 => D!Hours(d) >= 0
        /\ h <= 0 => D!Hours(d) <= 0
    BY <1>4, <1>6, QuotRem24 DEF D!Hours
  <1>8. D!Days(d) = D!Quot(h - D!Hours(d), 24)
    BY <1>6 DEF D!Days
  <1> HIDE DEF k
  <1>9. /\ D!Days(d) = k
        /\ h >= 0 => k >= 0
    <2>1. h - D!Hours(d) = 24 * k /\ k \in Int
      BY <1>4, <1>7
    <2>2. D!Quot(h - D!Hours(d), 24) = k
      BY <2>1, Exact24
    <2> QED
      BY <1>7, <1>8, <1>4, <2>1, <2>2
  <1>10. d >= 0 => /\ D!Secs(d) >= 0 /\ D!Mins(d) >= 0
                   /\ D!Hours(d) >= 0 /\ D!Days(d) >= 0
    BY <1>1, <1>3, <1>4, <1>6, <1>7, <1>9
  <1>11. d = D!Secs(d) + 60 * D!Mins(d) + 3600 * D!Hours(d)
               + 86400 * D!Days(d)
    <2>1. /\ m \in Int /\ h \in Int /\ k \in Int /\ D!Days(d) = k
          /\ D!Secs(d) \in Int /\ D!Mins(d) \in Int /\ D!Hours(d) \in Int
      BY <1>1, <1>4, <1>7, <1>9
    <2>2. /\ d = 60 * m + D!Secs(d) /\ m = 60 * h + D!Mins(d)
          /\ h = 24 * k + D!Hours(d)
      BY <1>1, <1>4, <1>7
    <2> QED
      BY <2>1, <2>2
  <1>12. /\ D!Secs(d) \in -59..59 /\ D!Mins(d) \in -59..59
         /\ D!Hours(d) \in -23..23 /\ D!Days(d) \in Int
    BY <1>1, <1>4, <1>7, <1>9
  <1> QED
    BY <1>10, <1>11, <1>12

\* time.h:20-28: the placeholders in capitals stand for the whole durance, in
\* hours and minutes cut off towards 0, and in seconds.
THEOREM WrittenExact ==
    ASSUME NEW d \in Int
    PROVE  /\ D!Written("S", d) = d
           /\ d >= 0 => D!Written("M", d) = d \div 60
           /\ d >= 0 => D!Written("H", d) = d \div 3600
  <1>1. /\ d = D!Secs(d) + 60 * D!Mins(d) + 3600 * D!Hours(d)
                + 86400 * D!Days(d)
        /\ D!Secs(d) \in Int /\ D!Mins(d) \in Int
        /\ D!Hours(d) \in Int /\ D!Days(d) \in Int
        /\ d >= 0 => /\ D!Secs(d) \in 0..59 /\ D!Mins(d) \in 0..59
                     /\ D!Hours(d) \in 0..23 /\ D!Days(d) \in Nat
    <2>1. /\ d = D!Secs(d) + 60 * D!Mins(d) + 3600 * D!Hours(d)
                + 86400 * D!Days(d)
          /\ D!Secs(d) \in -59..59 /\ D!Mins(d) \in -59..59
          /\ D!Hours(d) \in -23..23 /\ D!Days(d) \in Int
          /\ d >= 0 => /\ D!Secs(d) >= 0 /\ D!Mins(d) >= 0
                       /\ D!Hours(d) >= 0 /\ D!Days(d) >= 0
      BY SplitExact
    <2>2. /\ D!Secs(d) \in Int /\ D!Mins(d) \in Int /\ D!Hours(d) \in Int
          /\ D!Secs(d) <= 59 /\ D!Mins(d) <= 59 /\ D!Hours(d) <= 23
      BY <2>1
    <2>3. d >= 0 => /\ D!Secs(d) \in 0..59 /\ D!Mins(d) \in 0..59
                    /\ D!Hours(d) \in 0..23 /\ D!Days(d) \in Nat
      BY <2>1, <2>2
    <2> QED
      BY <2>1, <2>2, <2>3
  <1>2. D!Written("S", d) = D!Secs(d) + D!Mins(d) * 60 + D!Hours(d) * 3600
                              + D!Days(d) * 86400
    BY DEF D!Written
  <1>3. D!Written("M", d) = D!Mins(d) + D!Hours(d) * 60 + D!Days(d) * 1440
    BY DEF D!Written
  <1>4. D!Written("H", d) = D!Hours(d) + D!Days(d) * 24
    BY DEF D!Written
  <1>5. D!Written("S", d) = d
    BY <1>1, <1>2
  <1>6. ASSUME d >= 0
        PROVE  D!Written("M", d) = d \div 60 /\ D!Written("H", d) = d \div 3600
    <2> DEFINE s == D!Secs(d)
               m == D!Mins(d)
               h == D!Hours(d)
               n == D!Days(d)
    <2>1. s \in 0..59 /\ m \in 0..59 /\ h \in 0..23 /\ n \in Nat
      BY <1>1, <1>6
    <2>2. /\ d = s + 60 * m + 3600 * h + 86400 * n
          /\ D!Written("M", d) = m + h * 60 + n * 1440
          /\ D!Written("H", d) = h + n * 24
      BY <1>1, <1>3, <1>4
    <2> HIDE DEF s, m, h, n
    <2>3. d = 60 * (m + h * 60 + n * 1440) + s
      BY <2>1, <2>2
    <2>4. d = 3600 * (h + n * 24) + (60 * m + s) /\ 60 * m + s \in 0..3599
      BY <2>1, <2>2
    <2> QED
      BY <2>1, <2>2, <2>3, <2>4
  <1> QED
    BY <1>5, <1>6

----------------------------------------------------------------------------
(* Who owns the iterators.  OwnedOnce is not inductive alone: a filter that  *)
(* is made goes into a variable that is not used yet, and no variable of a   *)
(* running report holds an iterator that was freed.                          *)

Running == pc \in {"build", "pull", "sums", "free"}

IsSequence(s) == \E S : s \in Seq(S)

Name == {"work", "tasks", "sum", "unknown"}

Types == /\ commands \in Seq(Name)
         /\ IsSequence(iters)
         /\ freed \subseteq 1..Len(iters)
         /\ local \in [Local -> 0..Len(iters)]
         /\ report \in Report
         /\ stage \in Nat

\* Every iterator that lives is in one variable, and in one only.
Owned == /\ \A i \in (1..Len(iters)) \ freed : \E v \in Local : local[v] = i
         /\ \A v, w \in Local : local[v] = local[w] /\ local[v] # 0 => v = w
         /\ \A v \in Local : local[v] \notin freed

\* The variables of the iterators yet to be made.
Unused == \A k \in (stage + 1)..Len(Calls) : local[Calls[k].out] = 0

OwnInv == /\ Types
          /\ ~twice
          /\ Running => Owned /\ commands # <<>>
          /\ pc = "build" => Unused
          /\ ~Running => freed = 1..Len(iters)
          /\ pc \in {"command", "build", "pull", "sums", "free", "exit"}

----------------------------------------------------------------------------
LEMMA Appended ==
    ASSUME NEW s, IsSequence(s), NEW e
    PROVE  /\ IsSequence(Append(s, e))
           /\ Len(s) \in Nat
           /\ Len(Append(s, e)) = Len(s) + 1
  <1> PICK S : s \in Seq(S)
    BY DEF IsSequence
  <1> DEFINE T == S \union {e}
  <1>1. s \in Seq(T)
    OBVIOUS
  <1>2. /\ Append(s, e) \in Seq(T) /\ Len(s) \in Nat
        /\ Len(Append(s, e)) = Len(s) + 1
    BY <1>1
  <1> QED
    BY <1>2 DEF IsSequence

\* The calls of a report put their iterators into variables of their own.
Apart == /\ Len(Calls) \in Nat
         /\ \A k \in 1..Len(Calls) :
               /\ Calls[k].out \in Local
               /\ Calls[k].op = "period" =>
                     Calls[k].in \in Local /\ Calls[k].in # Calls[k].out
         /\ \A j, k \in 1..Len(Calls) : Calls[j].out = Calls[k].out => j = k

LEMMA CallsApart == report \in Report => Apart
  <1> SUFFICES ASSUME report \in Report
               PROVE  Apart
    OBVIOUS
  <1>1. CASE report = "work"
    <2>1. Calls = << Call("list", "none", "none", "full"),
                     Call("type", "WORK", "full", "work"),
                     Call("period", period.from, "work", "time") >>
      BY <1>1 DEF Calls
    <2> QED
      BY <2>1 DEF Call, Local, Apart
  <1>2. CASE report = "done"
    <2>1. Calls = << Call("list", "none", "none", "full"),
                     Call("period", period.from, "full", "time"),
                     Call("type", "WORK", "time", "work"),
                     Call("task", "none", "work", "task"),
                     Call("done", TRUE, "task", "done"),
                     Call("unique", "none", "done", "dest") >>
      BY <1>2 DEF Calls
    <2> QED
      BY <2>1 DEF Call, Local, Apart
  <1>3. CASE report = "open"
    <2>1. Calls = << Call("list", "none", "none", "full"),
                     Call("period", 0, "full", "time"),
                     Call("type", "TASK", "time", "task"),
                     Call("done", FALSE, "task", "dest") >>
      BY <1>3 DEF Calls
    <2> QED
      BY <2>1 DEF Call, Local, Apart
  <1>4. CASE report = "sum"
    <2>1. Calls = << Call("list", "none", "none", "full"),
                     Call("type", "WORK", "full", "task"),
                     Call("period", period.from, "task", "dest") >>
      BY <1>4 DEF Calls
    <2> QED
      BY <2>1 DEF Call, Local, Apart
  <1> QED
    BY <1>1, <1>2, <1>3, <1>4 DEF Report

----------------------------------------------------------------------------
\* The actions that touch neither iterators nor variables.
LEMMA SameHeap ==
    ASSUME OwnInv,
           UNCHANGED <<commands, iters, freed, local, twice, report, stage>>,
           pc' = "build" => pc = "build" /\ UNCHANGED period,
           (pc' \in {"build", "pull", "sums", "free"}) <=> Running,
           pc' \in {"command", "build", "pull", "sums", "free", "exit"}
    PROVE  OwnInv'
  BY DEF OwnInv, Types, Owned, Unused, Running, Calls

\* A report begins when no iterator lives.
LEMMA StartInv ==
    ASSUME NEW r \in Report, Types, freed' = 1..Len(iters), ~twice',
           UNCHANGED <<iters, commands>>, commands # <<>>, StartReport(r)
    PROVE  OwnInv'
  <1>1. /\ report' = r /\ stage' = 0 /\ local' = [v \in Local |-> 0]
        /\ pc' = "build" /\ freed' = 1..Len(iters) /\ iters' = iters
        /\ IsSequence(iters) /\ commands' = commands
        /\ commands \in Seq(Name) /\ commands # <<>>
    BY DEF StartReport, Types
  <1>2. Len(iters) \in Nat
    BY <1>1, Appended
  <1>3. Types'
    BY <1>1, <1>2 DEF Types
  <1>4. Owned'
    BY <1>1, <1>2 DEF Owned
  <1>5. \A k \in 1..Len(Calls') : Calls'[k].out \in Local
    <2>1. (report \in Report)' => Apart'
      BY CallsApart, PTL
    <2> QED
      BY <1>1, <2>1 DEF Apart, Report
  <1>6. Unused'
    BY <1>1, <1>5 DEF Unused
  <1> QED
    BY <1>1, <1>3, <1>4, <1>6 DEF OwnInv, Running

LEMMA CommandInv == OwnInv /\ Command => OwnInv'
  <1> SUFFICES ASSUME OwnInv, Command
               PROVE  OwnInv'
    OBVIOUS
  <1>1. /\ pc = "command" /\ Types /\ freed = 1..Len(iters) /\ ~twice
        /\ UNCHANGED <<iters, freed, twice, commands>>
        /\ commands # <<>> /\ commands \in Seq(Name)
    BY DEF Command, OwnInv, Running, Types
  <1>2. CASE commands[1] = "unknown"
    <2>1. UNCHANGED <<report, stage, local>> /\ pc' = "exit"
      BY <1>2 DEF Command
    <2> QED
      BY <1>1, <2>1, SameHeap DEF Running
  <1>3. CASE commands[1] # "unknown"
    <2> DEFINE r == IF commands[1] = "tasks" THEN "done" ELSE commands[1]
    <2>1. StartReport(r)
      BY <1>3 DEF Command
    <2>2. r \in Report
      <3>1. commands[1] \in Name
        BY <1>1
      <3> QED
        BY <1>3, <3>1 DEF Report, Name
    <2> QED
      BY <1>1, <2>1, <2>2, StartInv
  <1> QED
    BY <1>2, <1>3

\* What the two ways to make the next iterator have in common.
LEMMA BuildFacts ==
    ASSUME OwnInv, Build
    PROVE  /\ Types /\ Owned /\ Unused /\ Apart /\ ~twice /\ commands # <<>>
           /\ stage \in Nat /\ stage + 1 \in 1..Len(Calls)
           /\ Len(iters) \in Nat
           /\ local[Calls[stage + 1].out] = 0
           /\ Calls' = Calls /\ stage' = stage + 1 /\ pc = "build"
           /\ UNCHANGED <<commands, report, freed, twice, pc>>
  <1>1. /\ Types /\ Owned /\ Unused /\ ~twice /\ commands # <<>>
        /\ stage \in Nat /\ report \in Report /\ stage < Len(Calls)
        /\ stage' = stage + 1 /\ pc = "build"
        /\ UNCHANGED <<period, commands, report, freed, twice, pc>>
    BY DEF OwnInv, Running, Build, Types
  <1>2. Apart /\ Len(iters) \in Nat
    BY <1>1, CallsApart, Appended DEF Types
  <1>3. stage + 1 \in 1..Len(Calls) /\ stage + 1 \in (stage + 1)..Len(Calls)
    BY <1>1, <1>2 DEF Apart
  <1>4. local[Calls[stage + 1].out] = 0
    BY <1>1, <1>3 DEF Unused
  <1>5. Calls' = Calls
    BY <1>1 DEF Calls
  <1> QED
    BY <1>1, <1>2, <1>3, <1>4, <1>5

LEMMA NewIterInv ==
    ASSUME OwnInv, Build, NewIter(Calls[stage + 1])
    PROVE  OwnInv'
  <1> PICK n : n = Len(iters)
    OBVIOUS
  <1> PICK out : out = Calls[stage + 1].out
    OBVIOUS
  <1>1. /\ Types /\ Owned /\ Unused /\ Apart /\ ~twice /\ commands # <<>>
        /\ stage \in Nat /\ stage + 1 \in 1..Len(Calls) /\ n \in Nat
        /\ local[out] = 0 /\ Calls' = Calls /\ stage' = stage + 1
        /\ pc = "build" /\ UNCHANGED <<commands, report, freed, twice, pc>>
    BY BuildFacts
  <1>2. out \in Local
    BY <1>1 DEF Apart
  <1>3. /\ local \in [Local -> 0..n] /\ freed \subseteq 1..n
        /\ commands \in Seq(Name) /\ report \in Report
    BY <1>1 DEF Types
  <1>4. local' = [local EXCEPT ![out] = n + 1]
    BY DEF NewIter
  <1>5. Len(iters') = n + 1 /\ IsSequence(iters')
    BY <1>1, Appended DEF NewIter, Types
  <1>6. 1..(n + 1) = 1..n \union {n + 1} /\ n + 1 \notin 0..n
    BY <1>1
  <1>7. Types'
    <2>1. local' \in [Local -> 0..(n + 1)]
      BY <1>1, <1>2, <1>3, <1>4
    <2> QED
      BY <1>1, <1>3, <1>5, <1>6, <2>1 DEF Types
  <1>8. Owned'
    <2>1. ASSUME NEW i \in (1..(n + 1)) \ freed
          PROVE  \E v \in Local : local'[v] = i
      <3>1. CASE i = n + 1
        BY <1>2, <1>3, <1>4, <3>1
      <3>2. CASE i # n + 1
        <4>1. PICK v \in Local : local[v] = i
          BY <1>1, <1>6, <2>1, <3>2 DEF Owned
        <4>2. local'[v] = i
          BY <1>1, <1>3, <1>4, <2>1, <4>1
        <4> QED
          BY <4>2
      <3> QED
        BY <3>1, <3>2
    <2>2. \A v \in Local : local'[v] = IF v = out THEN n + 1 ELSE local[v]
      BY <1>2, <1>3, <1>4
    <2>3. \A v \in Local : local[v] \in 0..n
      BY <1>3
    <2>4. \A v, w \in Local : local'[v] = local'[w] /\ local'[v] # 0 => v = w
      BY <1>1, <1>6, <2>2, <2>3 DEF Owned
    <2>5. \A v \in Local : local'[v] \notin freed
      BY <1>1, <1>3, <1>6, <2>2 DEF Owned
    <2> QED
      BY <1>1, <1>5, <2>1, <2>4, <2>5 DEF Owned
  <1>9. Unused'
    <2>1. ASSUME NEW k \in (stage + 2)..Len(Calls)
          PROVE  local'[Calls[k].out] = 0
      <3>1. /\ k \in 1..Len(Calls) /\ k \in (stage + 1)..Len(Calls)
            /\ k # stage + 1
        BY <1>1 DEF Apart
      <3>2. Calls[k].out \in Local /\ Calls[k].out # out
        BY <1>1, <3>1 DEF Apart
      <3>3. local[Calls[k].out] = 0
        BY <1>1, <3>1 DEF Unused
      <3> QED
        BY <1>3, <1>4, <3>2, <3>3
    <2>2. stage' + 1 = stage + 2
      BY <1>1
    <2> QED
      BY <1>1, <2>1, <2>2 DEF Unused
  <1> QED
    BY <1>1, <1>7, <1>8, <1>9 DEF OwnInv, Running

LEMMA PassThroughInv ==
    ASSUME OwnInv, Build, Calls[stage + 1].op = "period",
           PassThrough(Calls[stage + 1])
    PROVE  OwnInv'
  <1> PICK n : n = Len(iters)
    OBVIOUS
  <1> PICK out : out = Calls[stage + 1].out
    OBVIOUS
  <1> PICK in : in = Calls[stage + 1].in
    OBVIOUS
  <1>1. /\ Types /\ Owned /\ Unused /\ Apart /\ ~twice /\ commands # <<>>
        /\ stage \in Nat /\ stage + 1 \in 1..Len(Calls) /\ n \in Nat
        /\ local[out] = 0 /\ Calls' = Calls /\ stage' = stage + 1
        /\ pc = "build" /\ UNCHANGED <<commands, report, freed, twice, pc>>
    BY BuildFacts
  <1>2. out \in Local /\ in \in Local /\ in # out
    BY <1>1 DEF Apart
  <1>3. /\ local \in [Local -> 0..n] /\ freed \subseteq 1..n
        /\ commands \in Seq(Name) /\ report \in Report /\ IsSequence(iters)
    BY <1>1 DEF Types
  <1>4. /\ local' = [local EXCEPT ![out] = local[in], ![in] = 0]
        /\ UNCHANGED iters
    BY DEF PassThrough
  <1>5. \A v \in Local : local'[v] = IF v = in THEN 0
                                     ELSE IF v = out THEN local[in]
                                     ELSE local[v]
    BY <1>2, <1>3, <1>4
  <1>6. Types'
    <2>1. local' \in [Local -> 0..n]
      BY <1>1, <1>2, <1>3, <1>4
    <2> QED
      BY <1>1, <1>3, <1>4, <2>1 DEF Types
  <1>7. Owned'
    <2>1. ASSUME NEW i \in (1..n) \ freed
          PROVE  \E v \in Local : local'[v] = i
      <3>1. PICK v \in Local : local[v] = i
        BY <1>1 DEF Owned
      <3>2. v # out
        BY <1>1, <2>1, <3>1
      <3>3. CASE v = in
        BY <1>2, <1>5, <3>1, <3>3
      <3>4. CASE v # in
        BY <1>5, <3>1, <3>2, <3>4
      <3> QED
        BY <3>3, <3>4
    <2>2. \A v, w \in Local : local'[v] = local'[w] /\ local'[v] # 0 => v = w
      BY <1>1, <1>2, <1>5 DEF Owned
    <2>3. \A v \in Local : local'[v] \notin freed
      <3>1. 0 \notin freed
        BY <1>3
      <3> QED
        BY <1>1, <1>2, <1>5, <3>1 DEF Owned
    <2> QED
      BY <1>1, <1>4, <2>1, <2>2, <2>3 DEF Owned
  <1>8. Unused'
    <2>1. ASSUME NEW k \in (stage + 2)..Len(Calls)
          PROVE  local'[Calls[k].out] = 0
      <3>1. /\ k \in 1..Len(Calls) /\ k \in (stage + 1)..Len(Calls)
            /\ k # stage + 1
        BY <1>1 DEF Apart
      <3>2. Calls[k].out \in Local /\ Calls[k].out # out
        BY <1>1, <3>1 DEF Apart
      <3>3. local[Calls[k].out] = 0
        BY <1>1, <3>1 DEF Unused
      <3> QED
        BY <1>5, <3>2, <3>3
    <2>2. stage' + 1 = stage + 2
      BY <1>1
    <2> QED
      BY <1>1, <2>1, <2>2 DEF Unused
  <1> QED
    BY <1>1, <1>6, <1>7, <1>8 DEF OwnInv, Running

LEMMA BuildInv == OwnInv /\ Build => OwnInv'
  BY NewIterInv, PassThroughInv DEF Build

LEMMA SumInv == OwnInv /\ Sum => OwnInv'
  <1> SUFFICES ASSUME OwnInv, Sum
               PROVE  OwnInv'
    OBVIOUS
  <1> PICK n : n = Len(iters)
    OBVIOUS
  <1>1. /\ Types /\ Owned /\ ~twice /\ commands # <<>> /\ pc = "sums"
        /\ freed' = freed \union {n + 1}
        /\ UNCHANGED <<commands, report, stage, local, twice, pc>>
    BY DEF OwnInv, Running, Sum
  <1>2. Len(iters') = n + 1 /\ IsSequence(iters') /\ n \in Nat
    BY <1>1, Appended DEF Sum, Types
  <1>3. 1..(n + 1) = 1..n \union {n + 1} /\ n + 1 \notin 0..n
    BY <1>2
  <1>4. local \in [Local -> 0..n] /\ freed \subseteq 1..n
    BY <1>1 DEF Types
  <1>5. Types'
    <2>1. local \in [Local -> 0..(n + 1)]
      BY <1>2, <1>4
    <2> QED
      BY <1>1, <1>2, <1>3, <1>4, <2>1 DEF Types
  <1>6. Owned'
    BY <1>1, <1>2, <1>3, <1>4 DEF Owned
  <1> QED
    BY <1>1, <1>5, <1>6 DEF OwnInv, Running

\* The three functions free what their variables hold, which is all that lives.
LEMMA FreeItersInv == OwnInv /\ FreeIters => OwnInv'
  <1> SUFFICES ASSUME OwnInv, FreeIters
               PROVE  OwnInv'
    OBVIOUS
  <1> DEFINE held == {v \in Local : local[v] # 0}
  <1>1. /\ Types /\ Owned /\ ~twice /\ commands # <<>> /\ pc = "free"
        /\ freed' = freed \union {local[v] : v \in held}
        /\ UNCHANGED iters
    BY DEF OwnInv, Running, FreeIters
  <1>2. ~twice'
    <2>1. ~(\E v \in held : local[v] \in freed)
      BY <1>1 DEF Owned
    <2>2. ~(\E v, w \in held : v # w /\ local[v] = local[w])
      BY <1>1 DEF Owned
    <2> QED
      BY <1>1, <2>1, <2>2 DEF FreeIters
  <1>3. freed' = 1..Len(iters)
    <2>1. /\ local \in [Local -> 0..Len(iters)] /\ freed \subseteq 1..Len(iters)
          /\ Len(iters) \in Nat
      BY <1>1, Appended DEF Types
    <2>2. \A v \in held : local[v] \in 1..Len(iters)
      BY <2>1
    <2>3. ASSUME NEW i \in (1..Len(iters)) \ freed
          PROVE  i \in {local[v] : v \in held}
      <3>1. PICK v \in Local : local[v] = i
        BY <1>1 DEF Owned
      <3>2. v \in held
        BY <2>1, <3>1
      <3> QED
        BY <3>1, <3>2
    <2> QED
      BY <1>1, <2>1, <2>2, <2>3
  <1>4. CASE ret = "OK" /\ report = "done"
    <2>1. StartReport("open") /\ UNCHANGED commands
      BY <1>4 DEF FreeIters
    <2> QED
      BY <1>1, <1>2, <1>3, <2>1, StartInv DEF Report
  <1>5. CASE ~(ret = "OK" /\ report = "done")
    <2>1. /\ pc' \in {"exit", "command"}
          /\ commands' \in {commands, Tail(commands)}
          /\ UNCHANGED <<report, stage, local>>
      BY <1>5 DEF FreeIters
    <2>2. commands' \in Seq(Name)
      BY <1>1, <2>1 DEF Types
    <2>3. Types'
      BY <1>1, <1>3, <2>1, <2>2 DEF Types
    <2> QED
      BY <1>1, <1>2, <1>3, <2>1, <2>3 DEF OwnInv, Running
  <1> QED
    BY <1>4, <1>5

LEMMA OtherInv ==
    /\ OwnInv
    /\ \/ NoCommand \/ BuildFails \/ Built
       \/ PullSkip \/ Pull \/ PullFails \/ PullEnd \/ SumFails \/ SumEnd
    => OwnInv'
  <1> SUFFICES ASSUME OwnInv,
                      \/ NoCommand \/ BuildFails \/ Built
                      \/ PullSkip \/ Pull \/ PullFails \/ PullEnd
                      \/ SumFails \/ SumEnd
               PROVE  OwnInv'
    OBVIOUS
  <1>1. /\ UNCHANGED <<commands, iters, freed, local, twice, report, stage>>
        /\ pc' # "build"
        /\ pc' \in {"build", "pull", "sums", "free"} <=> Running
        /\ pc' \in {"command", "build", "pull", "sums", "free", "exit"}
    BY DEF NoCommand, BuildFails, Built, PullSkip, Pull, PullFails, PullEnd,
           SumFails, SumEnd, heap, output, Running
  <1> QED
    BY <1>1, SameHeap

LEMMA OwnNextInv == OwnInv /\ Next => OwnInv'
  BY CommandInv, BuildInv, SumInv, FreeItersInv, OtherInv
     DEF Next, Construct, Output

\* What another step must leave alone.
LEMMA OwnStutterInv ==
    OwnInv /\ UNCHANGED <<commands, report, stage, heap, pc>>
        /\ (pc = "build" => UNCHANGED period)
        => OwnInv'
  BY SameHeap DEF heap, OwnInv, Running

LEMMA OwnInitInv == Init => OwnInv
  <1> SUFFICES ASSUME Init
               PROVE  OwnInv
    OBVIOUS
  <1>1. IsSequence(<<>>) /\ Len(<<>>) = 0
    <2>1. <<>> \in Seq({})
      OBVIOUS
    <2> QED
      BY <2>1 DEF IsSequence
  <1>2. commands \in Seq(Name)
    BY CommandsAssumption DEF Init, Name
  <1> QED
    BY <1>1, <1>2 DEF Init, OwnInv, Types, Running, Report

LEMMA OwnInvOwns == OwnInv => OwnedOnce
  BY DEF OwnInv, OwnedOnce, Running, Owned

----------------------------------------------------------------------------
\* main.c:185-423, for every list, every period and every sequence of
\* commands: whatever allocation fails in whatever report, each iterator is
\* freed once and none is left.
THEOREM IteratorsOwned == Spec => []OwnedOnce
  <1>1. OwnInv /\ [Next]_vars => OwnInv'
    <2>1. OwnInv /\ UNCHANGED vars => OwnInv'
      BY OwnStutterInv DEF vars
    <2> QED
      BY <2>1, OwnNextInv
  <1> QED
    BY <1>1, OwnInitInv, OwnInvOwns, PTL DEF Spec

----------------------------------------------------------------------------
\* Every iterator pulls from one that was made before it.
Sources == \A i \in 1..Len(iters) : iters[i].source \in 0..(i - 1)

\* place[k] is the iterator that stands for the first k calls of the report:
\* the one the k-th call made, or for a period filter without a period the one
\* it took over.
Stands(place, k) ==
    IF k = 1 THEN iters[place[1]].op = "list"
    ELSE IF Calls[k].op = "period" /\ NoPeriod THEN place[k] = place[k - 1]
    ELSE iters[place[k]] = [op |-> Calls[k].op, arg |-> Calls[k].arg,
                            source |-> place[k - 1]]

Stacked ==
    stage > 0 =>
        \E place \in [1..stage -> 1..Len(iters)] :
            /\ \A k \in 1..stage : Stands(place, k)
            /\ local[Calls[stage].out] = place[stage]

\* The first call makes an iterator over the list, every other one a filter
\* that pulls from the one before.
Joined == /\ Len(Calls) \in {3, 4, 6}
          /\ \A k \in 1..Len(Calls) : Calls[k].out \in Local
          /\ \A k \in 1..Len(Calls) : Calls[k].op = "list" <=> k = 1
          /\ \A k \in 2..Len(Calls) : Calls[k].in = Calls[k - 1].out

LEMMA CallsJoined == report \in Report => Joined
  <1> SUFFICES ASSUME report \in Report
               PROVE  Joined
    OBVIOUS
  <1>1. CASE report = "work"
    <2>1. Calls = << Call("list", "none", "none", "full"),
                     Call("type", "WORK", "full", "work"),
                     Call("period", period.from, "work", "time") >>
      BY <1>1 DEF Calls
    <2> QED
      BY <2>1 DEF Call, Local, Joined
  <1>2. CASE report = "done"
    <2>1. Calls = << Call("list", "none", "none", "full"),
                     Call("period", period.from, "full", "time"),
                     Call("type", "WORK", "time", "work"),
                     Call("task", "none", "work", "task"),
                     Call("done", TRUE, "task", "done"),
                     Call("unique", "none", "done", "dest") >>
      BY <1>2 DEF Calls
    <2> QED
      BY <2>1 DEF Call, Local, Joined
  <1>3. CASE report = "open"
    <2>1. Calls = << Call("list", "none", "none", "full"),
                     Call("period", 0, "full", "time"),
                     Call("type", "TASK", "time", "task"),
                     Call("done", FALSE, "task", "dest") >>
      BY <1>3 DEF Calls
    <2> QED
      BY <2>1 DEF Call, Local, Joined
  <1>4. CASE report = "sum"
    <2>1. Calls = << Call("list", "none", "none", "full"),
                     Call("type", "WORK", "full", "task"),
                     Call("period", period.from, "task", "dest") >>
      BY <1>4 DEF Calls
    <2> QED
      BY <2>1 DEF Call, Local, Joined
  <1> QED
    BY <1>1, <1>2, <1>3, <1>4 DEF Report

\* The elements of a sequence with one more.
LEMMA AppendedElements ==
    ASSUME NEW s, IsSequence(s), NEW e
    PROVE  /\ \A i \in 1..Len(s) : Append(s, e)[i] = s[i]
           /\ Append(s, e)[Len(s) + 1] = e
           /\ Elements(Append(s, e)) = Elements(s) \union {e}
  <1> PICK S : s \in Seq(S)
    BY DEF IsSequence
  <1> DEFINE T == S \union {e}
  <1>1. s \in Seq(T) /\ e \in T
    OBVIOUS
  <1>2. /\ Len(s) \in Nat
        /\ Len(Append(s, e)) = Len(s) + 1
        /\ \A i \in 1..Len(s) : Append(s, e)[i] = s[i]
        /\ Append(s, e)[Len(s) + 1] = e
    BY <1>1, AppendProperties, LenProperties
  <1>3. Elements(Append(s, e)) = Elements(s) \union {e}
    <2>1. \A i \in 1..(Len(s) + 1) : i \in 1..Len(s) \/ i = Len(s) + 1
      BY <1>2
    <2>2. \A i \in 1..Len(s) : i \in 1..(Len(s) + 1)
      BY <1>2
    <2>3. Len(s) + 1 \in 1..(Len(s) + 1)
      BY <1>2
    <2> QED
      BY <1>2, <2>1, <2>2, <2>3 DEF Elements
  <1> QED
    BY <1>2, <1>3

----------------------------------------------------------------------------
\* What the iterators hand up is well defined: each asks only those that were
\* made before it.
Up(f, e, i) == IF i = 0 \/ iters[i].op = "list" THEN e
               ELSE IF f[iters[i].source] = 0 THEN 0
               ELSE Filter(iters[i], f[iters[i].source])

LEMMA UpExists ==
    ASSUME Sources, Len(iters) \in Nat, NEW e
    PROVE  \E f : f = [i \in 0..Len(iters) |-> Up(f, e, i)]
  <1> DEFINE Has(n) == \E f : f = [i \in 0..n |-> Up(f, e, i)]
             S == {n \in Nat : n <= Len(iters) => Has(n)}
  <1>1. 0 \in S
    <2> DEFINE f == [i \in 0..0 |-> e]
    <2>1. f = [i \in 0..0 |-> Up(f, e, i)]
      BY DEF Up
    <2> QED
      BY <2>1
  <1>2. ASSUME NEW n \in S
        PROVE  n + 1 \in S
    <2> SUFFICES ASSUME n + 1 <= Len(iters)
                 PROVE  Has(n + 1)
      OBVIOUS
    <2>1. PICK f : f = [i \in 0..n |-> Up(f, e, i)]
      OBVIOUS
    <2> DEFINE g == [i \in 0..(n + 1) |-> IF i <= n THEN f[i]
                                          ELSE Up(f, e, n + 1)]
    <2>2. \A i \in 0..n : g[i] = f[i]
      OBVIOUS
    <2>3. ASSUME NEW i \in 0..(n + 1)
          PROVE  Up(g, e, i) = Up(f, e, i)
      <3>1. CASE i = 0
        BY <3>1 DEF Up
      <3>2. CASE i # 0
        <4>1. iters[i].source \in 0..n
          BY <3>2 DEF Sources
        <4>2. g[iters[i].source] = f[iters[i].source]
          BY <2>2, <4>1
        <4> HIDE DEF g
        <4> QED
          BY <4>2 DEF Up
      <3> QED
        BY <3>1, <3>2
    <2>4. \A i \in 0..n : f[i] = Up(f, e, i)
      BY <2>1
    <2>5. ASSUME NEW i \in 0..(n + 1)
          PROVE  g[i] = Up(g, e, i)
      <3>1. CASE i <= n
        <4>1. i \in 0..n
          BY <3>1
        <4> HIDE DEF g
        <4> QED
          BY <2>2, <2>3, <2>4, <4>1
      <3>2. CASE ~(i <= n)
        <4>1. i = n + 1 /\ g[i] = Up(f, e, n + 1)
          BY <3>2
        <4> HIDE DEF g
        <4> QED
          BY <2>3, <4>1
      <3> QED
        BY <3>1, <3>2
    <2>6. g = [i \in 0..(n + 1) |-> Up(g, e, i)]
      <3>1. g = [i \in 0..(n + 1) |-> g[i]]
        OBVIOUS
      <3> HIDE DEF g
      <3> QED
        BY <2>5, <3>1
    <2> QED
      BY <2>6
  <1>3. S = Nat
    <2> HIDE DEF S
    <2>1. S \in SUBSET Nat
      BY DEF S
    <2> QED
      BY <1>1, <1>2, <2>1, Induction
  <1> QED
    BY <1>3

\* What comes out of a call of the report, when x goes in.
Through(call, x) ==
    IF call.op = "period" /\ NoPeriod THEN x
    ELSE IF x = 0 THEN 0
    ELSE Filter([op |-> call.op, arg |-> call.arg], x)

LEMMA FilterSame ==
    ASSUME NEW r, NEW q, r.op = q.op, r.arg = q.arg, NEW x
    PROVE  Filter(r, x) = Filter(q, x)
  BY DEF Filter

\* The result is what the calls pass on, one after the other.
LEMMA ResultThrough ==
    ASSUME Sources, Stacked, Joined, stage = Len(Calls), Len(iters) \in Nat,
           NEW e
    PROVE  \E up : /\ up[1] = e
                   /\ \A k \in 2..Len(Calls) :
                         up[k] = Through(Calls[k], up[k - 1])
                   /\ Result(e) = up[Len(Calls)]
  <1> DEFINE L == Len(Calls)
             n == Len(iters)
             f == CHOOSE f : f = [i \in 0..n |-> Up(f, e, i)]
  <1>1. L \in Nat /\ L > 2 /\ stage > 0
    BY DEF Joined
  <1>2. f = [i \in 0..n |-> Up(f, e, i)]
    BY UpExists
  <1>3. Result(e) = f[Top]
    BY DEF Result, Up
  <1> HIDE DEF f
  <1>4. PICK place \in [1..L -> 1..n] :
            /\ \A k \in 1..L : Stands(place, k)
            /\ local[Calls[L].out] = place[L]
    BY <1>1 DEF Stacked
  <1> DEFINE up == [k \in 1..L |-> f[place[k]]]
  <1>5. up[1] = e
    <2>1. 1 \in 1..L
      BY <1>1
    <2>2. place[1] \in 0..n
      BY <1>4, <2>1
    <2>3. iters[place[1]].op = "list"
      BY <1>4, <2>1 DEF Stands
    <2>4. f[place[1]] = e
      BY <1>2, <2>2, <2>3 DEF Up
    <2> QED
      BY <2>1, <2>4
  <1>6. ASSUME NEW k \in 2..L
        PROVE  up[k] = Through(Calls[k], up[k - 1])
    <2>1. /\ k \in 1..L /\ k - 1 \in 1..L /\ k # 1
          /\ place[k] \in 0..n /\ place[k] # 0
          /\ up[k] = f[place[k]] /\ up[k - 1] = f[place[k - 1]]
      BY <1>1, <1>4
    <2>2. CASE Calls[k].op = "period" /\ NoPeriod
      <3>1. place[k] = place[k - 1]
        BY <1>4, <2>1, <2>2 DEF Stands
      <3> QED
        BY <2>1, <2>2, <3>1 DEF Through
    <2>3. CASE ~(Calls[k].op = "period" /\ NoPeriod)
      <3>1. iters[place[k]] = [op |-> Calls[k].op, arg |-> Calls[k].arg,
                               source |-> place[k - 1]]
        BY <1>4, <2>1, <2>3 DEF Stands
      <3>2. Calls[k].op # "list"
        BY <2>1 DEF Joined
      <3>3. f[place[k]] = IF f[place[k - 1]] = 0 THEN 0
                          ELSE Filter(iters[place[k]], f[place[k - 1]])
        BY <1>2, <2>1, <3>1, <3>2 DEF Up
      <3>4. \A x : Filter(iters[place[k]], x) =
                      Filter([op |-> Calls[k].op, arg |-> Calls[k].arg], x)
        BY <3>1, FilterSame
      <3> HIDE DEF up
      <3> QED
        BY <2>1, <2>3, <3>3, <3>4 DEF Through
    <2> QED
      BY <2>2, <2>3
  <1>7. Result(e) = up[L]
    BY <1>1, <1>3, <1>4 DEF Top
  <1> QED
    BY <1>5, <1>6, <1>7

----------------------------------------------------------------------------
(* What each filter passes on. *)

LEMMA TypePasses ==
    ASSUME NEW arg, NEW in, NEW out, NEW x
    PROVE  Through(Call("type", arg, in, out), x) =
              IF x # 0 /\ list[x].type = arg THEN x ELSE 0
  BY DEF Through, Call, Filter

LEMMA PeriodPasses ==
    ASSUME NEW from, NEW in, NEW out, NEW x
    PROVE  Through(Call("period", from, in, out), x) =
              IF x # 0 /\ Within(x, from) THEN x ELSE 0
  BY DEF Through, Call, Filter, Within, InPeriod

LEMMA TaskPasses ==
    ASSUME NEW arg, NEW in, NEW out, NEW x
    PROVE  Through(Call("task", arg, in, out), x) =
              IF x # 0 THEN list[x].task ELSE 0
  BY DEF Through, Call, Filter

LEMMA DonePasses ==
    ASSUME NEW in, NEW out, NEW x,
           x # 0 => list[x].type = "TASK" /\ list[x].done \in BOOLEAN
    PROVE  Through(Call("done", TRUE, in, out), x) =
              IF x # 0 /\ list[x].done THEN x ELSE 0
  BY DEF Through, Call, Filter

LEMMA OpenPasses ==
    ASSUME NEW in, NEW out, NEW x,
           x # 0 => list[x].type = "TASK" /\ list[x].done \in BOOLEAN
    PROVE  Through(Call("done", FALSE, in, out), x) =
              IF x # 0 /\ ~list[x].done THEN x ELSE 0
  BY DEF Through, Call, Filter

LEMMA UniquePasses ==
    ASSUME NEW arg, NEW in, NEW out, NEW x
    PROVE  Through(Call("unique", arg, in, out), x) =
              IF x # 0 /\ x \notin Elements(returned) THEN x ELSE 0
  BY DEF Through, Call, Filter, Elements

\* What the report takes up when e comes from the list, 0 for nothing.
Handed(e) ==
    IF report = "open"
    THEN IF list[e].type = "TASK" /\ ~list[e].done /\ Within(e, 0) THEN e ELSE 0
    ELSE IF report = "done"
    THEN IF /\ e \in Worked
            /\ list[e].task # 0
            /\ list[list[e].task].done
            /\ list[e].task \notin Elements(returned)
         THEN list[e].task ELSE 0
    ELSE IF e \in Worked THEN e ELSE 0

\* The entries of the list, their tasks and the groups they are in.
LEMMA EntryFacts ==
    ASSUME list \in EntryLists
    PROVE  /\ Len(list) \in Nat
           /\ Entry = 1..Len(list)
           /\ \A e \in Entry :
                 /\ e # 0
                 /\ list[e].type \in {"WORK", "TASK"}
                 /\ list[e].begin \in Int /\ list[e].end \in Int
                 /\ list[e].done \in BOOLEAN
                 /\ list[e].keys \subseteq Nat
                 /\ list[e].keys # {} /\ IsFiniteSet(list[e].keys)
                 /\ list[e].task # 0 => /\ list[e].task \in Entry
                                        /\ list[list[e].task].type = "TASK"
  <1>1. /\ list \in Seq(EntryType)
        /\ \A e \in 1..Len(list) :
              /\ IsFiniteSet(list[e].keys) /\ list[e].keys # {}
              /\ list[e].task # 0 => /\ list[e].type = "WORK"
                                     /\ list[e].task \in 1..Len(list)
                                     /\ list[list[e].task].type = "TASK"
    BY EntryListsAssumption
  <1>2. Len(list) \in Nat /\ Entry = 1..Len(list)
    BY <1>1, LenProperties DEF Entry
  <1>3. \A e \in 1..Len(list) : list[e] \in EntryType
    BY <1>1, ElementOfSeq
  <1> QED
    BY <1>1, <1>2, <1>3 DEF EntryType

LEMMA ResultWork ==
    ASSUME list \in EntryLists, report \in {"work", "sum"},
           Sources, Stacked, stage = Len(Calls), Len(iters) \in Nat,
           NEW e \in Entry
    PROVE  Result(e) = Handed(e)
  <1>1. PICK up : /\ up[1] = e
                  /\ \A k \in 2..Len(Calls) :
                        up[k] = Through(Calls[k], up[k - 1])
                  /\ Result(e) = up[Len(Calls)]
    BY CallsJoined, ResultThrough DEF Report
  <1>2. e # 0
    BY EntryFacts
  <1>3. \E v, w : Calls = << Call("list", "none", "none", "full"),
                             Call("type", "WORK", "full", v),
                             Call("period", period.from, v, w) >>
    BY DEF Calls
  <1>4. /\ up[2] = IF up[1] # 0 /\ list[up[1]].type = "WORK" THEN up[1] ELSE 0
        /\ up[3] = IF up[2] # 0 /\ Within(up[2], period.from) THEN up[2]
                   ELSE 0
        /\ Result(e) = up[3]
    <2>1. PICK v, w : Calls = << Call("list", "none", "none", "full"),
                                 Call("type", "WORK", "full", v),
                                 Call("period", period.from, v, w) >>
      BY <1>3
    <2>2. /\ Len(Calls) = 3
          /\ Calls[2] = Call("type", "WORK", "full", v)
          /\ Calls[3] = Call("period", period.from, v, w)
      BY <2>1
    <2>3. /\ up[2] = Through(Calls[2], up[1])
          /\ up[3] = Through(Calls[3], up[2])
          /\ Result(e) = up[3]
      <3>1. 2 \in 2..Len(Calls) /\ 3 \in 2..Len(Calls)
        BY <2>2
      <3>2. up[2] = Through(Calls[2], up[2 - 1])
        BY <1>1, <3>1
      <3>3. up[3] = Through(Calls[3], up[3 - 1])
        BY <1>1, <3>1
      <3> QED
        BY <1>1, <2>2, <3>2, <3>3
    <2> QED
      BY <2>2, <2>3, TypePasses, PeriodPasses
  <1>5. Handed(e) = IF e \in Worked THEN e ELSE 0
    BY DEF Handed
  <1> QED
    BY <1>1, <1>2, <1>4, <1>5 DEF Worked

LEMMA ResultOpen ==
    ASSUME list \in EntryLists, report = "open",
           Sources, Stacked, stage = Len(Calls), Len(iters) \in Nat,
           NEW e \in Entry
    PROVE  Result(e) = Handed(e)
  <1>1. PICK up : /\ up[1] = e
                  /\ \A k \in 2..Len(Calls) :
                        up[k] = Through(Calls[k], up[k - 1])
                  /\ Result(e) = up[Len(Calls)]
    BY CallsJoined, ResultThrough DEF Report
  <1>2. e # 0 /\ list[e].done \in BOOLEAN
    BY EntryFacts
  <1>3. Calls = << Call("list", "none", "none", "full"),
                   Call("period", 0, "full", "time"),
                   Call("type", "TASK", "time", "task"),
                   Call("done", FALSE, "task", "dest") >>
    BY DEF Calls
  <1>4. /\ Len(Calls) = 4
        /\ Calls[2] = Call("period", 0, "full", "time")
        /\ Calls[3] = Call("type", "TASK", "time", "task")
        /\ Calls[4] = Call("done", FALSE, "task", "dest")
    BY <1>3
  <1>5. /\ up[2] = Through(Calls[2], up[1]) /\ up[3] = Through(Calls[3], up[2])
        /\ up[4] = Through(Calls[4], up[3]) /\ Result(e) = up[4]
    <2>1. 2 \in 2..Len(Calls) /\ 3 \in 2..Len(Calls) /\ 4 \in 2..Len(Calls)
      BY <1>4
    <2>2. up[2] = Through(Calls[2], up[1])
      BY <1>1, <2>1, 2 - 1 = 1
    <2>3. up[3] = Through(Calls[3], up[2])
      BY <1>1, <2>1, 3 - 1 = 2
    <2>4. up[4] = Through(Calls[4], up[3])
      BY <1>1, <2>1, 4 - 1 = 3
    <2> QED
      BY <1>1, <1>4, <2>2, <2>3, <2>4
  <1>6. up[2] = IF Within(e, 0) THEN e ELSE 0
    BY <1>1, <1>2, <1>4, <1>5, PeriodPasses
  <1>7. up[3] = IF Within(e, 0) /\ list[e].type = "TASK" THEN e ELSE 0
    BY <1>2, <1>4, <1>5, <1>6, TypePasses
  <1>8. up[4] = IF up[3] # 0 /\ ~list[up[3]].done THEN up[3] ELSE 0
    <2>1. up[3] # 0 => /\ list[up[3]].type = "TASK"
                       /\ list[up[3]].done \in BOOLEAN
      BY <1>2, <1>7
    <2>2. up[4] = Through(Call("done", FALSE, "task", "dest"), up[3])
      BY <1>4, <1>5
    <2> QED
      BY <2>1, <2>2, OpenPasses
  <1> QED
    BY <1>2, <1>5, <1>7, <1>8 DEF Handed

LEMMA ResultDone ==
    ASSUME list \in EntryLists, report = "done",
           Sources, Stacked, stage = Len(Calls), Len(iters) \in Nat,
           NEW e \in Entry
    PROVE  Result(e) = Handed(e)
  <1>1. PICK up : /\ up[1] = e
                  /\ \A k \in 2..Len(Calls) :
                        up[k] = Through(Calls[k], up[k - 1])
                  /\ Result(e) = up[Len(Calls)]
    BY CallsJoined, ResultThrough DEF Report
  <1>2. /\ e # 0
        /\ list[e].task # 0 => /\ list[e].task \in Entry
                               /\ list[list[e].task].type = "TASK"
                               /\ list[list[e].task].done \in BOOLEAN
    BY EntryFacts
  <1>3. Calls = << Call("list", "none", "none", "full"),
                   Call("period", period.from, "full", "time"),
                   Call("type", "WORK", "time", "work"),
                   Call("task", "none", "work", "task"),
                   Call("done", TRUE, "task", "done"),
                   Call("unique", "none", "done", "dest") >>
    BY DEF Calls
  <1>4. /\ Len(Calls) = 6
        /\ Calls[2] = Call("period", period.from, "full", "time")
        /\ Calls[3] = Call("type", "WORK", "time", "work")
        /\ Calls[4] = Call("task", "none", "work", "task")
        /\ Calls[5] = Call("done", TRUE, "task", "done")
        /\ Calls[6] = Call("unique", "none", "done", "dest")
    BY <1>3
  <1>5. /\ up[2] = Through(Calls[2], up[1]) /\ up[3] = Through(Calls[3], up[2])
        /\ up[4] = Through(Calls[4], up[3]) /\ up[5] = Through(Calls[5], up[4])
        /\ up[6] = Through(Calls[6], up[5]) /\ Result(e) = up[6]
    <2>1. /\ 2 \in 2..Len(Calls) /\ 3 \in 2..Len(Calls) /\ 4 \in 2..Len(Calls)
          /\ 5 \in 2..Len(Calls) /\ 6 \in 2..Len(Calls)
      BY <1>4
    <2>2. up[2] = Through(Calls[2], up[1])
      BY <1>1, <2>1, 2 - 1 = 1
    <2>3. up[3] = Through(Calls[3], up[2])
      BY <1>1, <2>1, 3 - 1 = 2
    <2>4. up[4] = Through(Calls[4], up[3])
      BY <1>1, <2>1, 4 - 1 = 3
    <2>5. up[5] = Through(Calls[5], up[4])
      BY <1>1, <2>1, 5 - 1 = 4
    <2>6. up[6] = Through(Calls[6], up[5])
      BY <1>1, <2>1, 6 - 1 = 5
    <2> QED
      BY <1>1, <1>4, <2>2, <2>3, <2>4, <2>5, <2>6
  <1>6. up[2] = IF Within(e, period.from) THEN e ELSE 0
    BY <1>1, <1>2, <1>4, <1>5, PeriodPasses
  <1>7. up[3] = IF e \in Worked THEN e ELSE 0
    BY <1>2, <1>4, <1>5, <1>6, TypePasses DEF Worked
  <1>8. up[4] = IF e \in Worked THEN list[e].task ELSE 0
    BY <1>2, <1>4, <1>5, <1>7, TaskPasses
  <1>9. up[5] = IF up[4] # 0 /\ list[up[4]].done THEN up[4] ELSE 0
    <2>1. up[4] # 0 => /\ list[up[4]].type = "TASK"
                       /\ list[up[4]].done \in BOOLEAN
      BY <1>2, <1>8
    <2>2. up[5] = Through(Call("done", TRUE, "task", "done"), up[4])
      BY <1>4, <1>5
    <2> QED
      BY <2>1, <2>2, DonePasses
  <1>10. up[6] = IF up[5] # 0 /\ up[5] \notin Elements(returned) THEN up[5]
                 ELSE 0
    <2>1. up[6] = Through(Call("unique", "none", "done", "dest"), up[5])
      BY <1>4, <1>5
    <2> QED
      BY <2>1, UniquePasses
  <1> QED
    BY <1>2, <1>5, <1>8, <1>9, <1>10 DEF Handed

LEMMA ResultIs ==
    ASSUME list \in EntryLists, report \in Report,
           Sources, Stacked, stage = Len(Calls), Len(iters) \in Nat,
           NEW e \in Entry
    PROVE  Result(e) = Handed(e)
  BY ResultWork, ResultOpen, ResultDone DEF Report

----------------------------------------------------------------------------
(***************************************************************************)
(* What is printed.  While the iterators are made nothing is printed;      *)
(* while they are pulled from, what is printed, or put into its groups, is *)
(* what the report is for among the entries before the cursor; and of the  *)
(* groups those are printed whose names come before the ones that are      *)
(* left.                                                                   *)
(***************************************************************************)
Shape == /\ IsSequence(printed)
         /\ pc \in {"build", "pull"} => Stacked
         /\ pc = "build" => /\ printed = <<>> /\ returned = <<>>
                            /\ summed = {} /\ keys = {}
         /\ pc = "pull" => stage = Len(Calls) /\ cursor >= 1

Seen == {e \in Worked : e < cursor}

ToldWork == Elements(printed) = Seen /\ Ascending(printed)

ToldOpen == /\ Elements(printed) = {t \in Entry : /\ list[t].type = "TASK"
                                                  /\ ~list[t].done
                                                  /\ Within(t, 0)
                                                  /\ t < cursor}
            /\ Ascending(printed)

ToldDone == /\ returned = printed
            /\ Elements(printed) =
                  {t \in Entry : /\ list[t].done
                                 /\ \E e \in Seen : list[e].task = t}
            /\ \A i \in 1..Len(printed) :
                  \E e \in Seen : IsFirstWork(e, printed[i])
            /\ \A i, j \in 1..Len(printed) : i < j =>
                  \E e, f \in Worked : /\ IsFirstWork(e, printed[i])
                                       /\ IsFirstWork(f, printed[j])
                                       /\ e < f

InGroup(k) == {e \in Seen : k \in list[e].keys}

SumOf(k) == HoursMinutes(Durance(InGroup(k)))

Sums == /\ summed = Seen
        /\ keys \subseteq Nat
        /\ \A k \in Nat :
              (k \in keys \/ \E i \in 1..Len(printed) : printed[i][1] = k)
              <=> \E e \in Seen : k \in list[e].keys
        /\ \A i \in 1..Len(printed) :
              /\ printed[i][1] \in Nat
              /\ printed[i][2] = SumOf(printed[i][1])
              /\ \A k \in keys : printed[i][1] < k
        /\ \A i, j \in 1..Len(printed) :
              i < j => printed[i][1] < printed[j][1]

ToldSum == /\ Sums
           /\ pc = "pull" => printed = <<>>
           /\ pc = "free" => keys = {}

Told == pc \in {"pull", "sums", "free"} /\ ~failed =>
            /\ pc \in {"sums", "free"} => cursor = Len(list) + 1
            /\ pc = "sums" => report = "sum"
            /\ report = "work" => ToldWork
            /\ report = "open" => ToldOpen
            /\ report = "done" => ToldDone
            /\ report = "sum" => ToldSum

RInv == TypeOK /\ OwnInv /\ Shape /\ Told

\* The facts about the state that every step needs.
LEMMA Basics ==
    RInv => /\ list \in EntryLists
            /\ Len(list) \in Nat /\ Entry = 1..Len(list)
            /\ report \in Report
            /\ Joined /\ Len(Calls) \in Nat
            /\ IsSequence(iters) /\ Len(iters) \in Nat
            /\ Sources
            /\ stage \in 0..Len(Calls)
            /\ local \in [Local -> 0..Len(iters)]
            /\ freed \subseteq 1..Len(iters)
            /\ IsSequence(printed) /\ Len(printed) \in Nat
  <1> SUFFICES ASSUME RInv
               PROVE  /\ list \in EntryLists
                      /\ Len(list) \in Nat /\ Entry = 1..Len(list)
                      /\ report \in Report
                      /\ Joined /\ Len(Calls) \in Nat
                      /\ IsSequence(iters) /\ Len(iters) \in Nat
                      /\ Sources
                      /\ stage \in 0..Len(Calls)
                      /\ local \in [Local -> 0..Len(iters)]
                      /\ freed \subseteq 1..Len(iters)
                      /\ IsSequence(printed) /\ Len(printed) \in Nat
    OBVIOUS
  <1>1. /\ list \in EntryLists /\ report \in Report
        /\ IsSequence(iters) /\ IsSequence(printed)
        /\ Sources
        /\ stage \in 0..Len(Calls)
        /\ local \in [Local -> 0..Len(iters)]
        /\ freed \subseteq 1..Len(iters)
    BY DEF RInv, TypeOK, OwnInv, Types, Shape, Sources
  <1>2. Joined /\ Len(Calls) \in Nat
    BY <1>1, CallsJoined DEF Joined
  <1>3. Len(list) \in Nat /\ Entry = 1..Len(list)
    BY <1>1, EntryFacts
  <1>4. Len(iters) \in Nat /\ Len(printed) \in Nat
    BY <1>1, Appended
  <1> QED
    BY <1>1, <1>2, <1>3, <1>4

LEMMA EmptySequence == IsSequence(<<>>) /\ Len(<<>>) = 0 /\ Elements(<<>>) = {}
  <1>1. <<>> \in Seq({})
    OBVIOUS
  <1>2. Len(<<>>) = 0
    OBVIOUS
  <1> QED
    BY <1>1, <1>2 DEF IsSequence, Elements

\* A report begins with nothing printed.
LEMMA StartShape ==
    ASSUME NEW r \in Report, StartReport(r)
    PROVE  /\ Shape' /\ Told'
           /\ stage' \in 0..Len(Calls') /\ report' \in Report
           /\ cursor' = 0 /\ returned' = <<>> /\ keys' = {} /\ summed' = {}
           /\ local' = [v \in Local |-> 0]
           /\ pc' = "build"
  <1>1. /\ report' = r /\ stage' = 0 /\ cursor' = 0 /\ returned' = <<>>
        /\ keys' = {} /\ summed' = {} /\ printed' = <<>>
        /\ local' = [v \in Local |-> 0] /\ pc' = "build"
    BY DEF StartReport
  <1>2. Len(Calls') \in Nat
    <2>1. (report \in Report => Joined)'
      BY CallsJoined, PTL
    <2> QED
      BY <1>1, <2>1 DEF Joined
  <1>3. Shape'
    BY <1>1, EmptySequence DEF Shape, Stacked
  <1>4. Told'
    BY <1>1 DEF Told
  <1> QED
    BY <1>1, <1>2, <1>3, <1>4

\* A step that leaves the list and the output alone, and is not at a report.
LEMMA TypeKept ==
    ASSUME TypeOK,
           UNCHANGED <<list, period, report, stage, iters, local>>,
           commands' \in Seq({"work", "tasks", "sum", "unknown"}),
           freed' \subseteq 1..Len(iters),
           cursor' \in 0..(Len(list) + 1),
           returned' \in Seq(Entry),
           keys' \subseteq UNION {list[e].keys : e \in Entry},
           summed' \subseteq Entry,
           pc' \in {"command", "build", "pull", "sums", "free", "exit"},
           ret' \in {"OK", "ERR_MEM", "ERR_SYS", "ERR_INPUT"}
    PROVE  TypeOK'
  <1>1. Calls' = Calls /\ Entry' = Entry
    BY DEF Calls, Entry
  <1> QED
    BY <1>1 DEF TypeOK

\* Steps after which no report is running.
LEMMA IdleStep ==
    ASSUME RInv,
           UNCHANGED <<list, period, report, stage, iters, local, output>>,
           commands' \in Seq({"work", "tasks", "sum", "unknown"}),
           freed' \subseteq 1..Len(iters),
           pc' \in {"command", "exit"},
           ret' \in {"OK", "ERR_MEM", "ERR_SYS", "ERR_INPUT"}
    PROVE  TypeOK' /\ Shape' /\ Told'
  <1>1. TypeOK /\ Shape
    BY DEF RInv
  <1>2. /\ cursor' = cursor /\ returned' = returned /\ keys' = keys
        /\ summed' = summed /\ printed' = printed
    BY DEF output
  <1>3. TypeOK'
    BY <1>1, <1>2, TypeKept DEF TypeOK
  <1>4. Shape' /\ Told'
    BY <1>1, <1>2 DEF Shape, Told
  <1> QED
    BY <1>3, <1>4

\* A report is begun.
LEMMA StartStep ==
    ASSUME RInv, NEW r \in Report, StartReport(r),
           UNCHANGED <<list, period, commands, iters, ret>>,
           freed' \subseteq 1..Len(iters)
    PROVE  TypeOK' /\ Shape' /\ Told'
  <1>1. /\ Shape' /\ Told'
        /\ stage' \in 0..Len(Calls') /\ report' \in Report
        /\ cursor' = 0 /\ returned' = <<>> /\ keys' = {} /\ summed' = {}
        /\ local' = [v \in Local |-> 0]
        /\ pc' = "build"
    BY StartShape
  <1>2. Len(iters) \in Nat /\ Len(list) \in Nat /\ TypeOK
    BY Basics DEF RInv
  <1>3. returned' \in Seq(Entry')
    BY <1>1
  <1>4. cursor' \in 0..(Len(list') + 1)
    BY <1>1, <1>2
  <1>5. local' \in [Local -> 0..Len(iters')]
    BY <1>1, <1>2
  <1>6. TypeOK'
    BY <1>1, <1>2, <1>3, <1>4, <1>5 DEF TypeOK
  <1> QED
    BY <1>1, <1>6

LEMMA CommandStep == RInv /\ Command => TypeOK' /\ Shape' /\ Told'
  <1> SUFFICES ASSUME RInv, Command
               PROVE  TypeOK' /\ Shape' /\ Told'
    OBVIOUS
  <1>1. /\ commands # <<>>
        /\ UNCHANGED <<list, period, commands, iters, freed>>
        /\ commands \in Seq({"work", "tasks", "sum", "unknown"})
        /\ freed \subseteq 1..Len(iters)
    BY DEF Command, RInv, TypeOK
  <1>2. CASE commands[1] = "unknown"
    <2>1. UNCHANGED <<report, stage, local, output>> /\ pc' = "exit"
          /\ ret' = "ERR_INPUT"
      BY <1>2 DEF Command
    <2> QED
      BY <1>1, <2>1, IdleStep
  <1>3. CASE commands[1] # "unknown"
    <2> DEFINE r == IF commands[1] = "tasks" THEN "done" ELSE commands[1]
    <2>1. StartReport(r) /\ UNCHANGED ret
      BY <1>3 DEF Command
    <2>2. r \in Report
      <3>1. commands[1] \in {"work", "tasks", "sum", "unknown"}
        BY <1>1
      <3> QED
        BY <1>3, <3>1 DEF Report
    <2> HIDE DEF r
    <2> QED
      BY <1>1, <2>1, <2>2, StartStep
  <1> QED
    BY <1>2, <1>3

LEMMA FreeStep == RInv /\ FreeIters => TypeOK' /\ Shape' /\ Told'
  <1> SUFFICES ASSUME RInv, FreeIters
               PROVE  TypeOK' /\ Shape' /\ Told'
    OBVIOUS
  <1> DEFINE held == {v \in Local : local[v] # 0}
  <1>1. /\ UNCHANGED <<list, period, iters, ret>>
        /\ freed' = freed \union {local[v] : v \in held}
        /\ pc = "free"
    BY DEF FreeIters
  <1>2. TypeOK /\ OwnInv
    BY DEF RInv
  <1>3. freed' \subseteq 1..Len(iters)
    <2>1. /\ local \in [Local -> 0..Len(iters)] /\ freed \subseteq 1..Len(iters)
          /\ Len(iters) \in Nat
      BY Basics
    <2>2. \A v \in held : local[v] \in 1..Len(iters)
      BY <2>1
    <2> QED
      BY <1>1, <2>1, <2>2
  <1>4. /\ commands \in Seq({"work", "tasks", "sum", "unknown"})
        /\ commands # <<>>
        /\ ret \in {"OK", "ERR_MEM", "ERR_SYS", "ERR_INPUT"}
    BY <1>1, <1>2 DEF TypeOK, OwnInv, Running
  <1>5. CASE ret # "OK"
    <2>1. pc' = "exit" /\ UNCHANGED <<commands, report, stage, local, output>>
      BY <1>5 DEF FreeIters
    <2> QED
      BY <1>1, <1>3, <1>4, <2>1, IdleStep
  <1>6. CASE ret = "OK" /\ report = "done"
    <2>1. StartReport("open") /\ UNCHANGED commands
      BY <1>6 DEF FreeIters
    <2>2. "open" \in Report
      BY DEF Report
    <2> QED
      BY <1>1, <1>3, <2>1, <2>2, StartStep
  <1>7. CASE ret = "OK" /\ report # "done"
    <2>1. /\ commands' = Tail(commands) /\ pc' = "command"
          /\ UNCHANGED <<report, stage, local, output>>
      BY <1>7 DEF FreeIters
    <2>2. commands' \in Seq({"work", "tasks", "sum", "unknown"})
      BY <1>4, <2>1
    <2> QED
      BY <1>1, <1>3, <1>4, <2>1, <2>2, IdleStep
  <1> QED
    BY <1>5, <1>6, <1>7

\* The steps that make nothing and print nothing.
LEMMA QuietStep ==
    RInv /\ (NoCommand \/ BuildFails \/ PullFails \/ SumFails)
        => TypeOK' /\ Shape' /\ Told'
  <1> SUFFICES ASSUME RInv, NoCommand \/ BuildFails \/ PullFails \/ SumFails
               PROVE  TypeOK' /\ Shape' /\ Told'
    OBVIOUS
  <1>1. TypeOK /\ Shape
    BY DEF RInv
  <1>2. /\ UNCHANGED <<list, period, commands, report, stage, iters, local>>
        /\ UNCHANGED <<freed, cursor, returned, keys, summed, printed>>
        /\ pc' = "exit" \/ (pc' = "free" /\ failed')
        /\ ret' \in {ret, "ERR_MEM", "ERR_SYS", "OK"}
    BY DEF NoCommand, BuildFails, PullFails, SumFails, heap, output
  <1>3. TypeOK'
    BY <1>1, <1>2, TypeKept DEF TypeOK
  <1>4. Shape' /\ Told'
    BY <1>1, <1>2 DEF Shape, Told
  <1> QED
    BY <1>3, <1>4

\* The iterators of the report are stacked by each step.
LEMMA BuildStep == RInv /\ Build => TypeOK' /\ Shape' /\ Told'
  <1> SUFFICES ASSUME RInv, Build
               PROVE  TypeOK' /\ Shape' /\ Told'
    OBVIOUS
  <1> PICK n : n = Len(iters)
    OBVIOUS
  <1> PICK k : k = stage + 1
    OBVIOUS
  <1>1. /\ list \in EntryLists /\ Joined /\ Len(Calls) \in Nat
        /\ IsSequence(iters) /\ n \in Nat /\ Sources
        /\ stage \in 0..Len(Calls)
        /\ local \in [Local -> 0..n]
        /\ freed \subseteq 1..n
    BY Basics
  <1>2. /\ pc = "build" /\ pc' = "build" /\ stage < Len(Calls)
        /\ stage' = k
        /\ UNCHANGED <<list, period, commands, report, freed, ret, cursor,
                       returned, keys, summed, printed>>
    BY DEF Build, output
  <1>3. Calls' = Calls /\ Entry' = Entry /\ NoPeriod' = NoPeriod
    BY <1>2 DEF Calls, Entry, NoPeriod
  <1>4. /\ k \in 1..Len(Calls) /\ k \in Nat /\ stage \in Nat
        /\ Calls[k].out \in Local
        /\ Calls[k].op = "list" <=> k = 1
        /\ k > 1 => Calls[k].in = Calls[stage].out /\ Calls[stage].out \in Local
    <2>1. k \in 1..Len(Calls) /\ (k > 1 => k \in 2..Len(Calls)
          /\ k - 1 = stage /\ stage \in 1..Len(Calls))
      BY <1>1, <1>2
    <2> QED
      BY <1>1, <2>1 DEF Joined
  <1>5. PICK place : /\ stage > 0 =>
                          /\ place \in [1..stage -> 1..n]
                          /\ \A i \in 1..stage : Stands(place, i)
                          /\ local[Calls[stage].out] = place[stage]
    BY <1>2 DEF RInv, Shape, Stacked
  <1>6. CASE Calls[k].op = "period" /\ NoPeriod
    <2>1. /\ k > 1 /\ stage > 0
          /\ local' = [local EXCEPT ![Calls[k].out] = local[Calls[k].in],
                                    ![Calls[k].in] = 0]
          /\ iters' = iters
      BY <1>4, <1>6 DEF Build, PassThrough
    <2> PICK m : m = place[stage]
      OBVIOUS
    <2> DEFINE longer == [i \in 1..k |-> IF i = k THEN m ELSE place[i]]
    <2>2. longer \in [1..k -> 1..n]
      BY <1>4, <1>5, <2>1
    <2>3. /\ longer[k] = m /\ longer[k - 1] = m
          /\ \A i \in 1..stage : longer[i] = place[i]
      BY <1>4, <2>1
    <2> HIDE DEF longer
    <2>4. ASSUME NEW i \in 1..k
          PROVE  Stands(longer, i)'
      <3>1. CASE i = k
        <4>1. k # 1 /\ Calls'[k].op = "period" /\ NoPeriod'
          BY <1>3, <1>4, <1>6, <2>1
        <4>2. longer[k] = longer[k - 1]
          BY <2>3
        <4> QED
          BY <3>1, <4>1, <4>2 DEF Stands
      <3>2. CASE i # k
        <4>1. i \in 1..stage /\ (i # 1 => i - 1 \in 1..stage)
          BY <1>4, <3>2
        <4>2. Stands(place, i)
          BY <1>5, <2>1, <4>1
        <4>3. longer[i] = place[i] /\ (i # 1 => longer[i - 1] = place[i - 1])
          BY <2>3, <4>1
        <4> QED
          BY <1>3, <2>1, <4>2, <4>3 DEF Stands
      <3> QED
        BY <3>1, <3>2
    <2>5. local'[Calls[k].out] = m
      <3>1. Calls[k].in # Calls[k].out
        BY <1>4, <1>6, CallsApart DEF Apart, RInv, TypeOK
      <3>2. Calls[k].in \in Local /\ local[Calls[k].in] = m
        BY <1>4, <1>5, <2>1
      <3> QED
        BY <1>1, <1>4, <2>1, <3>1, <3>2
    <2>6. Stacked'
      BY <1>2, <1>3, <2>1, <2>2, <2>3, <2>4, <2>5 DEF Stacked
    <2>7. local' \in [Local -> 0..n]
      BY <1>1, <1>4, <2>1
    <2>8. TypeOK'
      <3>1. Sources'
        BY <1>1, <2>1 DEF Sources
      <3>2. freed' \subseteq 1..n /\ Len(iters') = n
        BY <1>1, <1>2, <2>1
      <3> QED
        BY <1>2, <1>3, <1>4, <2>7, <3>1, <3>2 DEF RInv, TypeOK, Sources
    <2> QED
      BY <1>2, <2>6, <2>8 DEF Shape, Told, RInv
  <1>7. CASE ~(Calls[k].op = "period" /\ NoPeriod)
    <2> PICK new : new = [op |-> Calls[k].op, arg |-> Calls[k].arg,
                          source |-> IF Calls[k].op = "list" THEN 0
                                     ELSE local[Calls[k].in]]
      OBVIOUS
    <2>1. /\ iters' = Append(iters, new)
          /\ local' = [local EXCEPT ![Calls[k].out] = n + 1]
      BY <1>7 DEF Build, NewIter
    <2>2. /\ IsSequence(iters') /\ Len(iters') = n + 1
          /\ \A i \in 1..n : iters'[i] = iters[i]
          /\ iters'[n + 1] = new
      BY <1>1, <2>1, Appended, AppendedElements
    <2>3. /\ k > 1 => new = [op |-> Calls[k].op, arg |-> Calls[k].arg,
                             source |-> place[stage]]
          /\ k = 1 => new.op = "list"
          /\ new.source \in 0..n
      <3>1. CASE k = 1
        BY <1>1, <1>4, <3>1
      <3>2. CASE k # 1
        <4>1. stage > 0 /\ k > 1 /\ stage \in 1..stage
          BY <1>4, <3>2
        <4>2. new = [op |-> Calls[k].op, arg |-> Calls[k].arg,
                     source |-> place[stage]]
          BY <1>4, <1>5, <4>1
        <4>3. place[stage] \in 0..n
          BY <1>1, <1>5, <4>1
        <4> QED
          BY <3>2, <4>2, <4>3
      <3> QED
        BY <3>1, <3>2
    <2> DEFINE longer == [i \in 1..k |-> IF i = k THEN n + 1 ELSE place[i]]
    <2>4. longer \in [1..k -> 1..(n + 1)]
      <3>1. ASSUME NEW i \in 1..k
            PROVE  (IF i = k THEN n + 1 ELSE place[i]) \in 1..(n + 1)
        <4>1. i # k => stage > 0 /\ i \in 1..stage
          BY <1>4
        <4> QED
          BY <1>1, <1>5, <4>1
      <3> QED
        BY <3>1
    <2>5. /\ longer[k] = n + 1
          /\ \A i \in 1..stage : longer[i] = place[i]
      BY <1>4
    <2> HIDE DEF longer
    <2>6. ASSUME NEW i \in 1..k
          PROVE  Stands(longer, i)'
      <3>1. CASE i = k /\ k = 1
        BY <2>2, <2>3, <2>5, <3>1 DEF Stands
      <3>2. CASE i = k /\ k # 1
        <4>1. k > 1 /\ k - 1 = stage /\ stage \in 1..stage
          BY <1>4, <3>2
        <4>2. iters'[longer[k]] = [op |-> Calls[k].op, arg |-> Calls[k].arg,
                                   source |-> longer[k - 1]]
          BY <2>2, <2>3, <2>5, <4>1
        <4> QED
          BY <1>3, <1>7, <3>2, <4>2 DEF Stands
      <3>3. CASE i # k
        <4>1. stage > 0 /\ i \in 1..stage /\ (i # 1 => i - 1 \in 1..stage)
          BY <1>4, <3>3
        <4>2. Stands(place, i) /\ place[i] \in 1..n
          BY <1>5, <4>1
        <4>3. iters'[place[i]] = iters[place[i]]
          BY <2>2, <4>2
        <4>4. longer[i] = place[i] /\ (i # 1 => longer[i - 1] = place[i - 1])
          BY <2>5, <4>1
        <4> QED
          BY <1>3, <4>2, <4>3, <4>4 DEF Stands
      <3> QED
        BY <3>1, <3>2, <3>3
    <2>7. local'[Calls[k].out] = longer[k]
      BY <1>1, <1>4, <2>1, <2>5
    <2>8. Stacked'
      BY <1>2, <1>3, <2>2, <2>4, <2>6, <2>7 DEF Stacked
    <2>9. local' \in [Local -> 0..(n + 1)]
      BY <1>1, <1>4, <2>1
    <2>10. TypeOK'
      <3>1. Sources'
        <4>1. \A i \in 1..(n + 1) : i # n + 1 => i \in 1..n
          BY <1>1
        <4> QED
          BY <1>1, <2>2, <2>3, <4>1 DEF Sources
      <3>2. freed' \subseteq 1..(n + 1)
        BY <1>1, <1>2
      <3> QED
        BY <1>2, <1>3, <1>4, <2>2, <2>9, <3>1, <3>2 DEF RInv, TypeOK, Sources
    <2> QED
      BY <1>2, <2>8, <2>10 DEF Shape, Told, RInv
  <1> QED
    BY <1>6, <1>7

----------------------------------------------------------------------------
(* The entries before the cursor. *)

\* No entry lies before the first.
LEMMA BuiltStep == RInv /\ Built => TypeOK' /\ Shape' /\ Told'
  <1> SUFFICES ASSUME RInv, Built
               PROVE  TypeOK' /\ Shape' /\ Told'
    OBVIOUS
  <1>1. /\ pc = "build" /\ pc' = "pull" /\ stage = Len(Calls) /\ cursor' = 1
        /\ UNCHANGED <<list, period, commands, report, stage, iters, freed,
                       local, returned, keys, summed, printed, failed, ret>>
    BY DEF Built, heap
  <1>2. /\ Len(list) \in Nat /\ Entry = 1..Len(list) /\ report \in Report
        /\ list \in EntryLists
    BY Basics
  <1>3. TypeOK /\ Shape
    BY DEF RInv
  <1>4. TypeOK'
    <2>1. 1 \in 0..(Len(list) + 1)
      BY <1>2
    <2> QED
      BY <1>1, <1>3, <2>1, TypeKept DEF TypeOK
  <1>5. Calls' = Calls /\ Entry' = Entry /\ Worked' = Worked
    BY <1>1 DEF Calls, Entry, Worked, Within, NoPeriod, EndOf
  <1>6. Shape'
    <2>1. Stacked'
      BY <1>1, <1>3, <1>5 DEF Shape, Stacked, Stands, NoPeriod
    <2>2. cursor' >= 1
      BY <1>1
    <2> QED
      BY <1>1, <1>3, <1>5, <2>1, <2>2 DEF Shape
  <1>7. /\ printed' = <<>> /\ returned' = <<>> /\ summed' = {} /\ keys' = {}
    BY <1>1, <1>3 DEF Shape
  <1>8. Seen' = {}
    <2>1. \A e \in Worked' : ~(e < cursor')
      BY <1>1, <1>2, <1>5 DEF Worked
    <2> QED
      BY <2>1 DEF Seen
  <1>9. Len(printed') = 0 /\ Elements(printed') = {}
    BY <1>7, EmptySequence
  <1>10. ToldWork'
    BY <1>8, <1>9 DEF ToldWork, Ascending
  <1>11. ToldOpen'
    <2>1. \A t \in Entry' : ~(t < cursor')
      BY <1>1, <1>2, <1>5
    <2> QED
      BY <1>9, <2>1 DEF ToldOpen, Ascending
  <1>12. ToldDone'
    BY <1>7, <1>8, <1>9 DEF ToldDone
  <1>13. ToldSum'
    BY <1>1, <1>7, <1>8, <1>9 DEF ToldSum, Sums
  <1> QED
    BY <1>1, <1>4, <1>6, <1>10, <1>11, <1>12, <1>13 DEF Told

\* What a step that pulls leaves alone, and the entry it looks at.
LEMMA PullFacts ==
    ASSUME RInv, PullSkip \/ Pull
    PROVE  /\ pc = "pull" /\ pc' = "pull"
           /\ UNCHANGED <<list, period, commands, report, stage, iters, freed,
                          local, failed, ret>>
           /\ cursor \in Entry /\ cursor' = cursor + 1 /\ cursor \in Nat
           /\ cursor' \in 0..(Len(list) + 1) /\ cursor' >= 1
           /\ Calls' = Calls /\ Entry' = Entry /\ Worked' = Worked
           /\ Result(cursor) = Handed(cursor)
           /\ Worked \subseteq Entry /\ Entry \subseteq Nat
           /\ stage = Len(Calls) /\ Stacked /\ Stacked'
           /\ Seen' = Seen \union ({cursor} \cap Worked)
  <1>1. /\ pc = "pull" /\ pc' = "pull"
        /\ UNCHANGED <<list, period, commands, report, stage, iters, freed,
                       local, failed, ret>>
        /\ cursor \in Entry /\ cursor' = cursor + 1
    BY DEF PullSkip, Pull, heap
  <1>2. /\ Len(list) \in Nat /\ Entry = 1..Len(list) /\ report \in Report
        /\ list \in EntryLists /\ Sources /\ Len(iters) \in Nat
    BY Basics
  <1>3. Calls' = Calls /\ Entry' = Entry /\ Worked' = Worked
    BY <1>1 DEF Calls, Entry, Worked, Within, NoPeriod, EndOf
  <1>4. Stacked /\ stage = Len(Calls) /\ Stacked'
    BY <1>1, <1>3 DEF RInv, Shape, Stacked, Stands, NoPeriod
  <1>5. Result(cursor) = Handed(cursor)
    BY <1>1, <1>2, <1>4, ResultIs
  <1>6. /\ cursor \in Nat /\ cursor' \in 0..(Len(list) + 1) /\ cursor' >= 1
        /\ Worked \subseteq Entry /\ Entry \subseteq Nat
    BY <1>1, <1>2 DEF Worked
  <1>7. \A e \in Worked : e < cursor + 1 <=> e < cursor \/ e = cursor
    BY <1>6
  <1>8. Seen' = Seen \union ({cursor} \cap Worked)
    BY <1>1, <1>3, <1>7 DEF Seen
  <1> QED
    BY <1>1, <1>3, <1>4, <1>5, <1>6, <1>8

LEMMA PullType == RInv /\ (PullSkip \/ Pull) => TypeOK' /\ Shape'
  <1> SUFFICES ASSUME RInv, PullSkip \/ Pull
               PROVE  TypeOK' /\ Shape'
    OBVIOUS
  <1>1. /\ pc = "pull" /\ pc' = "pull"
        /\ UNCHANGED <<list, period, commands, report, stage, iters, freed,
                       local, failed, ret>>
        /\ cursor \in Entry /\ cursor' \in 0..(Len(list) + 1) /\ cursor' >= 1
        /\ Calls' = Calls /\ stage = Len(Calls) /\ Stacked'
        /\ Result(cursor) = Handed(cursor)
    BY PullFacts
  <1>2. Handed(cursor) # 0 => Handed(cursor) \in Entry
    BY <1>1, EntryFacts DEF Handed, RInv, TypeOK
  <1>3. TypeOK /\ IsSequence(printed)
    BY DEF RInv, Shape
  <1>4. CASE PullSkip
    <2>1. UNCHANGED <<returned, keys, summed, printed>>
      BY <1>4 DEF PullSkip
    <2> QED
      BY <1>1, <1>3, <2>1, TypeKept DEF TypeOK, Shape
  <1>5. CASE Pull
    <2>1. Result(cursor) \in Entry
      <3>1. Result(cursor) # 0
        BY <1>5 DEF Pull
      <3>2. Result(cursor) = Handed(cursor)
        BY <1>1
      <3>3. Handed(cursor) \in Entry
        BY <1>2, <3>1, <3>2
      <3> QED
        BY <3>2, <3>3
    <2>2. returned' \in Seq(Entry)
      <3>1. returned' = returned \/ returned' = Append(returned, Result(cursor))
        BY <1>5 DEF Pull
      <3>2. returned \in Seq(Entry)
        BY <1>3 DEF TypeOK
      <3> PICK r : r = Result(cursor)
        OBVIOUS
      <3>3. Append(returned, r) \in Seq(Entry)
        BY <2>1, <3>2
      <3> QED
        BY <3>1, <3>2, <3>3
    <2>3. summed' \subseteq Entry
      BY <1>3, <1>5, <2>1 DEF Pull, TypeOK
    <2>4. keys' \subseteq UNION {list[e].keys : e \in Entry}
      BY <1>3, <1>5, <2>1 DEF Pull, TypeOK
    <2>5. IsSequence(printed')
      <3>1. printed' = printed \/ printed' = Append(printed, Result(cursor))
        BY <1>5 DEF Pull
      <3> QED
        BY <1>3, <3>1, Appended
    <2>6. TypeOK'
      BY <1>1, <1>3, <2>2, <2>3, <2>4, TypeKept DEF TypeOK
    <2> QED
      BY <1>1, <2>5, <2>6 DEF Shape
  <1> QED
    BY <1>4, <1>5

\* A sequence stays ascending when a greater number is appended.
LEMMA AscendingMore ==
    ASSUME NEW s, IsSequence(s), Ascending(s),
           NEW n, \A m \in Elements(s) : m < n
    PROVE  Ascending(Append(s, n))
  <1> PICK t : t = Append(s, n)
    OBVIOUS
  <1>1. /\ Len(s) \in Nat /\ Len(t) = Len(s) + 1
        /\ \A i \in 1..Len(s) : t[i] = s[i]
        /\ t[Len(s) + 1] = n
    BY Appended, AppendedElements
  <1>2. ASSUME NEW i \in 1..Len(t), NEW j \in 1..Len(t), i < j
        PROVE  t[i] < t[j]
    <2>1. i \in 1..Len(s)
      BY <1>1, <1>2
    <2>2. CASE j = Len(s) + 1
      <3>1. s[i] \in Elements(s)
        BY <2>1 DEF Elements
      <3> QED
        BY <1>1, <2>1, <2>2, <3>1
    <2>3. CASE j # Len(s) + 1
      <3>1. j \in 1..Len(s)
        BY <1>1, <2>3
      <3> QED
        BY <1>1, <1>2, <2>1, <3>1 DEF Ascending
    <2> QED
      BY <2>2, <2>3
  <1> QED
    BY <1>2 DEF Ascending

LEMMA PullWork ==
    ASSUME RInv, PullSkip \/ Pull, report = "work", ToldWork
    PROVE  ToldWork'
  <1>1. /\ cursor \in Entry /\ cursor \in Nat
        /\ Result(cursor) = Handed(cursor)
        /\ Seen' = Seen \union ({cursor} \cap Worked)
    BY PullFacts
  <1>2. Handed(cursor) = IF cursor \in Worked THEN cursor ELSE 0
    BY DEF Handed
  <1>3. cursor # 0 /\ IsSequence(printed)
    BY <1>1, EntryFacts DEF RInv, TypeOK, Shape
  <1>4. CASE PullSkip
    <2>1. printed' = printed /\ Seen' = Seen
      BY <1>1, <1>2, <1>3, <1>4 DEF PullSkip
    <2> QED
      BY <2>1 DEF ToldWork
  <1>5. CASE Pull
    <2>1. cursor \in Worked /\ printed' = Append(printed, cursor)
      BY <1>1, <1>2, <1>3, <1>5 DEF Pull
    <2>2. Elements(printed') = Seen'
      BY <1>1, <1>3, <2>1, AppendedElements DEF ToldWork
    <2>3. Ascending(printed')
      <3>1. \A m \in Elements(printed) : m < cursor
        BY DEF ToldWork, Seen
      <3> QED
        BY <1>3, <2>1, <3>1, AscendingMore DEF ToldWork
    <2> QED
      BY <2>2, <2>3 DEF ToldWork
  <1> QED
    BY <1>4, <1>5

LEMMA PullOpen ==
    ASSUME RInv, PullSkip \/ Pull, report = "open", ToldOpen
    PROVE  ToldOpen'
  <1>1. /\ cursor \in Entry /\ cursor \in Nat /\ cursor' = cursor + 1
        /\ Entry \subseteq Nat /\ Entry' = Entry
        /\ list' = list /\ period' = period
        /\ Result(cursor) = Handed(cursor)
    BY PullFacts
  <1> DEFINE Open(t) == /\ list[t].type = "TASK"
                        /\ ~list[t].done
                        /\ Within(t, 0)
  <1>2. Handed(cursor) = IF Open(cursor) THEN cursor ELSE 0
    BY DEF Handed
  <1>3. cursor # 0 /\ IsSequence(printed)
    BY <1>1, EntryFacts DEF RInv, TypeOK, Shape
  <1>4. Elements(printed) = {t \in Entry : Open(t) /\ t < cursor}
        /\ Ascending(printed)
    BY DEF ToldOpen
  <1>5. ToldOpen' <=> /\ Elements(printed') =
                            {t \in Entry : Open(t) /\ t < cursor'}
                      /\ Ascending(printed')
    BY <1>1 DEF ToldOpen, Within, NoPeriod, EndOf
  <1> HIDE DEF Open
  <1>6. \A t \in Entry : t < cursor' <=> t < cursor \/ t = cursor
    BY <1>1
  <1>7. CASE PullSkip
    <2>1. printed' = printed /\ ~Open(cursor)
      BY <1>1, <1>2, <1>3, <1>7 DEF PullSkip
    <2>2. {t \in Entry : Open(t) /\ t < cursor'} =
             {t \in Entry : Open(t) /\ t < cursor}
      BY <1>6, <2>1
    <2> QED
      BY <1>4, <1>5, <2>1, <2>2
  <1>8. CASE Pull
    <2>1. Open(cursor) /\ printed' = Append(printed, cursor)
      BY <1>1, <1>2, <1>3, <1>8 DEF Pull
    <2>2. Elements(printed') = Elements(printed) \union {cursor}
      BY <1>3, <2>1, AppendedElements
    <2>3. {t \in Entry : Open(t) /\ t < cursor'} =
             {t \in Entry : Open(t) /\ t < cursor} \union {cursor}
      BY <1>1, <1>6, <2>1
    <2>4. Ascending(printed')
      <3>1. \A m \in Elements(printed) : m < cursor
        BY <1>4
      <3> QED
        BY <1>3, <1>4, <2>1, <3>1, AscendingMore
    <2> QED
      BY <1>4, <1>5, <2>2, <2>3, <2>4
  <1> QED
    BY <1>7, <1>8

\* The first work entry of the period that is linked to a task takes it up.
LEMMA PullDone ==
    ASSUME RInv, PullSkip \/ Pull, report = "done", ToldDone
    PROVE  ToldDone'
  <1> PICK t : t = list[cursor].task
    OBVIOUS
  <1> PICK now : now = Seen
    OBVIOUS
  <1> PICK next : next = Seen'
    OBVIOUS
  <1>1. /\ cursor \in Entry /\ cursor \in Nat
        /\ list' = list /\ Worked' = Worked /\ Entry' = Entry
        /\ Result(cursor) = Handed(cursor)
        /\ Worked \subseteq Entry /\ Entry \subseteq Nat
        /\ next = now \union ({cursor} \cap Worked)
    BY PullFacts
  <1>2. /\ t # 0 => t \in Entry
        /\ \A u \in Entry : u # 0 /\ list[u].done \in BOOLEAN
        /\ IsSequence(printed)
    BY <1>1, EntryFacts DEF RInv, TypeOK, Shape
  <1>3. Handed(cursor) = IF /\ cursor \in Worked
                            /\ t # 0 /\ list[t].done
                            /\ t \notin Elements(returned)
                         THEN t ELSE 0
    BY DEF Handed
  <1> DEFINE Due(S, u) == list[u].done /\ \E e \in S : list[e].task = u
  <1>4. /\ returned = printed
        /\ Elements(printed) = {u \in Entry : Due(now, u)}
        /\ \A i \in 1..Len(printed) : \E e \in now : IsFirstWork(e, printed[i])
        /\ \A i, j \in 1..Len(printed) : i < j =>
              \E e, f \in Worked : /\ IsFirstWork(e, printed[i])
                                   /\ IsFirstWork(f, printed[j])
                                   /\ e < f
    BY DEF ToldDone
  <1>5. ASSUME returned' = printed',
               Elements(printed') = {u \in Entry : Due(next, u)},
               \A i \in 1..Len(printed') :
                  \E e \in next : IsFirstWork(e, printed'[i]),
               \A i, j \in 1..Len(printed') : i < j =>
                  \E e, f \in Worked : /\ IsFirstWork(e, printed'[i])
                                       /\ IsFirstWork(f, printed'[j])
                                       /\ e < f
        PROVE  ToldDone'
    BY <1>1, <1>5 DEF ToldDone, IsFirstWork
  <1>6. \A u : Due(next, u) <=> \/ Due(now, u)
                                \/ cursor \in Worked /\ u = t /\ list[u].done
    <2> TAKE u
    <2>1. \A e : e \in next <=> e \in now \/ (e = cursor /\ cursor \in Worked)
      BY <1>1
    <2> QED
      BY <2>1
  <1> HIDE DEF Due
  <1>7. CASE PullSkip
    <2>1. printed' = printed /\ returned' = returned /\ Handed(cursor) = 0
      BY <1>1, <1>7 DEF PullSkip
    <2>2. ASSUME NEW u \in Entry
          PROVE  Due(next, u) <=> Due(now, u)
      <3>1. ASSUME cursor \in Worked, u = t, list[u].done
            PROVE  Due(now, u)
        <4>1. u \in Elements(printed)
          BY <1>2, <1>3, <1>4, <2>1, <3>1
        <4> QED
          BY <1>4, <4>1
      <3> QED
        BY <1>6, <3>1
    <2>3. {u \in Entry : Due(next, u)} = {u \in Entry : Due(now, u)}
      BY <2>2
    <2>4. \A i \in 1..Len(printed) : \E e \in next : IsFirstWork(e, printed[i])
      BY <1>1, <1>4
    <2> QED
      BY <1>4, <1>5, <2>1, <2>3, <2>4
  <1>8. CASE Pull
    <2>1. Result(cursor) # 0
      BY <1>8 DEF Pull
    <2>2. /\ cursor \in Worked /\ t \in Entry /\ list[t].done
          /\ t \notin Elements(printed) /\ Result(cursor) = t
      BY <1>1, <1>2, <1>3, <1>4, <2>1
    <2> PICK n : n = Len(printed)
      OBVIOUS
    <2> PICK longer : longer = printed'
      OBVIOUS
    <2>3. longer = Append(printed, t) /\ returned' = longer
      BY <1>4, <1>8, <2>2 DEF Pull
    <2>4. /\ n \in Nat /\ Len(longer) = n + 1
          /\ \A i \in 1..n : longer[i] = printed[i]
          /\ longer[n + 1] = t
          /\ Elements(longer) = Elements(printed) \union {t}
      BY <1>2, <2>3, Appended, AppendedElements
    <2>5. Elements(longer) = {u \in Entry : Due(next, u)}
      <3>1. \A u \in Entry : Due(next, u) <=> Due(now, u) \/ u = t
        BY <1>6, <2>2
      <3> QED
        BY <1>4, <2>2, <2>4, <3>1
    <2>6. IsFirstWork(cursor, t)
      <3>1. ASSUME NEW f \in Worked, list[f].task = t
            PROVE  cursor <= f
        <4>1. ASSUME f < cursor
              PROVE  FALSE
          <5>1. f \in now
            BY <4>1 DEF Seen
          <5>2. Due(now, t)
            BY <2>2, <3>1, <5>1 DEF Due
          <5> QED
            BY <1>4, <2>2, <5>2
        <4> QED
          BY <1>1, <4>1
      <3> QED
        BY <2>2, <3>1 DEF IsFirstWork
    <2>7. ASSUME NEW i \in 1..n
          PROVE  \E e \in now : IsFirstWork(e, longer[i])
      BY <1>4, <2>4
    <2>8. ASSUME NEW i \in 1..(n + 1)
          PROVE  \E e \in next : IsFirstWork(e, longer[i])
      <3>1. CASE i = n + 1
        BY <1>1, <2>2, <2>4, <2>6, <3>1
      <3>2. CASE i # n + 1
        <4>1. i \in 1..n
          BY <2>4, <3>2
        <4> QED
          BY <1>1, <2>7, <4>1
      <3> QED
        BY <3>1, <3>2
    <2>9. ASSUME NEW i \in 1..(n + 1), NEW j \in 1..(n + 1), i < j
          PROVE  \E e, f \in Worked : /\ IsFirstWork(e, longer[i])
                                      /\ IsFirstWork(f, longer[j])
                                      /\ e < f
      <3>1. i \in 1..n
        BY <2>4, <2>9
      <3>2. CASE j = n + 1
        <4>1. PICK e \in now : IsFirstWork(e, longer[i])
          BY <2>7, <3>1
        <4>2. e \in Worked /\ e < cursor
          BY <4>1 DEF Seen
        <4> QED
          BY <2>2, <2>4, <2>6, <3>2, <4>1, <4>2
      <3>3. CASE j # n + 1
        <4>1. j \in 1..n
          BY <2>4, <3>3
        <4> QED
          BY <1>4, <2>4, <2>9, <3>1, <4>1
      <3> QED
        BY <3>2, <3>3
    <2> QED
      BY <1>5, <2>3, <2>4, <2>5, <2>8, <2>9
  <1> QED
    BY <1>7, <1>8

LEMMA PullSum ==
    ASSUME RInv, PullSkip \/ Pull, report = "sum", ToldSum
    PROVE  ToldSum'
  <1>1. /\ pc = "pull" /\ pc' = "pull" /\ cursor \in Entry
        /\ list' = list
        /\ Result(cursor) = Handed(cursor)
        /\ Seen' = Seen \union ({cursor} \cap Worked)
    BY PullFacts
  <1>2. Handed(cursor) = IF cursor \in Worked THEN cursor ELSE 0
    BY DEF Handed
  <1>3. cursor # 0 /\ list[cursor].keys \subseteq Nat
    BY <1>1, EntryFacts DEF RInv, TypeOK
  <1>4. /\ summed = Seen /\ printed = <<>> /\ keys \subseteq Nat
        /\ \A k \in Nat :
              (k \in keys \/ \E i \in 1..Len(printed) : printed[i][1] = k)
              <=> \E e \in Seen : k \in list[e].keys
    BY <1>1 DEF ToldSum, Sums
  <1>5. Len(printed) = 0 /\ 1..0 = {}
    BY <1>4
  <1>6. \A k \in Nat : k \in keys <=> \E e \in Seen : k \in list[e].keys
    BY <1>4, <1>5
  <1>7. printed' = printed
    BY <1>1 DEF PullSkip, Pull
  <1>8. /\ summed' = Seen' /\ keys' \subseteq Nat
        /\ \A k \in Nat : k \in keys' <=> \E e \in Seen' : k \in list[e].keys
    <2>1. CASE PullSkip
      BY <1>1, <1>2, <1>3, <1>4, <1>6, <2>1 DEF PullSkip
    <2>2. CASE Pull
      <3>1. Result(cursor) # 0
        BY <2>2 DEF Pull
      <3>2. cursor \in Worked /\ Result(cursor) = cursor
        BY <1>1, <1>2, <3>1
      <3>3. /\ summed' = summed \union {cursor}
            /\ keys' = keys \union list[cursor].keys
        BY <2>2, <3>2 DEF Pull
      <3>4. Seen' = Seen \union {cursor}
        BY <1>1, <3>2
      <3> QED
        BY <1>3, <1>4, <1>6, <3>3, <3>4
    <2> QED
      BY <2>1, <2>2
  <1>9. Len(printed') = 0
    BY <1>5, <1>7
  <1> QED
    BY <1>1, <1>4, <1>5, <1>7, <1>8, <1>9 DEF ToldSum, Sums

LEMMA PullStep == RInv /\ (PullSkip \/ Pull) => TypeOK' /\ Shape' /\ Told'
  <1> SUFFICES ASSUME RInv, PullSkip \/ Pull
               PROVE  TypeOK' /\ Shape' /\ Told'
    OBVIOUS
  <1>1. /\ pc = "pull" /\ pc' = "pull"
        /\ UNCHANGED <<report, failed>>
    BY PullFacts
  <1>2. ~failed => /\ report = "work" => ToldWork
                   /\ report = "open" => ToldOpen
                   /\ report = "done" => ToldDone
                   /\ report = "sum" => ToldSum
    BY <1>1 DEF RInv, Told
  <1>3. Told'
    BY <1>1, <1>2, PullWork, PullOpen, PullDone, PullSum DEF Told
  <1> QED
    BY <1>3, PullType

----------------------------------------------------------------------------
(* The end of the list, and the groups. *)

LEMMA SumOfKept ==
    ASSUME UNCHANGED <<list, period, cursor>>
    PROVE  Seen' = Seen /\ \A k : SumOf(k)' = SumOf(k)
  <1>1. Seen' = Seen
    BY DEF Seen, Worked, Entry, Within, NoPeriod, EndOf
  <1>2. ASSUME NEW k
        PROVE  SumOf(k)' = SumOf(k)
    <2>1. InGroup(k)' = InGroup(k)
      BY <1>1 DEF InGroup
    <2>2. ASSUME NEW S
          PROVE  Durance(S)' = Durance(S)
      BY DEF Durance
    <2> QED
      BY <2>1, <2>2 DEF SumOf, HoursMinutes, Durance
  <1> QED
    BY <1>1, <1>2

\* A step that leaves alone what the report is about.
LEMMA ToldKept ==
    ASSUME UNCHANGED <<list, period, cursor, returned, keys, summed, printed>>
    PROVE  /\ ToldWork => ToldWork'
           /\ ToldOpen => ToldOpen'
           /\ ToldDone => ToldDone'
           /\ Sums => Sums'
  <1>1. Seen' = Seen /\ Entry' = Entry /\ Worked' = Worked
    BY SumOfKept DEF Entry, Worked, Within, NoPeriod, EndOf
  <1>2. ToldWork => ToldWork'
    BY <1>1 DEF ToldWork
  <1>3. ToldOpen => ToldOpen'
    BY <1>1 DEF ToldOpen, Within, NoPeriod, EndOf
  <1>4. ToldDone => ToldDone'
    BY <1>1 DEF ToldDone, IsFirstWork
  <1>5. Sums => Sums'
    BY <1>1, SumOfKept DEF Sums
  <1> QED
    BY <1>2, <1>3, <1>4, <1>5

LEMMA EndStep == RInv /\ (PullEnd \/ SumEnd) => TypeOK' /\ Shape' /\ Told'
  <1> SUFFICES ASSUME RInv, PullEnd \/ SumEnd
               PROVE  TypeOK' /\ Shape' /\ Told'
    OBVIOUS
  <1>1. /\ pc \in {"pull", "sums"} /\ pc' \in {"sums", "free"}
        /\ UNCHANGED <<list, period, commands, report, stage, iters, freed,
                       local, cursor, returned, keys, summed, printed, failed,
                       ret>>
    BY DEF PullEnd, SumEnd, heap, output
  <1>2. TypeOK /\ Shape
    BY DEF RInv
  <1>3. TypeOK'
    BY <1>1, <1>2, TypeKept DEF TypeOK
  <1>4. Shape'
    BY <1>1, <1>2 DEF Shape
  <1>5. ASSUME ~failed
        PROVE  /\ cursor = Len(list) + 1
               /\ pc' = "sums" => report = "sum"
               /\ report = "work" => ToldWork
               /\ report = "open" => ToldOpen
               /\ report = "done" => ToldDone
               /\ report = "sum" => Sums /\ (pc' = "free" => keys = {})
    <2>1. /\ report = "work" => ToldWork
          /\ report = "open" => ToldOpen
          /\ report = "done" => ToldDone
          /\ report = "sum" => ToldSum
          /\ pc = "sums" => cursor = Len(list) + 1 /\ report = "sum"
      BY <1>1, <1>5 DEF RInv, Told
    <2>2. CASE PullEnd
      <3>1. pc = "pull" /\ cursor >= 1 /\ cursor \notin Entry
        BY <1>2, <2>2 DEF PullEnd, Shape
      <3>2. /\ Len(list) \in Nat /\ Entry = 1..Len(list)
            /\ cursor \in 0..(Len(list) + 1)
        BY Basics, <1>2 DEF TypeOK
      <3>3. cursor = Len(list) + 1
        BY <3>1, <3>2
      <3> QED
        BY <2>1, <2>2, <3>3 DEF PullEnd, ToldSum
    <2>3. CASE SumEnd
      BY <2>1, <2>3 DEF SumEnd, ToldSum
    <2> QED
      BY <2>2, <2>3
  <1>6. Told'
    <2> SUFFICES ASSUME ~failed
                 PROVE  Told'
      BY <1>1 DEF Told
    <2> QED
      BY <1>1, <1>5, ToldKept DEF Told, ToldSum
  <1> QED
    BY <1>3, <1>4, <1>6

\* The group that comes next is the least one that is left.
LEMMA SumTold ==
    ASSUME RInv, Sum, Sums
    PROVE  Sums'
  <1> PICK n : n = Len(printed)
    OBVIOUS
  <1> PICK longer : longer = printed'
    OBVIOUS
  <1> PICK left : left = keys'
    OBVIOUS
  <1>1. PICK k \in keys :
            /\ \A other \in keys : k <= other
            /\ longer = Append(printed,
                  <<k, HoursMinutes(Durance({e \in summed :
                                                k \in list[e].keys}))>>)
            /\ left = keys \ {k}
    BY DEF Sum, IsNextKey
  <1>2. /\ UNCHANGED <<list, period, cursor>> /\ summed' = summed
        /\ IsSequence(printed) /\ n \in Nat
    BY Basics DEF Sum
  <1>3. /\ summed = Seen
        /\ keys \subseteq Nat
        /\ \A m \in Nat :
              (m \in keys \/ \E i \in 1..n : printed[i][1] = m)
              <=> \E e \in Seen : m \in list[e].keys
        /\ \A i \in 1..n :
              /\ printed[i][1] \in Nat
              /\ printed[i][2] = SumOf(printed[i][1])
              /\ \A m \in keys : printed[i][1] < m
        /\ \A i, j \in 1..n : i < j => printed[i][1] < printed[j][1]
    BY DEF Sums
  <1>4. {e \in summed : k \in list[e].keys} = InGroup(k)
    BY <1>3 DEF InGroup
  <1>5. longer = Append(printed, <<k, SumOf(k)>>)
    BY <1>1, <1>4 DEF SumOf
  <1>6. /\ Len(longer) = n + 1
        /\ \A i \in 1..n : longer[i] = printed[i]
        /\ longer[n + 1] = <<k, SumOf(k)>>
    BY <1>2, <1>5, Appended, AppendedElements
  <1>7. /\ longer[n + 1][1] = k /\ longer[n + 1][2] = SumOf(k) /\ k \in Nat
        /\ \A i \in 1..(n + 1) : i \in 1..n \/ i = n + 1
        /\ \A i \in 1..n : i \in 1..(n + 1)
        /\ n + 1 \in 1..(n + 1)
    BY <1>2, <1>3, <1>6
  <1>8. \A m \in left : k < m /\ m \in keys
    BY <1>1, <1>3
  <1>9. ASSUME NEW m \in Nat
        PROVE  (m \in left \/ \E i \in 1..(n + 1) : longer[i][1] = m)
               <=> \E e \in Seen : m \in list[e].keys
    <2>1. (\E i \in 1..(n + 1) : longer[i][1] = m)
             <=> m = k \/ \E i \in 1..n : printed[i][1] = m
      BY <1>6, <1>7
    <2>2. m \in keys <=> m \in left \/ m = k
      BY <1>1
    <2> QED
      BY <1>3, <2>1, <2>2
  <1>10. ASSUME NEW i \in 1..(n + 1)
         PROVE  /\ longer[i][1] \in Nat
                /\ longer[i][2] = SumOf(longer[i][1])
                /\ \A m \in left : longer[i][1] < m
    <2>1. CASE i = n + 1
      BY <1>7, <1>8, <2>1
    <2>2. CASE i # n + 1
      <3>1. i \in 1..n /\ longer[i] = printed[i]
        BY <1>6, <1>7, <2>2
      <3> QED
        BY <1>3, <1>8, <3>1
    <2> QED
      BY <2>1, <2>2
  <1>11. ASSUME NEW i \in 1..(n + 1), NEW j \in 1..(n + 1), i < j
         PROVE  longer[i][1] < longer[j][1]
    <2>1. i \in 1..n /\ longer[i] = printed[i]
      BY <1>2, <1>6, <1>7, <1>11
    <2>2. CASE j = n + 1
      BY <1>3, <1>7, <2>1, <2>2
    <2>3. CASE j # n + 1
      <3>1. j \in 1..n /\ longer[j] = printed[j]
        BY <1>6, <1>7, <2>3
      <3> QED
        BY <1>3, <1>11, <2>1, <3>1
    <2> QED
      BY <2>2, <2>3
  <1>12. Seen' = Seen /\ \A m : SumOf(m)' = SumOf(m)
    BY <1>2, SumOfKept
  <1>13. left \subseteq Nat
    BY <1>1, <1>3
  <1> QED
    BY <1>2, <1>3, <1>6, <1>9, <1>10, <1>11, <1>12, <1>13 DEF Sums

LEMMA SumStep == RInv /\ Sum => TypeOK' /\ Shape' /\ Told'
  <1> SUFFICES ASSUME RInv, Sum
               PROVE  TypeOK' /\ Shape' /\ Told'
    OBVIOUS
  <1> PICK n : n = Len(iters)
    OBVIOUS
  <1>1. /\ pc = "sums" /\ pc' = "sums"
        /\ UNCHANGED <<list, period, commands, report, stage, local, cursor,
                       returned, summed, failed, ret>>
        /\ iters' = Append(iters, [op |-> "list", arg |-> "none", source |-> 0])
        /\ freed' = freed \union {n + 1}
        /\ keys' \subseteq keys
    BY DEF Sum
  <1>2. TypeOK /\ Shape
    BY DEF RInv
  <1>3. /\ IsSequence(iters) /\ n \in Nat /\ Sources
        /\ local \in [Local -> 0..n] /\ freed \subseteq 1..n
        /\ IsSequence(printed)
    BY Basics
  <1>4. Calls' = Calls /\ Entry' = Entry
    BY <1>1 DEF Calls, Entry
  <1>5. /\ Len(iters') = n + 1
        /\ \A i \in 1..n : iters'[i] = iters[i]
        /\ iters'[n + 1].source = 0
    BY <1>1, <1>3, Appended, AppendedElements
  <1>6. \A i \in 1..(n + 1) : iters'[i].source \in 0..(i - 1)
    <2>1. \A i \in 1..(n + 1) : i # n + 1 => i \in 1..n
      BY <1>3
    <2> QED
      BY <1>3, <1>5, <2>1 DEF Sources
  <1>7. freed' \subseteq 1..(n + 1) /\ local \in [Local -> 0..(n + 1)]
    <2>1. 1..(n + 1) = 1..n \union {n + 1} /\ 0..n \subseteq 0..(n + 1)
      BY <1>3
    <2> QED
      BY <1>1, <1>3, <2>1
  <1>8. TypeOK'
    BY <1>1, <1>2, <1>4, <1>5, <1>6, <1>7 DEF TypeOK
  <1>9. Shape'
    <2>1. IsSequence(printed')
      <3>1. PICK p : printed' = Append(printed, p)
        BY DEF Sum
      <3> QED
        BY <1>3, <3>1, Appended
    <2> QED
      BY <1>1, <2>1 DEF Shape
  <1>10. Told'
    <2> SUFFICES ASSUME ~failed
                 PROVE  Told'
      BY <1>1 DEF Told
    <2>1. cursor = Len(list) + 1 /\ report = "sum" /\ Sums
      BY <1>1 DEF RInv, Told, ToldSum
    <2>2. Sums'
      BY <2>1, SumTold
    <2> QED
      BY <1>1, <2>1, <2>2 DEF Told, ToldSum
  <1> QED
    BY <1>8, <1>9, <1>10

----------------------------------------------------------------------------
LEMMA TypeNext == RInv /\ Next => RInv'
  <1> SUFFICES ASSUME RInv, Next
               PROVE  RInv'
    OBVIOUS
  <1>1. OwnInv'
    BY OwnNextInv DEF RInv
  <1>2. TypeOK' /\ Shape' /\ Told'
    BY CommandStep, FreeStep, QuietStep, BuildStep, BuiltStep, PullStep,
       EndStep, SumStep DEF Next, Construct, Output
  <1> QED
    BY <1>1, <1>2 DEF RInv

\* What another step must leave alone.
LEMMA ReportStutter ==
    RInv /\ UNCHANGED vars => RInv'
  <1> SUFFICES ASSUME RInv, UNCHANGED vars
               PROVE  RInv'
    OBVIOUS
  <1>1. /\ UNCHANGED <<list, period, commands, report, stage, iters, freed,
                       local, cursor, returned, keys, summed, printed, failed,
                       pc, ret>>
        /\ UNCHANGED <<heap>>
    BY DEF vars, heap, output
  <1>2. OwnInv'
    BY <1>1, OwnStutterInv DEF RInv
  <1>3. TypeOK'
    BY <1>1, TypeKept DEF RInv, TypeOK
  <1>4. Shape'
    <2>1. Calls' = Calls /\ NoPeriod' = NoPeriod
      BY <1>1 DEF Calls, NoPeriod
    <2> QED
      BY <1>1, <2>1 DEF RInv, Shape, Stacked, Stands
  <1>5. Told'
    BY <1>1, ToldKept DEF RInv, Told, ToldSum
  <1> QED
    BY <1>2, <1>3, <1>4, <1>5 DEF RInv

LEMMA ReportInit == Init => RInv
  <1> SUFFICES ASSUME Init
               PROVE  RInv
    OBVIOUS
  <1>1. /\ list \in EntryLists /\ report = "work" /\ stage = 0 /\ iters = <<>>
        /\ freed = {} /\ cursor = 0 /\ returned = <<>> /\ keys = {}
        /\ summed = {} /\ printed = <<>> /\ pc = "command" /\ ret = "OK"
        /\ local = [v \in Local |-> 0] /\ period \in [from : Int, to : Int]
        /\ commands \in Commands
    BY DEF Init
  <1>2. commands \in Seq({"work", "tasks", "sum", "unknown"})
    BY <1>1, CommandsAssumption
  <1>3. report \in Report
    BY <1>1 DEF Report
  <1>4. Len(Calls) \in Nat /\ Len(list) \in Nat /\ Len(iters) = 0
    BY <1>1, <1>3, CallsApart, EntryFacts DEF Apart
  <1>5. TypeOK
    BY <1>1, <1>2, <1>3, <1>4 DEF TypeOK
  <1>6. Shape /\ Told
    BY <1>1, EmptySequence DEF Shape, Told
  <1> QED
    BY <1>5, <1>6, OwnInitInv DEF RInv

----------------------------------------------------------------------------
\* The hours and minutes that are written make up the whole minutes.
LEMMA WrittenMinutes ==
    ASSUME NEW d \in Int
    PROVE  60 * D!Written("H", d) + D!Written("m", d) = D!Quot(d, 60)
  <1> PICK s : s = D!Secs(d)
    OBVIOUS
  <1> PICK m : m = D!Mins(d)
    OBVIOUS
  <1> PICK h : h = D!Hours(d)
    OBVIOUS
  <1> PICK k : k = D!Days(d)
    OBVIOUS
  <1> PICK q : q = D!Quot(d, 60)
    OBVIOUS
  <1>1. /\ d = s + 60 * m + 3600 * h + 86400 * k
        /\ s \in Int /\ m \in Int /\ h \in Int /\ k \in Int
    <2>1. /\ d = s + 60 * m + 3600 * h + 86400 * k
          /\ s \in -59..59 /\ m \in -59..59 /\ h \in -23..23 /\ k \in Int
      BY SplitExact
    <2> QED
      BY <2>1
  <1>2. q \in Int /\ d = 60 * q + s
    BY QuotRem60 DEF D!Secs
  <1>3. q = m + 60 * h + 1440 * k
    <2>1. m + 60 * h + 1440 * k \in Int
      BY <1>1
    <2>2. 60 * q = 60 * (m + 60 * h + 1440 * k)
      BY <1>1, <1>2
    <2> QED
      BY <1>2, <2>1, <2>2, Exact60
  <1>4. D!Written("H", d) = h + k * 24 /\ D!Written("m", d) = m
    BY DEF D!Written
  <1> QED
    BY <1>1, <1>3, <1>4

\* The durance of the entries up to the e-th.
Upto(f, S, e) == IF e = 0 THEN 0
                 ELSE f[e - 1] + IF e \in S
                                 THEN list[e].end - list[e].begin ELSE 0

LEMMA DuranceInt ==
    ASSUME list \in EntryLists, NEW S
    PROVE  Durance(S) \in Int
  <1> PICK len : len = Len(list)
    OBVIOUS
  <1>1. len \in Nat /\ \A e \in 1..len : list[e].end - list[e].begin \in Int
    BY EntryFacts
  <1> DEFINE Has(n) == \E f \in [0..n -> Int] :
                          f = [e \in 0..n |-> Upto(f, S, e)]
             N == {n \in Nat : n <= len => Has(n)}
  <1>2. 0 \in N
    <2> DEFINE f == [e \in 0..0 |-> 0]
    <2>1. f \in [0..0 -> Int] /\ f = [e \in 0..0 |-> Upto(f, S, e)]
      BY DEF Upto
    <2> QED
      BY <2>1
  <1>3. ASSUME NEW n \in N
        PROVE  n + 1 \in N
    <2> SUFFICES ASSUME n + 1 <= len
                 PROVE  Has(n + 1)
      OBVIOUS
    <2>1. PICK f \in [0..n -> Int] : f = [e \in 0..n |-> Upto(f, S, e)]
      OBVIOUS
    <2>2. Upto(f, S, n + 1) \in Int
      <3>1. n + 1 # 0 /\ (n + 1) - 1 = n /\ f[n] \in Int /\ n + 1 \in 1..len
        BY <1>1
      <3> QED
        BY <1>1, <3>1 DEF Upto
    <2> DEFINE g == [e \in 0..(n + 1) |-> IF e <= n THEN f[e]
                                          ELSE Upto(f, S, n + 1)]
    <2>3. g \in [0..(n + 1) -> Int]
      <3>1. \A e \in 0..(n + 1) : e <= n => f[e] \in Int
        OBVIOUS
      <3> QED
        BY <2>2, <3>1
    <2>4. ASSUME NEW e \in 0..(n + 1)
          PROVE  g[e] = Upto(g, S, e)
      <3>1. \A i \in 0..n : g[i] = f[i]
        OBVIOUS
      <3>2. e # 0 => e - 1 \in 0..n
        OBVIOUS
      <3>3. Upto(g, S, e) = Upto(f, S, e)
        <4> HIDE DEF g
        <4> QED
          BY <3>1, <3>2 DEF Upto
      <3>4. g[e] = Upto(f, S, e)
        <4>1. CASE e <= n
          <5>1. e \in 0..n
            BY <4>1
          <5> HIDE DEF g
          <5> QED
            BY <2>1, <3>1, <5>1
        <4>2. CASE ~(e <= n)
          <5>1. e = n + 1 /\ g[e] = Upto(f, S, n + 1)
            BY <4>2
          <5> QED
            BY <5>1
        <4> QED
          BY <4>1, <4>2
      <3> QED
        BY <3>3, <3>4
    <2> HIDE DEF g
    <2>5. g = [e \in 0..(n + 1) |-> Upto(g, S, e)]
      BY <2>3, <2>4
    <2> QED
      BY <2>3, <2>5
  <1>4. Has(len)
    <2> HIDE DEF Has
    <2>1. N \in SUBSET Nat
      OBVIOUS
    <2>2. N = Nat
      <3> HIDE DEF N
      <3> QED
        BY <1>2, <1>3, <2>1, Induction
    <2> QED
      BY <1>1, <2>2
  <1>5. PICK f \in [0..len -> Int] : f = [e \in 0..len |-> Upto(f, S, e)]
    BY <1>4
  <1> DEFINE c == CHOOSE g : g = [e \in 0..len |-> Upto(g, S, e)]
  <1>6. c = [e \in 0..len |-> Upto(c, S, e)]
    BY <1>5
  <1>7. Durance(S) = c[len]
    BY DEF Durance, Upto
  <1> HIDE DEF c
  <1>8. c[len] \in Int
    <2> DEFINE M == {n \in Nat : n <= len => c[n] \in Int}
    <2>1. 0 \in M
      <3>1. 0 \in 0..len
        BY <1>1
      <3>2. c[0] = Upto(c, S, 0)
        BY <1>6, <3>1
      <3> QED
        BY <3>2 DEF Upto
    <2>2. ASSUME NEW n \in M
          PROVE  n + 1 \in M
      <3> SUFFICES ASSUME n + 1 <= len
                   PROVE  c[n + 1] \in Int
        OBVIOUS
      <3>1. /\ n + 1 \in 0..len /\ n + 1 \in 1..len /\ n + 1 # 0
            /\ (n + 1) - 1 = n /\ c[n] \in Int
        BY <1>1
      <3>2. c[n + 1] = Upto(c, S, n + 1)
        BY <1>6, <3>1
      <3> QED
        BY <1>1, <3>1, <3>2 DEF Upto
    <2>3. M = Nat
      <3>1. M \in SUBSET Nat
        OBVIOUS
      <3> HIDE DEF M
      <3> QED
        BY <2>1, <2>2, <3>1, Induction
    <2> QED
      BY <1>1, <2>3
  <1> QED
    BY <1>7, <1>8

LEMMA SumsExact ==
    ASSUME RInv, Sums, keys = {}, Seen = Worked
    PROVE  /\ {p[1] : p \in Elements(printed)} =
                 UNION {list[e].keys : e \in Worked}
           /\ \A p \in Elements(printed) :
                 60 * p[2][1] + p[2][2] =
                     D!Quot(Durance({e \in Worked : p[1] \in list[e].keys}), 60)
           /\ \A i, j \in 1..Len(printed) :
                 i < j => printed[i][1] < printed[j][1]
  <1>1. /\ \A k \in Nat : (\E i \in 1..Len(printed) : printed[i][1] = k)
                           <=> \E e \in Worked : k \in list[e].keys
        /\ \A i \in 1..Len(printed) :
              /\ printed[i][1] \in Nat
              /\ printed[i][2] = SumOf(printed[i][1])
        /\ \A i, j \in 1..Len(printed) :
              i < j => printed[i][1] < printed[j][1]
    BY DEF Sums
  <1>2. \A e \in Worked : list[e].keys \subseteq Nat
    BY Basics, EntryFacts DEF Worked
  <1>3. {p[1] : p \in Elements(printed)} = UNION {list[e].keys : e \in Worked}
    <2>1. ASSUME NEW p \in Elements(printed)
          PROVE  p[1] \in UNION {list[e].keys : e \in Worked}
      <3>1. PICK i \in 1..Len(printed) : p = printed[i]
        BY DEF Elements
      <3>2. PICK e \in Worked : p[1] \in list[e].keys
        BY <1>1, <3>1
      <3> QED
        BY <3>2
    <2>2. ASSUME NEW e \in Worked, NEW k \in list[e].keys
          PROVE  \E p \in Elements(printed) : p[1] = k
      <3>1. PICK i \in 1..Len(printed) : printed[i][1] = k
        BY <1>1, <1>2
      <3>2. printed[i] \in Elements(printed)
        BY DEF Elements
      <3> QED
        BY <3>1, <3>2
    <2> QED
      BY <2>1, <2>2
  <1>4. ASSUME NEW p \in Elements(printed)
        PROVE  60 * p[2][1] + p[2][2] =
                  D!Quot(Durance({e \in Worked : p[1] \in list[e].keys}), 60)
    <2> PICK d : d = Durance({e \in Worked : p[1] \in list[e].keys})
      OBVIOUS
    <2>1. PICK i \in 1..Len(printed) : p = printed[i]
      BY DEF Elements
    <2>2. InGroup(p[1]) = {e \in Worked : p[1] \in list[e].keys}
      BY DEF InGroup
    <2>3. p[2] = HoursMinutes(d)
      BY <1>1, <2>1, <2>2 DEF SumOf
    <2>4. d \in Int
      BY Basics, DuranceInt
    <2>5. p[2][1] = D!Written("H", d) /\ p[2][2] = D!Written("m", d)
      BY <2>3 DEF HoursMinutes
    <2> QED
      BY <2>4, <2>5, WrittenMinutes
  <1> QED
    BY <1>1, <1>3, <1>4

LEMMA InvExact == RInv => ReportExact
  <1> SUFFICES ASSUME RInv, pc = "free", ~failed
               PROVE  ReportExact
    BY DEF ReportExact
  <1>1. /\ cursor = Len(list) + 1
        /\ report = "work" => ToldWork
        /\ report = "open" => ToldOpen
        /\ report = "done" => ToldDone
        /\ report = "sum" => ToldSum
    BY DEF RInv, Told
  <1>2. /\ Len(list) \in Nat /\ Entry = 1..Len(list) /\ report \in Report
        /\ Worked \subseteq Entry
    BY Basics DEF Worked
  <1>3. \A e \in Entry : e < cursor
    BY <1>1, <1>2
  <1>4. Seen = Worked
    BY <1>2, <1>3 DEF Seen
  <1>5. CASE report = "work"
    BY <1>1, <1>4, <1>5 DEF ReportExact, ToldWork
  <1>6. CASE report = "done"
    <2>1. ToldDone
      BY <1>1, <1>6
    <2> QED
      BY <1>4, <1>6, <2>1 DEF ReportExact, ToldDone
  <1>7. CASE report = "open"
    <2>1. {t \in Entry : /\ list[t].type = "TASK"
                         /\ ~list[t].done
                         /\ Within(t, 0)} =
             {t \in Entry : /\ list[t].type = "TASK"
                            /\ ~list[t].done
                            /\ Within(t, 0)
                            /\ t < cursor}
      BY <1>3
    <2> QED
      BY <1>1, <1>7, <2>1 DEF ReportExact, ToldOpen
  <1>8. CASE report = "sum"
    <2>1. Sums /\ keys = {}
      BY <1>1, <1>8 DEF ToldSum
    <2> QED
      BY <1>4, <1>8, <2>1, SumsExact DEF ReportExact
  <1> QED
    BY <1>2, <1>5, <1>6, <1>7, <1>8 DEF Report

\* main.c:185-423, for every list, every period and every sequence of
\* commands: the variables stay in their types; each iterator pulls from one
\* that was made before it.
THEOREM TypeCorrect == Spec => []TypeOK
  <1>1. RInv /\ [Next]_vars => RInv'
    BY TypeNext, ReportStutter
  <1>2. RInv => TypeOK
    BY DEF RInv
  <1> QED
    BY <1>1, <1>2, ReportInit, PTL DEF Spec

\* A report in which nothing fails prints what it is for, whatever the
\* iterators below hand up on the way: the work entries of the period, the
\* tasks that are done in the order of the work on them, the tasks that are
\* open, and for each group the sum of its durances.
THEOREM ReportsExact == Spec => []ReportExact
  <1>1. RInv /\ [Next]_vars => RInv'
    BY TypeNext, ReportStutter
  <1> QED
    BY <1>1, InvExact, ReportInit, PTL DEF Spec

----------------------------------------------------------------------------
(* The options.  OptInv says of the options taken so far what PeriodSettled *)
(* says of all of them: which one was the last with a date is stated by     *)
(* quantifiers, so that one more option settles it, and a period that has   *)
(* an end never ends at 0, which the program takes for a period without     *)
(* one.                                                                     *)

From == {"t", "d", "b"}
To == {"t", "d", "c"}
OptionsType == [tm_from : Int, tm_to : Int, oneline : BOOLEAN,
                group_by : Opt!Group, strict : BOOLEAN, input : BOOLEAN]

\* Of the first n options the i-th is the last that is one of opts.
IsLast(i, n, opts) == /\ i \in 1..n
                      /\ given[i].opt \in opts
                      /\ \A j \in (i + 1)..n : given[j].opt \notin opts

NoneOf(n, opts) == \A j \in 1..n : given[j].opt \notin opts

DayEnd(i) == Opt!Midnight(Opt!DayOf(i)) + Opt!DayLength - 1

\* A time within the hour up to the end of the day, in either of its zones,
\* and not 0.
EndOn(time, day) ==
    /\ time # 0
    /\ time <= day * Opt!DayLength + Opt!DayLength - 1
    /\ time >= day * Opt!DayLength + Opt!DayLength - 1 - Opt!Hour

\* The period begins and ends as the first n options say.
BeginSettled(n) ==
    /\ NoneOf(n, From) => options.tm_from = 0
    /\ \A i \in 1..n : IsLast(i, n, From) =>
          Opt!NearTo(options.tm_from, Opt!Midnight(Opt!DayOf(i)))

EndSettled(n) ==
    /\ NoneOf(n, To) =>
          options.tm_to = IF NoneOf(n, From) THEN 0 ELSE LONG_MAX
    /\ \A i \in 1..n : IsLast(i, n, To) =>
          /\ Opt!NearTo(options.tm_to, DayEnd(i))
          /\ EndOn(options.tm_to, Opt!DayOf(i))

Settled(n) == BeginSettled(n) /\ EndSettled(n)

Decided(n, opts) == NoneOf(n, opts) \/ \E i \in 1..n : IsLast(i, n, opts)

Taken == Len(given) - Len(argv)

ArgumentsInv ==
    /\ given \in Seq(Opt!OptionType)
    /\ argv \in Seq(Opt!OptionType)
    /\ Taken \in Nat
    /\ \A j \in 1..Len(argv) : argv[j] = given[Taken + j]

\* Nothing is kept when an option ends the program.
OptInv == verdict \in {"none", "OK"} =>
              /\ ArgumentsInv
              /\ daylight \in {0, 1}
              /\ options \in OptionsType
              /\ Settled(Taken)
              /\ Decided(Taken, From) /\ Decided(Taken, To)
              /\ verdict = "OK" => argv = <<>>

----------------------------------------------------------------------------
(* Times. *)

LEMMA MidnightNear ==
    ASSUME NEW day \in Int, NEW isdst \in {0, 1}
    PROVE  /\ Opt!mktime(day, isdst) \in Int
           /\ Opt!NearTo(Opt!mktime(day, isdst), Opt!Midnight(day))
           /\ Opt!Midnight(day) \in Int
  <1>1. CASE day \in Summer
    BY <1>1 DEF Opt!mktime, Opt!NearTo, Opt!Midnight, Opt!Hour, Opt!DayLength
  <1>2. CASE day \notin Summer
    BY <1>2 DEF Opt!mktime, Opt!NearTo, Opt!Midnight, Opt!Hour, Opt!DayLength
  <1> QED
    BY <1>1, <1>2

\* An end of a day is never 0: it is a second short of a full hour.
LEMMA EndNear ==
    ASSUME NEW day \in Int, NEW isdst \in {0, 1}
    PROVE  /\ Opt!EndOf(Opt!mktime(day, isdst)) \in Int
           /\ EndOn(Opt!EndOf(Opt!mktime(day, isdst)), day)
           /\ Opt!NearTo(Opt!EndOf(Opt!mktime(day, isdst)),
                         Opt!Midnight(day) + Opt!DayLength - 1)
  <1>1. CASE day \in Summer
    BY <1>1 DEF Opt!mktime, Opt!NearTo, Opt!Midnight, Opt!Hour, Opt!DayLength,
                Opt!EndOf, EndOn
  <1>2. CASE day \notin Summer
    BY <1>2 DEF Opt!mktime, Opt!NearTo, Opt!Midnight, Opt!Hour, Opt!DayLength,
                Opt!EndOf, EndOn
  <1> QED
    BY <1>1, <1>2

LEMMA ZoneIsBit == Opt!ZoneRead \in {0, 1}
  BY DEF Opt!ZoneRead

----------------------------------------------------------------------------
(* One more option. *)

\* What an option of opts changes, and what any other option leaves.
LEMMA OneMore ==
    ASSUME NEW n \in Nat, NEW opts, UNCHANGED given
    PROVE  /\ given[n + 1].opt \in opts =>
                 /\ ~NoneOf(n + 1, opts)'
                 /\ IsLast(n + 1, n + 1, opts)'
                 /\ \A i \in 1..(n + 1) : IsLast(i, n + 1, opts)' => i = n + 1
           /\ given[n + 1].opt \notin opts =>
                 /\ NoneOf(n + 1, opts)' <=> NoneOf(n, opts)
                 /\ \A i \in 1..(n + 1) :
                       IsLast(i, n + 1, opts)'
                          <=> i \in 1..n /\ IsLast(i, n, opts)
  <1>1. /\ 1..(n + 1) = 1..n \union {n + 1}
        /\ n + 1 \notin 1..n
    OBVIOUS
  <1>2. ASSUME NEW i \in 1..n
        PROVE  (i + 1)..(n + 1) = (i + 1)..n \union {n + 1}
    OBVIOUS
  <1>3. (n + 2)..(n + 1) = {}
    OBVIOUS
  <1> QED
    BY <1>1, <1>2, <1>3 DEF NoneOf, IsLast

LEMMA DecidedMore ==
    ASSUME NEW n \in Nat, NEW opts, UNCHANGED given, Decided(n, opts)
    PROVE  Decided(n + 1, opts)'
  <1>1. n + 1 \in 1..(n + 1) /\ \A i \in 1..n : i \in 1..(n + 1)
    OBVIOUS
  <1> QED
    BY <1>1, OneMore DEF Decided

LEMMA Argument ==
    ASSUME ArgumentsInv, argv # <<>>, argv' = Tail(argv), UNCHANGED given
    PROVE  /\ ArgumentsInv'
           /\ Taken' = Taken + 1
           /\ argv[1] = given[Taken + 1]
           /\ argv[1] \in Opt!OptionType
  <1>1. /\ argv \in Seq(Opt!OptionType) /\ given \in Seq(Opt!OptionType)
        /\ Len(argv) \in Nat \ {0} /\ Len(given) \in Nat
    BY DEF ArgumentsInv
  <1>2. /\ argv' \in Seq(Opt!OptionType)
        /\ Len(argv') = Len(argv) - 1
        /\ \A j \in 1..Len(argv') : argv'[j] = argv[j + 1]
        /\ argv[1] \in Opt!OptionType
    BY <1>1
  <1>3. Taken \in Nat /\ Taken' = Taken + 1
    BY <1>1, <1>2 DEF Taken, ArgumentsInv
  <1>4. argv[1] = given[Taken + 1]
    BY <1>1 DEF ArgumentsInv
  <1>5. ASSUME NEW j \in 1..Len(argv')
        PROVE  argv'[j] = given[Taken' + j]
    <2>1. /\ j + 1 \in 1..Len(argv) /\ Taken + (j + 1) = Taken' + j
          /\ argv'[j] = argv[j + 1]
      BY <1>1, <1>2, <1>3
    <2>2. argv[j + 1] = given[Taken + (j + 1)]
      BY <2>1 DEF ArgumentsInv
    <2> QED
      BY <2>1, <2>2
  <1> QED
    BY <1>1, <1>2, <1>3, <1>4, <1>5 DEF ArgumentsInv

\* Every action that takes an option and leaves the period settled.
LEMMA TakenInv ==
    ASSUME OptInv, NEW n \in Nat, n = Taken, NEW opts, Opt!Takes(opts),
           options' \in OptionsType, daylight' \in {0, 1}, verdict' # "OK",
           Settled(n + 1)'
    PROVE  OptInv'
  <1>1. /\ argv # <<>> /\ argv' = Tail(argv) /\ UNCHANGED given
        /\ ArgumentsInv
    BY DEF Opt!Takes, OptInv
  <1>2. ArgumentsInv' /\ Taken' = n + 1
    BY <1>1, Argument
  <1>3. Decided(n, From) /\ Decided(n, To)
    BY DEF OptInv, Opt!Takes
  <1>4. Decided(n + 1, From)' /\ Decided(n + 1, To)'
    BY <1>1, <1>3, DecidedMore
  <1>5. Settled(Taken)' /\ Decided(Taken, From)' /\ Decided(Taken, To)'
    BY <1>2, <1>4
  <1> QED
    BY <1>2, <1>5 DEF OptInv

LEMMA BeginNew ==
    ASSUME NEW n \in Nat, UNCHANGED given, given[n + 1].opt \in From,
           Opt!NearTo(options'.tm_from, Opt!Midnight(Opt!DayOf(n + 1)))
    PROVE  BeginSettled(n + 1)'
  BY OneMore DEF BeginSettled, Opt!NearTo, Opt!DayOf, Opt!Midnight, Opt!mktime

LEMMA BeginOld ==
    ASSUME NEW n \in Nat, UNCHANGED given, given[n + 1].opt \notin From,
           options'.tm_from = options.tm_from, BeginSettled(n)
    PROVE  BeginSettled(n + 1)'
  BY OneMore DEF BeginSettled, Opt!NearTo, Opt!DayOf, Opt!Midnight, Opt!mktime

LEMMA EndNew ==
    ASSUME NEW n \in Nat, UNCHANGED given, given[n + 1].opt \in To,
           Opt!NearTo(options'.tm_to, DayEnd(n + 1)),
           EndOn(options'.tm_to, Opt!DayOf(n + 1))
    PROVE  EndSettled(n + 1)'
  BY OneMore DEF EndSettled, DayEnd, EndOn, Opt!NearTo, Opt!DayOf, Opt!Midnight,
                 Opt!mktime

LEMMA EndOld ==
    ASSUME NEW n \in Nat, UNCHANGED given,
           given[n + 1].opt \notin From \union To,
           options'.tm_to = options.tm_to, EndSettled(n)
    PROVE  EndSettled(n + 1)'
  <1>1. NoneOf(n + 1, From)' <=> NoneOf(n, From)
    BY OneMore
  <1>2. /\ NoneOf(n + 1, To)' <=> NoneOf(n, To)
        /\ \A i \in 1..(n + 1) :
              IsLast(i, n + 1, To)' <=> i \in 1..n /\ IsLast(i, n, To)
    BY OneMore
  <1> QED
    BY <1>1, <1>2 DEF EndSettled, DayEnd, EndOn, Opt!NearTo, Opt!DayOf,
                      Opt!Midnight, Opt!mktime

\* --from opens the period unless an end was given, which is not 0.
LEMMA EndOpen ==
    ASSUME NEW n \in Nat, UNCHANGED given, given[n + 1].opt = "b",
           options'.tm_to = Opt!OpenEnd, EndSettled(n), Decided(n, To)
    PROVE  EndSettled(n + 1)'
  <1>1. ~NoneOf(n + 1, From)'
    BY OneMore DEF From
  <1>2. /\ NoneOf(n + 1, To)' <=> NoneOf(n, To)
        /\ \A i \in 1..(n + 1) :
              IsLast(i, n + 1, To)' <=> i \in 1..n /\ IsLast(i, n, To)
    BY OneMore DEF To
  <1>3. CASE NoneOf(n, To)
    <2>1. options'.tm_to = LONG_MAX
      BY <1>3 DEF EndSettled, Opt!OpenEnd
    <2>2. \A i \in 1..n : ~IsLast(i, n, To)
      BY <1>3 DEF NoneOf, IsLast
    <2> QED
      BY <1>1, <1>2, <2>1, <2>2 DEF EndSettled
  <1>4. CASE ~NoneOf(n, To)
    <2>1. options'.tm_to = options.tm_to
      BY <1>4 DEF EndSettled, EndOn, Opt!OpenEnd, Decided
    <2> QED
      BY <1>2, <1>4, <2>1 DEF EndSettled, DayEnd, EndOn, Opt!NearTo, Opt!DayOf,
                              Opt!Midnight, Opt!mktime
  <1> QED
    BY <1>3, <1>4

----------------------------------------------------------------------------
(* The actions. *)

\* What every action that takes an option may use.
LEMMA Facts ==
    ASSUME OptInv, NEW opts, Opt!Takes(opts)
    PROVE  /\ Taken \in Nat /\ UNCHANGED given
           /\ given[Taken + 1] = argv[1] /\ argv[1] \in Opt!OptionType
           /\ argv[1].opt \in opts
           /\ options \in OptionsType /\ daylight \in {0, 1}
           /\ verdict = "none"
           /\ Settled(Taken) /\ Decided(Taken, To)
  BY Argument DEF OptInv, Opt!Takes, ArgumentsInv

LEMMA DateBegins ==
    ASSUME NEW arg \in Opt!OptionType, daylight \in {0, 1}
    PROVE  \E isdst \in {0, 1} : Opt!DateBegin(arg) = Opt!mktime(arg.day, isdst)
  BY ZoneIsBit DEF Opt!DateBegin

LEMMA TodayInv == OptInv /\ Opt!OptToday => OptInv'
  <1> SUFFICES ASSUME OptInv, Opt!OptToday
               PROVE  OptInv'
    OBVIOUS
  <1> DEFINE begin == Opt!mktime(Today, Opt!ZoneRead)
  <1>1. /\ Opt!Takes({"t"})
        /\ options' = [options EXCEPT !.tm_from = begin,
                                      !.tm_to = Opt!EndOf(begin)]
        /\ daylight' = Opt!ZoneRead
        /\ UNCHANGED verdict
    BY DEF Opt!OptToday, Opt!TakesDate
  <1> PICK n : n = Taken
    OBVIOUS
  <1>2. /\ n \in Nat /\ UNCHANGED given /\ given[n + 1].opt = "t"
        /\ options \in OptionsType /\ verdict = "none"
    BY <1>1, Facts
  <1>3. /\ begin \in Int /\ Opt!NearTo(begin, Opt!Midnight(Today))
        /\ Opt!EndOf(begin) \in Int /\ EndOn(Opt!EndOf(begin), Today)
        /\ Opt!NearTo(Opt!EndOf(begin),
                      Opt!Midnight(Today) + Opt!DayLength - 1)
    BY DaysAssumption, ZoneIsBit, MidnightNear, EndNear
  <1> HIDE DEF begin
  <1>4. /\ options' \in OptionsType
        /\ options'.tm_from = begin /\ options'.tm_to = Opt!EndOf(begin)
    BY <1>1, <1>2, <1>3 DEF OptionsType
  <1>5. Opt!DayOf(n + 1) = Today
    BY <1>2 DEF Opt!DayOf
  <1>6. BeginSettled(n + 1)'
    BY <1>2, <1>3, <1>4, <1>5, BeginNew DEF From
  <1>7. EndSettled(n + 1)'
    BY <1>2, <1>3, <1>4, <1>5, EndNew DEF To, DayEnd
  <1> QED
    BY <1>1, <1>2, <1>4, <1>6, <1>7, ZoneIsBit, TakenInv DEF Settled

LEMMA FromInv == OptInv /\ Opt!OptFrom => OptInv'
  <1> SUFFICES ASSUME OptInv, Opt!OptFrom
               PROVE  OptInv'
    OBVIOUS
  <1> DEFINE begin == Opt!DateBegin(argv[1])
  <1>1. /\ Opt!Takes({"b"})
        /\ options' = [options EXCEPT !.tm_from = begin, !.tm_to = Opt!OpenEnd]
        /\ daylight' = Opt!ZoneRead
        /\ UNCHANGED verdict
    BY DEF Opt!OptFrom, Opt!TakesDate
  <1> PICK n : n = Taken
    OBVIOUS
  <1>2. /\ n \in Nat /\ UNCHANGED given /\ given[n + 1] = argv[1]
        /\ argv[1] \in Opt!OptionType /\ argv[1].opt = "b"
        /\ options \in OptionsType /\ verdict = "none"
        /\ daylight \in {0, 1} /\ EndSettled(n) /\ Decided(n, To)
    BY <1>1, Facts DEF Settled
  <1>3. argv[1].day \in Int
    BY <1>2 DEF Opt!OptionType
  <1>4. begin \in Int /\ Opt!NearTo(begin, Opt!Midnight(argv[1].day))
    BY <1>2, <1>3, DateBegins, MidnightNear
  <1> HIDE DEF begin
  <1>5. Opt!OpenEnd \in Int
    BY <1>2, LimitAssumption DEF Opt!OpenEnd, OptionsType
  <1>6. /\ options' \in OptionsType
        /\ options'.tm_from = begin /\ options'.tm_to = Opt!OpenEnd
    BY <1>1, <1>2, <1>4, <1>5 DEF OptionsType
  <1>7. Opt!DayOf(n + 1) = argv[1].day
    BY <1>2 DEF Opt!DayOf
  <1>8. BeginSettled(n + 1)'
    BY <1>2, <1>4, <1>6, <1>7, BeginNew DEF From
  <1>9. EndSettled(n + 1)'
    BY <1>2, <1>6, EndOpen
  <1> QED
    BY <1>1, <1>2, <1>6, <1>8, <1>9, ZoneIsBit, TakenInv DEF Settled

LEMMA ToInv == OptInv /\ Opt!OptTo => OptInv'
  <1> SUFFICES ASSUME OptInv, Opt!OptTo
               PROVE  OptInv'
    OBVIOUS
  <1> DEFINE end == Opt!EndOf(Opt!DateBegin(argv[1]))
  <1>1. /\ Opt!Takes({"c"})
        /\ options' = [options EXCEPT !.tm_to = end]
        /\ daylight' = Opt!ZoneRead
        /\ UNCHANGED verdict
    BY DEF Opt!OptTo, Opt!TakesDate
  <1> PICK n : n = Taken
    OBVIOUS
  <1>2. /\ n \in Nat /\ UNCHANGED given /\ given[n + 1] = argv[1]
        /\ argv[1] \in Opt!OptionType /\ argv[1].opt = "c"
        /\ options \in OptionsType /\ verdict = "none"
        /\ daylight \in {0, 1} /\ BeginSettled(n)
    BY <1>1, Facts DEF Settled
  <1>3. argv[1].day \in Int
    BY <1>2 DEF Opt!OptionType
  <1>4. /\ end \in Int /\ EndOn(end, argv[1].day)
        /\ Opt!NearTo(end, Opt!Midnight(argv[1].day) + Opt!DayLength - 1)
    BY <1>2, <1>3, DateBegins, EndNear
  <1> HIDE DEF end
  <1>5. /\ options' \in OptionsType
        /\ options'.tm_from = options.tm_from /\ options'.tm_to = end
    BY <1>1, <1>2, <1>4 DEF OptionsType
  <1>6. Opt!DayOf(n + 1) = argv[1].day
    BY <1>2 DEF Opt!DayOf
  <1>7. BeginSettled(n + 1)'
    BY <1>2, <1>5, BeginOld DEF From
  <1>8. EndSettled(n + 1)'
    BY <1>2, <1>4, <1>5, <1>6, EndNew DEF To, DayEnd
  <1> QED
    BY <1>1, <1>2, <1>5, <1>7, <1>8, ZoneIsBit, TakenInv DEF Settled

LEMMA DateInv == OptInv /\ Opt!OptDate => OptInv'
  <1> SUFFICES ASSUME OptInv, Opt!OptDate
               PROVE  OptInv'
    OBVIOUS
  <1> DEFINE begin == Opt!DateBegin(argv[1])
  <1>1. /\ Opt!Takes({"d"})
        /\ options' = [options EXCEPT !.tm_from = begin,
                                      !.tm_to = Opt!EndOf(begin)]
        /\ daylight' = Opt!ZoneRead
        /\ UNCHANGED verdict
    BY DEF Opt!OptDate, Opt!TakesDate
  <1> PICK n : n = Taken
    OBVIOUS
  <1>2. /\ n \in Nat /\ UNCHANGED given /\ given[n + 1] = argv[1]
        /\ argv[1] \in Opt!OptionType /\ argv[1].opt = "d"
        /\ options \in OptionsType /\ verdict = "none"
        /\ daylight \in {0, 1}
    BY <1>1, Facts
  <1>3. argv[1].day \in Int
    BY <1>2 DEF Opt!OptionType
  <1>4. /\ begin \in Int /\ Opt!NearTo(begin, Opt!Midnight(argv[1].day))
        /\ Opt!EndOf(begin) \in Int /\ EndOn(Opt!EndOf(begin), argv[1].day)
        /\ Opt!NearTo(Opt!EndOf(begin),
                      Opt!Midnight(argv[1].day) + Opt!DayLength - 1)
    BY <1>2, <1>3, DateBegins, MidnightNear, EndNear
  <1> HIDE DEF begin
  <1>5. /\ options' \in OptionsType
        /\ options'.tm_from = begin /\ options'.tm_to = Opt!EndOf(begin)
    BY <1>1, <1>2, <1>4 DEF OptionsType
  <1>6. Opt!DayOf(n + 1) = argv[1].day
    BY <1>2 DEF Opt!DayOf
  <1>7. BeginSettled(n + 1)'
    BY <1>2, <1>4, <1>5, <1>6, BeginNew DEF From
  <1>8. EndSettled(n + 1)'
    BY <1>2, <1>4, <1>5, <1>6, EndNew DEF To, DayEnd
  <1> QED
    BY <1>1, <1>2, <1>5, <1>7, <1>8, ZoneIsBit, TakenInv DEF Settled

\* Options that leave the period alone.
LEMMA UndatedInv ==
    ASSUME OptInv, NEW opts, Opt!Takes(opts),
           argv[1].opt \notin From \union To, options' \in OptionsType,
           options'.tm_from = options.tm_from, options'.tm_to = options.tm_to,
           UNCHANGED daylight, verdict' # "OK"
    PROVE  OptInv'
  <1> PICK n : n = Taken
    OBVIOUS
  <1>1. /\ n \in Nat /\ UNCHANGED given /\ given[n + 1] = argv[1]
        /\ daylight \in {0, 1} /\ BeginSettled(n) /\ EndSettled(n)
    BY Facts DEF Settled
  <1>2. BeginSettled(n + 1)'
    BY <1>1, BeginOld
  <1>3. EndSettled(n + 1)'
    BY <1>1, EndOld
  <1> QED
    BY <1>1, <1>2, <1>3, TakenInv DEF Settled

LEMMA GroupInv == OptInv /\ Opt!OptGroup => OptInv'
  <1> SUFFICES ASSUME OptInv, Opt!OptGroup
               PROVE  OptInv'
    OBVIOUS
  <1>1. /\ Opt!Takes({"g"}) /\ argv[1].word \in Opt!Group
        /\ options' = [options EXCEPT !.group_by = argv[1].word]
        /\ UNCHANGED <<daylight, verdict>>
    BY DEF Opt!OptGroup
  <1>2. argv[1].opt = "g" /\ options \in OptionsType /\ verdict = "none"
    BY <1>1, Facts
  <1>3. /\ options' \in OptionsType
        /\ options'.tm_from = options.tm_from /\ options'.tm_to = options.tm_to
    BY <1>1, <1>2 DEF OptionsType
  <1> QED
    BY <1>1, <1>2, <1>3, UndatedInv DEF From, To

LEMMA FlagInv == OptInv /\ Opt!OptFlag => OptInv'
  <1> SUFFICES ASSUME OptInv, Opt!OptFlag
               PROVE  OptInv'
    OBVIOUS
  <1>1. /\ Opt!Takes({"o", "s", "f", "r"})
        /\ options' \in {[options EXCEPT !.oneline = TRUE],
                         [options EXCEPT !.strict = TRUE],
                         [options EXCEPT !.input = TRUE], options}
        /\ UNCHANGED <<daylight, verdict>>
    BY DEF Opt!OptFlag
  <1>2. /\ argv[1].opt \in {"o", "s", "f", "r"}
        /\ options \in OptionsType /\ verdict = "none"
    BY <1>1, Facts
  <1>3. /\ options' \in OptionsType
        /\ options'.tm_from = options.tm_from /\ options'.tm_to = options.tm_to
    BY <1>1, <1>2 DEF OptionsType
  <1> QED
    BY <1>1, <1>2, <1>3, UndatedInv DEF From, To

LEMMA EndsInv == OptInv /\ Opt!OptEnds => OptInv'
  BY DEF OptInv, Opt!OptEnds

LEMMA DoneInv == OptInv /\ Opt!OptDone => OptInv'
  <1> SUFFICES ASSUME OptInv, Opt!OptDone
               PROVE  OptInv'
    OBVIOUS
  <1>1. /\ UNCHANGED <<argv, given, options, daylight>> /\ argv = <<>>
        /\ verdict = "none"
    BY DEF Opt!OptDone
  <1> QED
    BY <1>1 DEF OptInv, ArgumentsInv, Taken, Settled, BeginSettled,
                EndSettled, EndOn, Decided, NoneOf, IsLast, Opt!NearTo, Opt!DayOf,
                Opt!Midnight, Opt!mktime, DayEnd

LEMMA UnchangedInv == OptInv /\ UNCHANGED optvars => OptInv'
  BY DEF optvars, OptInv, ArgumentsInv, Taken, Settled, BeginSettled,
         EndSettled, EndOn, Decided, NoneOf, IsLast, Opt!NearTo, Opt!DayOf,
         Opt!Midnight, Opt!mktime, DayEnd

LEMMA OptInitInv == Opt!OptInit => OptInv
  <1> SUFFICES ASSUME Opt!OptInit
               PROVE  OptInv
    OBVIOUS
  <1>1. /\ given \in Seq(Opt!OptionType) /\ argv = given
        /\ options = [tm_from |-> 0, tm_to |-> 0, oneline |-> FALSE,
                      group_by |-> "name", strict |-> FALSE, input |-> FALSE]
        /\ daylight = 0 /\ verdict = "none"
    BY ArgumentsAssumption DEF Opt!OptInit
  <1>2. Taken = 0
    BY <1>1 DEF Taken
  <1>3. options \in OptionsType /\ options.tm_from = 0 /\ options.tm_to = 0
    BY <1>1 DEF OptionsType, Opt!Group
  <1>4. \A opts : NoneOf(0, opts)
    BY DEF NoneOf
  <1>5. Settled(0)
    BY <1>3, <1>4 DEF Settled, BeginSettled, EndSettled
  <1> QED
    BY <1>1, <1>2, <1>3, <1>4, <1>5 DEF OptInv, ArgumentsInv, Decided

LEMMA OptNextInv == OptInv /\ [Opt!OptNext]_optvars => OptInv'
  BY TodayInv, FromInv, ToInv, DateInv, GroupInv, FlagInv, EndsInv, DoneInv,
     UnchangedInv DEF Opt!OptNext

\* When all options are taken, the period is that of the last ones.
LEMMA OptionsTaken ==
    ASSUME OptInv, verdict = "OK"
    PROVE  \E n \in Nat :
              /\ n = Len(given) /\ given \in Seq(Opt!OptionType)
              /\ BeginSettled(n) /\ EndSettled(n)
              /\ \A opts \in {From, To} :
                    \/ Opt!LastOf(opts) = 0 /\ NoneOf(n, opts)
                    \/ /\ Opt!LastOf(opts) \in 1..n /\ Opt!LastOf(opts) # 0
                       /\ ~NoneOf(n, opts)
                       /\ IsLast(Opt!LastOf(opts), n, opts)
  <1>1. /\ argv = <<>> /\ given \in Seq(Opt!OptionType) /\ Taken = Len(given)
    BY DEF OptInv, ArgumentsInv, Taken
  <1> PICK n \in Nat : n = Len(given)
    BY <1>1
  <1>2. BeginSettled(n) /\ EndSettled(n) /\ Decided(n, From) /\ Decided(n, To)
    BY <1>1 DEF OptInv, Settled
  <1>3. ASSUME NEW opts, Decided(n, opts)
        PROVE  \/ Opt!LastOf(opts) = 0 /\ NoneOf(n, opts)
               \/ /\ Opt!LastOf(opts) \in 1..n /\ Opt!LastOf(opts) # 0
                  /\ ~NoneOf(n, opts)
                  /\ IsLast(Opt!LastOf(opts), n, opts)
    <2>1. CASE NoneOf(n, opts)
      BY <2>1 DEF NoneOf, Opt!LastOf
    <2>2. CASE ~NoneOf(n, opts)
      <3>1. \E i \in 1..n : IsLast(i, n, opts)
        BY <1>3, <2>2 DEF Decided
      <3>2. IsLast(Opt!LastOf(opts), n, opts)
        BY <3>1 DEF IsLast, Opt!LastOf
      <3> QED
        BY <2>2, <3>2 DEF IsLast
    <2> QED
      BY <2>1, <2>2
  <1> QED
    BY <1>1, <1>2, <1>3

LEMMA OptInvSettles == OptInv => Opt!PeriodSettled
  <1> SUFFICES ASSUME OptInv, verdict = "OK"
               PROVE  Opt!PeriodSettled
    BY DEF Opt!PeriodSettled
  <1> DEFINE from == Opt!LastOf(From)
             to == Opt!LastOf(To)
  <1>1. PICK n \in Nat :
            /\ BeginSettled(n) /\ EndSettled(n)
            /\ \/ from = 0 /\ NoneOf(n, From)
               \/ /\ from \in 1..n /\ from # 0
                  /\ ~NoneOf(n, From) /\ IsLast(from, n, From)
            /\ \/ to = 0 /\ NoneOf(n, To)
               \/ /\ to \in 1..n /\ to # 0
                  /\ ~NoneOf(n, To) /\ IsLast(to, n, To)
    BY OptionsTaken
  <1>2. IF from = 0 THEN options.tm_from = 0
        ELSE Opt!NearTo(options.tm_from, Opt!Midnight(Opt!DayOf(from)))
    BY <1>1 DEF BeginSettled
  <1>3. IF to # 0
        THEN Opt!NearTo(options.tm_to,
                        Opt!Midnight(Opt!DayOf(to)) + Opt!DayLength - 1)
        ELSE options.tm_to = IF from # 0 THEN LONG_MAX ELSE 0
    BY <1>1 DEF EndSettled, DayEnd
  <1> QED
    BY <1>2, <1>3 DEF Opt!PeriodSettled, From, To

----------------------------------------------------------------------------
\* main.c:477-502, for every sequence of options of any length, every today
\* and every choice of the days of summer: the period is that of the last
\* options, whatever was given before them.
THEOREM PeriodIsSettled == MainSpec => []PeriodSettled
  <1>1. MainInit => OptInv
    BY OptInitInv DEF MainInit
  <1>2. OptInv /\ [MainNext]_<<vars, optvars, mainvars>> => OptInv'
    <2> SUFFICES ASSUME OptInv, [MainNext]_<<vars, optvars, mainvars>>
                 PROVE  OptInv'
      OBVIOUS
    <2>1. [Opt!OptNext]_optvars
      BY DEF MainNext, ParseArguments, ArgumentsEnd, ParseMain,
             ParseMainFails, ProcessCommands, FreeEntries
    <2> QED
      BY <2>1, OptNextInv
  <1>3. OptInv => PeriodSettled
    BY OptInvSettles DEF PeriodSettled
  <1> QED
    BY <1>1, <1>2, <1>3, PTL DEF MainSpec

----------------------------------------------------------------------------
(* The reports of main.  The period is settled, and the file parsed, before *)
(* a report is begun.                                                       *)

\* No report was begun.
Fresh == /\ stage = 0 /\ cursor = 0 /\ returned = <<>>
         /\ keys = {} /\ summed = {}

MainInv == /\ RInv
           /\ OptInv
           /\ period.from = options.tm_from /\ period.to = options.tm_to
           /\ parsed => verdict = "OK"
           /\ ~parsed => pc = "command" /\ Fresh

LEMMA OptNextBegins == Opt!OptNext => verdict = "none"
  BY DEF Opt!OptNext, Opt!OptToday, Opt!OptFrom, Opt!OptTo, Opt!OptDate,
         Opt!OptGroup, Opt!OptFlag, Opt!OptEnds, Opt!OptDone, Opt!TakesDate,
         Opt!Takes

\* What ends the program leaves the options.
LEMMA OptionsTyped ==
    ASSUME OptInv, Opt!OptNext
    PROVE  options' \in OptionsType
  <1>1. OptInv' /\ options \in OptionsType
    BY OptNextInv, OptNextBegins DEF OptInv
  <1>2. CASE Opt!OptEnds
    BY <1>1, <1>2 DEF Opt!OptEnds
  <1>3. CASE ~Opt!OptEnds
    <2>1. verdict' \in {"none", "OK"}
      BY <1>3, OptNextBegins DEF Opt!OptNext, Opt!OptToday, Opt!OptFrom,
         Opt!OptTo, Opt!OptDate, Opt!OptGroup, Opt!OptFlag, Opt!OptDone,
         Opt!TakesDate
    <2> QED
      BY <1>1, <2>1 DEF OptInv
  <1> QED
    BY <1>2, <1>3

LEMMA ListLength == list \in EntryLists => Len(list) \in Nat
  BY EntryFacts

\* Before a report is begun the period and the list may change.
LEMMA FreshStep ==
    ASSUME RInv, Fresh, pc = "command", OwnInv',
           UNCHANGED <<commands, report, stage, iters, freed, local, output, pc,
                       ret>>,
           list' \in EntryLists, period' \in [from : Int, to : Int]
    PROVE  RInv' /\ Fresh'
  <1>1. /\ cursor' = 0 /\ returned' = <<>> /\ keys' = {} /\ summed' = {}
        /\ printed' = printed /\ stage' = 0 /\ report' = report
        /\ iters' = iters /\ freed' = freed /\ local' = local
        /\ commands' = commands /\ ret' = ret /\ pc' = "command"
    BY DEF Fresh, output
  <1>2. TypeOK /\ Shape
    BY DEF RInv
  <1>3. Len(list') \in Nat
    <2>1. (list \in EntryLists => Len(list) \in Nat)'
      BY ListLength, PTL
    <2> QED
      BY <2>1
  <1>4. Len(Calls') \in Nat
    <2>1. (report \in Report => Apart)'
      BY CallsApart, PTL
    <2> QED
      BY <1>1, <1>2, <2>1 DEF Apart, TypeOK
  <1>5. returned' \in Seq(Entry')
    BY <1>1
  <1>6. TypeOK'
    BY <1>1, <1>2, <1>3, <1>4, <1>5 DEF TypeOK
  <1>7. Shape' /\ Told'
    BY <1>1, <1>2 DEF Shape, Told
  <1> QED
    BY <1>1, <1>6, <1>7 DEF RInv, Fresh

LEMMA MainNextInv ==
    MainInv /\ [MainNext]_<<vars, optvars, mainvars>> => MainInv'
  <1> SUFFICES ASSUME MainInv, [MainNext]_<<vars, optvars, mainvars>>
               PROVE  MainInv'
    OBVIOUS
  <1>1. CASE ParseArguments
    <2>1. /\ verdict = "none" /\ ~parsed /\ pc = "command" /\ Opt!OptNext
          /\ UNCHANGED <<list, commands, report, stage, heap, output, pc, ret,
                         parsed>>
          /\ period' = [from |-> options'.tm_from, to |-> options'.tm_to]
      BY <1>1, OptNextBegins DEF ParseArguments, MainInv, mainvars
    <2>2. OwnInv'
      BY <2>1, OwnStutterInv DEF MainInv, RInv
    <2>3. OptInv'
      BY <2>1, OptNextInv DEF MainInv
    <2>4. period' \in [from : Int, to : Int]
      <3>1. options' \in OptionsType
        BY <2>1, OptionsTyped DEF MainInv
      <3> QED
        BY <2>1, <3>1 DEF OptionsType
    <2>5. RInv' /\ Fresh'
      BY <2>1, <2>2, <2>4, FreshStep DEF MainInv, RInv, TypeOK, heap
    <2> QED
      BY <2>1, <2>3, <2>5 DEF MainInv
  <1>2. CASE ParseMain
    <2>1. /\ verdict = "OK" /\ ~parsed /\ parsed' /\ list' \in EntryLists
          /\ pc = "command" /\ UNCHANGED optvars
          /\ UNCHANGED <<period, commands, report, stage, heap, output, pc,
                         ret>>
      BY <1>2 DEF ParseMain, MainInv
    <2>2. OwnInv'
      BY <2>1, OwnStutterInv DEF MainInv, RInv
    <2>3. OptInv'
      BY <2>1, UnchangedInv DEF MainInv
    <2>4. RInv'
      BY <2>1, <2>2, FreshStep DEF MainInv, RInv, TypeOK, heap
    <2> QED
      BY <2>1, <2>3, <2>4 DEF MainInv, optvars
  <1>3. CASE ProcessCommands
    <2>1. parsed /\ Next /\ UNCHANGED <<optvars, parsed>>
      BY <1>3 DEF ProcessCommands, mainvars
    <2>2. RInv' /\ OptInv'
      BY <2>1, TypeNext, UnchangedInv DEF MainInv
    <2>3. UNCHANGED period
      BY <2>1 DEF Next, Command, NoCommand, Construct, Build, BuildFails, Built,
         Output, PullSkip, Pull, PullFails, PullEnd, Sum, SumFails, SumEnd,
         FreeIters
    <2> QED
      BY <2>1, <2>2, <2>3 DEF MainInv, optvars
  <1>4. CASE \/ ArgumentsEnd \/ ParseMainFails \/ FreeEntries
             \/ UNCHANGED <<vars, optvars, mainvars>>
    <2>1. UNCHANGED <<vars, optvars, parsed>>
      BY <1>4 DEF ArgumentsEnd, ParseMainFails, FreeEntries, mainvars
    <2>2. RInv' /\ OptInv'
      BY <2>1, ReportStutter, UnchangedInv DEF MainInv
    <2> QED
      BY <2>1, <2>2 DEF MainInv, vars, optvars, output, Fresh
  <1> QED
    BY <1>1, <1>2, <1>3, <1>4 DEF MainNext

LEMMA MainInitInv == MainInit => MainInv
  <1> SUFFICES ASSUME MainInit
               PROVE  MainInv
    OBVIOUS
  <1>1. RInv /\ OptInv
    BY ReportInit, OptInitInv DEF MainInit
  <1>2. /\ period = [from |-> 0, to |-> 0] /\ ~parsed /\ pc = "command"
        /\ Fresh /\ options.tm_from = 0 /\ options.tm_to = 0
    BY DEF MainInit, Init, Fresh, Opt!OptInit
  <1> QED
    BY <1>1, <1>2 DEF MainInv

\* main.c:612-641, for every command line and every list a file may give:
\* each iterator is freed once, and none outlives its report.
THEOREM MainOwnsOnce == MainSpec => []OwnedOnce
  <1>1. MainInv => OwnedOnce
    BY OwnInvOwns DEF MainInv, RInv
  <1> QED
    BY <1>1, MainInitInv, MainNextInv, PTL DEF MainSpec

\* For every command line and every list a file may give: the variables stay
\* in their types, the list and the period through the steps of main before
\* a report is begun as well.
THEOREM MainTypeCorrect == MainSpec => []TypeOK
  <1>1. MainInv => TypeOK
    BY DEF MainInv, RInv
  <1> QED
    BY <1>1, MainInitInv, MainNextInv, PTL DEF MainSpec

\* For every command line and every list a file may give: a report of main in
\* which nothing fails prints what it is for in the period that was asked.
THEOREM MainReportsExact == MainSpec => []ReportExact
  <1>1. MainInv => ReportExact
    BY InvExact DEF MainInv
  <1> QED
    BY <1>1, MainInitInv, MainNextInv, PTL DEF MainSpec

----------------------------------------------------------------------------
(* The days the options ask for. *)

\* Times fit a time_t, and no work was begun before 1970: with --to alone the
\* period begins at 0.
Timely == /\ LONG_MAX # 0
          /\ \A l \in EntryLists : \A e \in 1..Len(l) :
                l[e].begin >= 0 /\ l[e].end <= LONG_MAX

\* The end of a day lies in an hour before the midnight that follows, or in
\* the hour after when the clock is changed.
LEMMA NextMidnight ==
    ASSUME NEW day \in Int, NEW time \in Int, EndOn(time, day)
    PROVE  /\ Opt!Midnight(day + 1) \in Int
           /\ time < Opt!Midnight(day + 1) + Opt!Hour
           /\ time >= Opt!Midnight(day + 1) - Opt!Hour - 1
  BY DEF EndOn, Opt!Midnight, Opt!mktime, Opt!DayLength, Opt!Hour

\* What the options ask of the times of an entry, with a margin.
Asked(from, to, begin, end, margin) ==
    /\ from # 0 => begin >= Opt!Midnight(Opt!DayOf(from)) + margin
    /\ to # 0 => end < Opt!Midnight(Opt!DayOf(to) + 1) - margin

LEMMA AskedFiltered ==
    ASSUME OptInv, verdict = "OK", Timely,
           NEW begin \in Int, NEW end \in Int, begin >= 0, end <= LONG_MAX,
           NEW filtered, filtered \in BOOLEAN,
           filtered <=> \/ options.tm_from = 0 /\ options.tm_to = 0
                        \/ options.tm_from <= begin /\ end <= options.tm_to,
           NEW from, from = Opt!LastOf(From), NEW to, to = Opt!LastOf(To)
    PROVE  /\ Asked(from, to, begin, end, Opt!Hour) => filtered
           /\ filtered => Asked(from, to, begin, end, -Opt!Hour)
  <1>1. PICK n \in Nat :
            /\ n = Len(given) /\ given \in Seq(Opt!OptionType)
            /\ BeginSettled(n) /\ EndSettled(n)
            /\ \/ from = 0 /\ NoneOf(n, From)
               \/ /\ from \in 1..n /\ from # 0
                  /\ ~NoneOf(n, From) /\ IsLast(from, n, From)
            /\ \/ to = 0 /\ NoneOf(n, To)
               \/ /\ to \in 1..n /\ to # 0
                  /\ ~NoneOf(n, To) /\ IsLast(to, n, To)
    BY OptionsTaken
  <1> PICK tm_from \in Int : tm_from = options.tm_from
    BY DEF OptInv, OptionsType
  <1> PICK tm_to \in Int : tm_to = options.tm_to
    BY DEF OptInv, OptionsType
  <1>2. ASSUME NEW i \in 1..n
        PROVE  Opt!DayOf(i) \in Int
    <2>1. given[i] \in Opt!OptionType
      BY <1>1
    <2> QED
      BY <2>1, DaysAssumption DEF Opt!DayOf, Opt!OptionType
  <1>3. Opt!Hour = 3600
    BY DEF Opt!Hour
  <1>4. CASE from = 0
    <2>1. tm_from = 0
      BY <1>1, <1>4 DEF BeginSettled
    <2>2. CASE to = 0
      <3>1. tm_to = 0
        BY <1>1, <1>4, <2>2 DEF EndSettled
      <3> QED
        BY <1>4, <2>1, <2>2, <3>1 DEF Asked
    <2>3. CASE to # 0
      <3> PICK day \in Int : day = Opt!DayOf(to)
        BY <1>1, <1>2, <2>3
      <3>1. EndOn(tm_to, day)
        BY <1>1, <2>3 DEF EndSettled
      <3> PICK next \in Int : next = Opt!Midnight(day + 1)
        BY <3>1, NextMidnight
      <3>2. /\ tm_to < next + 3600 /\ tm_to >= next - 3600 - 1 /\ tm_to # 0
        BY <1>3, <3>1, NextMidnight DEF EndOn
      <3>3. filtered <=> end <= tm_to
        BY <2>1, <3>2
      <3>4. \A margin : Asked(from, to, begin, end, margin)
                           <=> end < next - margin
        BY <1>4, <2>3 DEF Asked
      <3> QED
        BY <1>3, <3>2, <3>3, <3>4
    <2> QED
      BY <2>2, <2>3
  <1>5. CASE from # 0
    <2> PICK first \in Int : first = Opt!Midnight(Opt!DayOf(from))
      BY <1>1, <1>2, <1>5, MidnightNear
    <2>1. Opt!NearTo(tm_from, first)
      BY <1>1, <1>5 DEF BeginSettled
    <2>2. tm_from >= first - 3600 /\ tm_from <= first + 3600
      BY <1>3, <2>1 DEF Opt!NearTo
    <2>3. CASE to = 0
      <3>1. tm_to = LONG_MAX
        BY <1>1, <1>5, <2>3 DEF EndSettled
      <3>2. filtered <=> tm_from <= begin
        BY <3>1 DEF Timely
      <3>3. \A margin : Asked(from, to, begin, end, margin)
                           <=> begin >= first + margin
        BY <1>5, <2>3 DEF Asked
      <3> QED
        BY <1>3, <2>2, <3>2, <3>3
    <2>4. CASE to # 0
      <3> PICK day \in Int : day = Opt!DayOf(to)
        BY <1>1, <1>2, <2>4
      <3>1. EndOn(tm_to, day)
        BY <1>1, <2>4 DEF EndSettled
      <3> PICK next \in Int : next = Opt!Midnight(day + 1)
        BY <3>1, NextMidnight
      <3>2. /\ tm_to < next + 3600 /\ tm_to >= next - 3600 - 1 /\ tm_to # 0
        BY <1>3, <3>1, NextMidnight DEF EndOn
      <3>3. filtered <=> tm_from <= begin /\ end <= tm_to
        BY <3>2
      <3>4. \A margin : Asked(from, to, begin, end, margin)
                           <=> begin >= first + margin /\ end < next - margin
        BY <1>5, <2>4 DEF Asked
      <3> QED
        BY <1>3, <2>2, <3>2, <3>3, <3>4
    <2> QED
      BY <2>3, <2>4
  <1> QED
    BY <1>4, <1>5

LEMMA InvAsked == Timely => (MainInv => AskedDays)
  <1> SUFFICES ASSUME Timely, MainInv,
                      report = "work", pc = "free", ~failed
               PROVE  AskedDays
    BY DEF AskedDays
  <1> DEFINE from == Opt!LastOf(From)
             to == Opt!LastOf(To)
  <1>1. OptInv /\ verdict = "OK" /\ RInv
        /\ period.from = options.tm_from /\ period.to = options.tm_to
    BY DEF MainInv
  <1>2. Elements(printed) = Worked
    BY <1>1, InvExact DEF ReportExact
  <1>3. ASSUME NEW e \in Entry, list[e].type = "WORK"
        PROVE  /\ Asked(from, to, list[e].begin, list[e].end, Opt!Hour) =>
                     e \in Elements(printed)
               /\ e \in Elements(printed) =>
                     Asked(from, to, list[e].begin, list[e].end, -Opt!Hour)
    <2>1. /\ list \in EntryLists /\ e \in 1..Len(list)
          /\ list[e].begin \in Int /\ list[e].end \in Int
      BY <1>1, Basics, EntryFacts
    <2>2. list[e].begin >= 0 /\ list[e].end <= LONG_MAX
      BY <2>1 DEF Timely
    <2>3. e \in Worked <=>
             \/ options.tm_from = 0 /\ options.tm_to = 0
             \/ options.tm_from <= list[e].begin /\ list[e].end <= options.tm_to
      BY <1>1, <1>3 DEF Worked, Within, NoPeriod, EndOf
    <2> DEFINE filtered == e \in Worked
    <2>4. filtered \in BOOLEAN
      OBVIOUS
    <2> HIDE DEF filtered, from, to
    <2>5. /\ Asked(from, to, list[e].begin, list[e].end, Opt!Hour) => filtered
          /\ filtered => Asked(from, to, list[e].begin, list[e].end, -Opt!Hour)
      BY <1>1, <2>1, <2>2, <2>3, <2>4, AskedFiltered DEF filtered, from, to
    <2> QED
      BY <1>2, <2>5 DEF filtered
  <1> QED
    BY <1>3 DEF AskedDays, Asked, From, To

\* main.c:43-48, for every command line, every list of work that was not begun
\* before 1970 and every choice of the days of summer: but for the hour the
\* clock may be changed by, the list of work holds the work of the days that
\* the options ask for, whatever their order.
THEOREM DaysAreAsked == ASSUME Timely PROVE MainSpec => []AskedDays
  <1>1. MainInv => AskedDays
    BY InvAsked
  <1> QED
    BY <1>1, MainInitInv, MainNextInv, PTL DEF MainSpec
=============================================================================
