--------------------------- MODULE DocumentsProofs --------------------------
(***************************************************************************)
(* Every document is read as it is meant: while yyparse runs there is a    *)
(* file, line by line the one the document is written as, and a place in   *)
(* it where the lexer and the parser stand, with what the lines above mean *)
(* in ctx->entries; or there is a token that cannot be taken any more, and *)
(* the file is one that is refused.                                        *)
(***************************************************************************)
EXTENDS GrammarProofs

----------------------------------------------------------------------------
(* Where the parser is in a file.                                           *)

Matches(es, ps, all) ==
    /\ Len(es) = Len(ps)
    /\ \A j \in 1..Len(es) : /\ Keeps(es[j], ps[j])
                             /\ j < Len(es) \/ all => es[j].desc = ps[j].desc

\* What is known of the entries when the parser is in a line.
Recorded(m) == Matches(entries, m.entries, pstate # "desc")

Clock(m) == Minutes(tm) = m.time /\ tm.day = m.time \div 1440

\* The description that is written in front of a line.
Above(m) ==
    IF m.place = "desc"
    THEN (CHOOSE d \in m.entries[Len(m.entries)].desc : TRUE) \o m.white
    ELSE <<>>

LevelsAre(l) == /\ indent1 = IF l > 0 THEN Width1 ELSE 0
                /\ indent2 = IF l > 1 THEN Width2 ELSE 0

\* The parser is in line i, which is in its place.
InLine(f, i) ==
    /\ i \in 1..f.n
    /\ f.mean[i].verdict = "OK"
    /\ PlaceAfter(f.mean[i].place, f.lines[i]) # "misplaced"
    /\ i = f.n => meaning.verdict = "ERR_SYNTAX"

\* It has taken k characters of the line, and may have the next in hand.
Stream(f, i, k) ==
    /\ InLine(f, i) /\ Recorded(f.mean[i])
    /\ k \in 0..Width(f, i)
    /\ ~cacheDeindent
    /\ LevelsAre(Level(pstate))
    /\ IF pending
       THEN /\ at = f.start[i] + k + 1 /\ at <= Len(source)
            /\ token = CharToken(source[at])
            /\ cacheParseindent <=> token = "NEWLINE"
       ELSE at = f.start[i] + k /\ ~cacheParseindent

InDate(f, i, k) ==
    LET line == f.lines[i]
        m == f.mean[i]
        y == Year(m, line)
        mo == Digits(line.month)
        da == Digits(line.mday)
    IN  /\ line.kind = "date"
        /\ \/ /\ pstate = "days" /\ k < Width(f, i)
              /\ k = IF m.place = "desc" THEN 1 ELSE 0
           \/ /\ pstate = "year" /\ k \in {1, 2}
              /\ numbers = <<Part(y, k)>>
              /\ m.place = "desc" => k = 2
           \/ pstate = "month0" /\ k = 3 /\ numbers = <<y>>
           \/ /\ pstate = "month" /\ k \in 4..(3 + mo)
              /\ numbers = <<y, Part(line.month, k - 3)>>
           \/ pstate = "mday0" /\ k = 4 + mo /\ numbers = <<y, line.month>>
           \/ /\ pstate = "mday" /\ k \in (5 + mo)..(4 + mo + da)
              /\ numbers = <<y, line.month, Part(line.mday, k - 4 - mo)>>
           \/ /\ pstate = "padding" /\ k >= 4 + mo + da
              /\ tm = [day |-> DayNumber(y, line.month, line.mday),
                       hour |-> 0, min |-> 0]

\* Where the time of a work ends, and what tm is then.
TimeEnd(line) == Width1 + Digits(line.hour) + 1 + Digits(line.min)

TimeIs(m, line) == [day |-> m.time \div 1440, hour |-> line.hour,
                    min |-> line.min]

InWork(f, i, k) ==
    LET line == f.lines[i]
        m == f.mean[i]
        ho == Digits(line.hour)
        end == TimeEnd(line)
        timed == tm = TimeIs(m, line)
    IN  /\ line.kind = "work"
        /\ \/ /\ pstate = "hour" /\ k \in (Width1 + 1)..(Width1 + ho)
              /\ numbers = <<Part(line.hour, k - Width1)>> /\ Clock(m)
           \/ /\ pstate = "minute0" /\ k = Width1 + ho + 1
              /\ numbers = <<line.hour>> /\ Clock(m)
           \/ /\ pstate = "minute" /\ k \in (Width1 + ho + 2)..end
              /\ numbers = <<line.hour, Part(line.min, k - Width1 - ho - 1)>>
              /\ Clock(m)
           \/ pstate = "timed" /\ k = end /\ timed
           \/ pstate = "work" /\ k = end + 1 /\ timed
           \/ /\ pstate = "worktext" /\ k > end + 1 /\ timed
              /\ Cached(<<>>, W(f, i), end + 1, k)

InTask(f, i, k) ==
    LET line == f.lines[i]
        end == Width1 + 1 + Digits(line.id)
    IN  /\ line.kind = "task"
        /\ Clock(f.mean[i])
        /\ \/ pstate = "id0" /\ k = Width1 + 1
           \/ /\ pstate = "id" /\ k \in (Width1 + 2)..end
              /\ numbers = <<Part(line.id, k - Width1 - 1)>>
           \/ pstate = "task" /\ k = end + 1 /\ numbers = <<line.id>>
           \/ /\ pstate = "tasktext" /\ k > end + 1 /\ numbers = <<line.id>>
              /\ Cached(<<>>, W(f, i), end + 1, k)

InDesc(f, i, k) ==
    LET m == f.mean[i]
        p == Width1 + Width2
    IN  /\ f.lines[i].kind = "desc"
        /\ Clock(m)
        /\ \/ /\ pstate = "desc0" /\ m.place = "body"
              /\ k = p /\ k < Width(f, i)
           \/ /\ pstate = "desc" /\ k >= p
              /\ k = p => pending /\ m.place = "desc" /\ k < Width(f, i)
              /\ Cached(Above(m), W(f, i), p, k)

\* The first token of a line, when it opens and closes no level.
InEmpty(f, i, k) ==
    LET m == f.mean[i]
    IN  /\ f.lines[i].kind = "empty" /\ k = 0 /\ pending /\ Clock(m)
        /\ \/ pstate = "emptylines" /\ m.place = "dated"
           \/ pstate = "items" /\ m.place \in {"items", "body"}
           \/ pstate = "body" /\ m.place = "body"
           \/ pstate = "desc" /\ m.place = "desc" /\ CacheIs(Above(m))

InItem(f, i, k) ==
    LET m == f.mean[i]
    IN  /\ f.lines[i].kind \in {"work", "task"} /\ k = Width1
        /\ k < Width(f, i) /\ Clock(m)
        /\ \/ pstate = "items"
           \/ pstate = "body" /\ pending /\ m.place = "body"

Reading(f, i, k) == /\ Stream(f, i, k)
                    /\ \/ InDate(f, i, k) \/ InWork(f, i, k)
                       \/ InTask(f, i, k) \/ InDesc(f, i, k)
                       \/ InEmpty(f, i, k) \/ InItem(f, i, k)

StateAt == [top |-> "days", dated |-> "emptylines", items |-> "items",
            body |-> "body", desc |-> "desc"]

AtStart(f, i) ==
    LET m == f.mean[i]
    IN  /\ i \in 1..f.n
        /\ m.verdict = "OK"
        /\ ~pending /\ ~cacheDeindent /\ (cacheParseindent <=> i # 1)
        /\ at = f.start[i]
        /\ pstate = StateAt[m.place]
        /\ LevelsAre(Level(pstate))
        /\ Clock(m) /\ Recorded(m)
        /\ m.place = "desc" => CacheIs(Above(m))

\* The parser is behind k characters of line i, some of them left.
Behind(f, i, k) == at = f.start[i] + k /\ k < Width(f, i)

\* The first token of a line, when it does open or close a level.
Leading(f, i) ==
    LET m == f.mean[i]
        kind == f.lines[i].kind
    IN  /\ InLine(f, i) /\ Recorded(m)
        /\ ~cacheParseindent
        /\ Clock(m)
        /\ \/ /\ pending /\ token = "INDENT" /\ pstate = "emptylines"
              /\ m.place = "dated" /\ kind \in {"work", "task"}
              /\ Behind(f, i, Width1) /\ LevelsAre(1) /\ ~cacheDeindent
           \/ /\ pending /\ token = "DEINDENT" /\ pstate \in {"items", "body"}
              /\ m.place \in {"items", "body"} /\ kind = "date"
              /\ Behind(f, i, 0) /\ LevelsAre(0) /\ ~cacheDeindent
           \/ /\ pending /\ token = "DEINDENT" /\ pstate = "desc"
              /\ m.place = "desc" /\ kind = "date" /\ CacheIs(Above(m))
              /\ Behind(f, i, 0) /\ Width(f, i) > 1
              /\ LevelsAre(0) /\ cacheDeindent
           \/ /\ pending /\ token = "DEINDENT" /\ pstate = "desc"
              /\ m.place = "desc" /\ kind \in {"work", "task"}
              /\ CacheIs(Above(m))
              /\ Behind(f, i, Width1) /\ LevelsAre(1) /\ ~cacheDeindent
           \/ /\ pending /\ token = "INDENT" /\ pstate = "body"
              /\ m.place = "body" /\ kind = "desc"
              /\ Behind(f, i, Width1 + Width2) /\ LevelsAre(2)
              /\ ~cacheDeindent
           \/ /\ ~pending /\ pstate = "items" /\ m.place = "desc"
              /\ kind = "date" /\ Behind(f, i, 0) /\ Width(f, i) > 1
              /\ LevelsAre(0) /\ cacheDeindent
           \/ /\ pending /\ token = "DEINDENT" /\ pstate = "items"
              /\ m.place = "desc" /\ kind = "date" /\ Behind(f, i, 1)
              /\ LevelsAre(0) /\ ~cacheDeindent

\* All lines are read and the file may end here.
Ending(f) ==
    LET m == f.mean[f.n]
        AtEnd == at = Len(source) /\ ~cacheDeindent
    IN  /\ meaning.verdict = "OK" /\ m.verdict = "OK"
        /\ Recorded(m)
        /\ ~cacheParseindent
        /\ \/ /\ pending /\ token = "INDENT" /\ pstate = "emptylines"
              /\ AtEnd /\ indent1 # 0 /\ indent2 = 0
           \/ /\ ~pending /\ pstate = "items"
              /\ AtEnd /\ indent1 # 0 /\ indent2 = 0
           \/ /\ pending /\ token = "DEINDENT" /\ pstate \in {"items", "body"}
              /\ AtEnd /\ LevelsAre(0)
           \/ ~pending /\ pstate = "days" /\ AtEnd /\ LevelsAre(0)
           \/ pending /\ token = "END" /\ pstate = "days"
           \/ /\ pending /\ token = "DEINDENT" /\ pstate = "desc"
              /\ m.place = "desc" /\ CacheIs(Above(m))
              /\ \/ AtEnd /\ LevelsAre(1)
                 \/ /\ cacheDeindent /\ at \in {Len(source) - 1, Len(source)}
                    /\ LevelsAre(0)
           \/ /\ ~pending /\ pstate = "items" /\ cacheDeindent
              /\ at \in {Len(source) - 1, Len(source)} /\ LevelsAre(0)

\* The file is refused as soon as the parser looks at its token.
Doomed ==
    /\ meaning.verdict = "ERR_SYNTAX"
    /\ \/ pending /\ ~Expected
       \/ pending /\ token = "END" /\ pstate \in {"mday", "minute", "body"}
       \/ pending /\ token = "DEINDENT" /\ pstate = "minute"
       \/ /\ IF pending THEN token = "INDENT" /\ pstate = "emptylines"
             ELSE pstate = "items"
          /\ ~cacheParseindent /\ ~cacheDeindent
          /\ at < Len(source) /\ Class(source[at + 1]) = "text"
          /\ source[at + 1] \notin Digit \union {"#"}
       \/ /\ at = Len(source) /\ ~cacheParseindent
          /\ \/ /\ IF pending THEN token = "INDENT" /\ pstate = "body"
                   ELSE pstate = "desc0"
                /\ ~cacheDeindent /\ indent2 # 0
             \/ /\ IF pending THEN token = "DEINDENT" /\ pstate = "desc"
                   ELSE pstate = "items"
                /\ cacheDeindent /\ indent1 # 0 /\ indent2 = 0
             \/ /\ IF pending THEN token = "DEINDENT" /\ pstate = "items"
                   ELSE pstate = "days"
                /\ ~cacheDeindent /\ indent1 # 0 /\ indent2 = 0

Sound(f) == \/ \E i \in 1..f.n : AtStart(f, i) \/ Leading(f, i)
            \/ \E i \in 1..f.n : \E k \in 0..Width(f, i) : Reading(f, i, k)
            \/ Ending(f)

Live(f) == Sound(f) \/ Doomed

\* What a step of the parser may come to.
Outcome(f) == \/ ret' = "none" /\ Sound(f)'
              \/ UNCHANGED <<entries, ret>> /\ Doomed'
              \/ UNCHANGED entries /\ ret' = meaning.verdict /\ ret' # "OK"

\* Where the parser is in the course of it.
Going(f) == Holding /\ IsFile(f, source, meaning) /\ UNCHANGED meaning

----------------------------------------------------------------------------
LEMMA Lines ==
    ASSUME NEW f, Going(f), NEW i \in 1..f.n
    PROVE  /\ LineIn(f, i, source, meaning) /\ IsLine(f.lines[i])
           /\ MeaningOK(f.mean[i]) /\ f.start[i] \in Nat
           /\ W(f, i) \in Seq(Plain) /\ Len(W(f, i)) \in Nat
           /\ Width(f, i) \in Nat /\ Width(f, i) <= Len(W(f, i))
           /\ f.n \in Nat
           /\ i < f.n => Width(f, i) = Len(W(f, i)) /\ i + 1 \in 1..f.n
           /\ i = f.n => /\ f.start[i] + Width(f, i) = Len(source)
                         /\ Width(f, i) = f.cut
<1>1. LineIn(f, i, source, meaning) /\ f.n \in Nat \ {0}
      /\ Len(source) = f.start[f.n] + f.cut
  BY DEF Going, IsFile
<1>2. IsLine(f.lines[i]) /\ MeaningOK(f.mean[i]) /\ f.start[i] \in Nat
      /\ Width(f, i) \in 0..Len(W(f, i))
  BY <1>1 DEF LineIn
<1>3. W(f, i) \in Seq(Plain) /\ Len(W(f, i)) \in Nat
  BY <1>2, LineTyped DEF W
<1>4. i < f.n => Width(f, i) = Len(W(f, i)) /\ i + 1 \in 1..f.n
  BY <1>1 DEF Width
<1>5. i = f.n => Width(f, i) = f.cut
  BY <1>1 DEF Width
<1>. QED
  BY <1>1, <1>2, <1>3, <1>4, <1>5

\* The levels of the states.
LEMMA LevelIs ==
    /\ \A s \in {"desc0", "desc"} : Level(s) = 2
    /\ \A s \in {"items", "hour", "minute0", "minute", "timed", "work",
                 "worktext", "id0", "id", "task", "tasktext", "body"} :
          Level(s) = 1
    /\ \A s \in {"days", "year", "month0", "month", "mday0", "mday",
                 "padding", "emptylines"} : Level(s) = 0
BY DEF Level

\* The token in hand inside of a line.
Ahead1(f, i, k) ==
    /\ KindIs(Kind, Ch) /\ Ch \in Character
    /\ k < Width(f, i) => Ch = W(f, i)[k + 1] /\ Ch # "\n"
    /\ k = Width(f, i) => Ch = "\n" /\ i < f.n /\ k = Len(W(f, i))

LEMMA StreamToken ==
    ASSUME NEW f, Going(f), NEW i, NEW k, Stream(f, i, k), pending
    PROVE  Ahead1(f, i, k)
<1>1. i \in 1..f.n /\ k \in Nat /\ k <= Width(f, i)
  <2>1. i \in 1..f.n /\ k \in 0..Width(f, i)
    BY DEF Stream, InLine
  <2>. QED
    BY <2>1, Lines
<1>2. /\ at = f.start[i] + k + 1 /\ at <= Len(source)
      /\ token = CharToken(Ch)
  BY DEF Stream, Ch
<1>3. KindIs(Kind, Ch)
  BY <1>2, KindFor
<1>4. Ch \in Character
  <2>1. at \in 1..Len(source)
    BY <1>1, <1>2, Lines, LexerTyped DEF Going
  <2>2. source \in Seq(Character)
    BY DEF Going, Holding, CacheInv, InSource
  <2>. QED
    BY <2>1, <2>2, ElementOfSeq DEF Ch
<1>5. ASSUME k < Width(f, i)
      PROVE  Ch = W(f, i)[k + 1] /\ Ch # "\n"
  <2>1. k + 1 \in 1..Width(f, i)
    BY <1>1, <1>5, Lines
  <2>2. source[f.start[i] + (k + 1)] = W(f, i)[k + 1]
    <3>1. \A j \in 1..Width(f, i) : source[f.start[i] + j] = W(f, i)[j]
      BY <1>1, Lines DEF LineIn
    <3>. QED
      BY <2>1, <3>1
  <2>3. f.start[i] + (k + 1) = at
    <3>1. f.start[i] \in Nat
      BY <1>1, Lines
    <3>. QED
      BY <1>1, <1>2, <3>1
  <2>4. W(f, i)[k + 1] \in Plain
    BY <1>1, <2>1, Lines, ElementOfSeq
  <2>. QED
    BY <2>2, <2>3, <2>4 DEF Ch, Plain
<1>6. ASSUME k = Width(f, i)
      PROVE  Ch = "\n" /\ i < f.n /\ k = Len(W(f, i))
  <2>1. i < f.n
    BY <1>1, <1>2, <1>6, Lines
  <2>2. k = Len(W(f, i))
    BY <1>1, <1>6, <2>1, Lines
  <2>3. f.start[i + 1] = f.start[i] + Len(W(f, i)) + 1
        /\ source[f.start[i + 1]] = "\n"
    BY <1>1, <2>1, Lines DEF LineIn
  <2>. QED
    BY <1>2, <2>1, <2>2, <2>3 DEF Ch
<1>. QED
  BY <1>3, <1>4, <1>5, <1>6 DEF Ahead1

----------------------------------------------------------------------------
(* Steps inside of a line.                                                  *)

LEMMA RecordedKept ==
    ASSUME NEW m, Recorded(m), UNCHANGED entries,
           pstate # "desc" \/ pstate' = "desc"
    PROVE  Recorded(m)'
BY DEF Recorded, Matches

LEMMA InLineKept ==
    ASSUME NEW f, NEW i, InLine(f, i), UNCHANGED meaning
    PROVE  InLine(f, i)'
BY DEF InLine

\* The token is taken as a character of the line.
LEMMA StreamTaken ==
    ASSUME NEW f, Going(f), NEW i, NEW k, Stream(f, i, k), pending,
           k < Width(f, i), Consume, UNCHANGED entries,
           Level(pstate') = Level(pstate),
           pstate # "desc" \/ pstate' = "desc"
    PROVE  Stream(f, i, k + 1)' /\ k + 1 <= Width(f, i)
<1>1. InLine(f, i)' /\ Recorded(f.mean[i])' /\ i \in 1..f.n
  BY InLineKept, RecordedKept DEF Stream, Going, InLine
<1>2. Ahead1(f, i, k)
  BY StreamToken
<1>3. Width(f, i) \in Nat /\ f.start[i] \in Nat
  BY <1>1, Lines
<1>4. k + 1 \in 0..Width(f, i) /\ k \in Nat
  BY <1>3 DEF Stream
<1>5. at' = f.start[i] + (k + 1) /\ ~pending'
  BY <1>3, <1>4 DEF Stream, Consume, lexer
<1>6. ~cacheParseindent'
  <2>1. token # "NEWLINE"
    BY <1>2, Classified DEF Ahead1, Stream, Ch
  <2>. QED
    BY <2>1 DEF Stream, Consume, lexer
<1>7. ~cacheDeindent' /\ LevelsAre(Level(pstate))'
  BY DEF Stream, Consume, lexer, LevelsAre
<1>. QED
  BY <1>1, <1>4, <1>5, <1>6, <1>7 DEF Stream

\* The token is left to the next production.
LEMMA StreamLeft ==
    ASSUME NEW f, Going(f), NEW i, NEW k, Stream(f, i, k), pending,
           UNCHANGED <<source, lexer, pending, entries>>,
           Level(pstate') = Level(pstate),
           pstate # "desc" \/ pstate' = "desc"
    PROVE  Stream(f, i, k)'
<1>1. InLine(f, i)' /\ Recorded(f.mean[i])' /\ i \in 1..f.n
  BY InLineKept, RecordedKept DEF Stream, Going, InLine
<1>2. ~cacheDeindent' /\ LevelsAre(Level(pstate))'
  BY DEF Stream, lexer, LevelsAre
<1>3. /\ pending' /\ at' = f.start[i] + k + 1 /\ at' <= Len(source')
      /\ token' = CharToken(source'[at'])
      /\ cacheParseindent' <=> token' = "NEWLINE"
  BY DEF Stream, lexer
<1>. QED
  BY <1>1, <1>2, <1>3 DEF Stream

LEMMA InReading ==
    ASSUME NEW f, NEW i, NEW k, Reading(f, i, k)'
    PROVE  Sound(f)'
BY DEF Reading, Stream, InLine, Sound

LEMMA InLeading ==
    ASSUME NEW f, NEW i, Leading(f, i)'
    PROVE  Sound(f)'
BY DEF Leading, InLine, Sound

\* The newline is taken, and with it the line.
LEMMA NextLine ==
    ASSUME NEW f, Going(f), NEW i, NEW k, Stream(f, i, k), pending,
           k = Width(f, i), Consume,
           Level(pstate') = Level(pstate),
           NEW m, m = MeaningAfter(f.mean[i], f.lines[i]),
           m.verdict = "OK", pstate' = StateAt[m.place],
           Clock(m)', Recorded(m)',
           m.place = "desc" => CacheIs(Above(m))'
    PROVE  Sound(f)'
<1>1. i \in 1..f.n /\ k \in Nat
  <2>1. i \in 1..f.n /\ k \in 0..Width(f, i)
    BY DEF Stream, InLine
  <2>. QED
    BY <2>1, Lines
<1>2. Ahead1(f, i, k)
  BY StreamToken
<1>3. i < f.n /\ k = Len(W(f, i)) /\ i + 1 \in 1..f.n /\ i + 1 # 1
  BY <1>1, <1>2, Lines DEF Ahead1
<1>4. /\ f.start[i + 1] = f.start[i] + Len(W(f, i)) + 1
      /\ f.mean[i + 1] = m
  BY <1>1, <1>3, Lines DEF LineIn
<1>5. at' = f.start[i + 1] /\ ~pending'
  BY <1>3, <1>4 DEF Stream, Consume, lexer
<1>6. cacheParseindent'
  <2>1. token = "NEWLINE"
    BY <1>2, <1>3, Classified DEF Ahead1, Stream, Ch
  <2>. QED
    BY <2>1 DEF Stream, Consume, lexer
<1>7. ~cacheDeindent' /\ LevelsAre(Level(pstate))'
  BY DEF Stream, Consume, lexer, LevelsAre
<1>8. AtStart(f, i + 1)'
  BY <1>3, <1>4, <1>5, <1>6, <1>7 DEF AtStart
<1>. QED
  BY <1>3, <1>8 DEF Sound

\* The digits of a number, of which j are taken.
Digit1(f, i, k, n, j) ==
    /\ k < Width(f, i) /\ Kind = "DIGIT" /\ Ch \in Digit
    /\ Value[Ch] \in 0..9
    /\ j = 0 => Part(n, 1) = Value[Ch]
    /\ j = 1 => Part(n, 2) = Part(n, 1) * 10 + Value[Ch]

LEMMA NumberRead ==
    ASSUME NEW n \in 0..99, NEW p \in Nat, NEW w, NumberAt(n, p, w)
    PROVE  /\ Digits(n) \in {1, 2} /\ Part(n, Digits(n)) = n
           /\ Part(n, 1) = Value[w[p + 1]]
           /\ Digits(n) = 2 => Part(n, 2) = Part(n, 1) * 10 + Value[w[p + 2]]
<1>1. CASE n < 10
  <2>1. Digits(n) = 1 /\ Part(n, 1) = n
    BY <1>1 DEF Digits, Part
  <2>2. Value[w[p + 1]] = n % 10
    BY <2>1 DEF NumberAt
  <2>. QED
    BY <1>1, <2>1, <2>2
<1>2. CASE ~(n < 10)
  <2>1. Digits(n) = 2 /\ Part(n, 1) = n \div 10 /\ Part(n, 2) = n
    BY <1>2 DEF Digits, Part
  <2>2. Value[w[p + 1]] = n \div 10 /\ Value[w[p + 2]] = n % 10
    BY <2>1 DEF NumberAt
  <2>. QED
    BY <1>2, <2>1, <2>2
<1>. QED
  BY <1>1, <1>2

LEMMA DigitValues == \A d \in Digit : Value[d] \in 0..9
BY DigitTyped, CharTyped DEF Digit, Value

LEMMA DigitAhead ==
    ASSUME NEW f, Going(f), NEW i, NEW k, Stream(f, i, k), pending,
           NEW n \in 0..99, NEW p \in Nat, NumberAt(n, p, W(f, i)),
           NEW j \in {0, 1}, j < Digits(n), k = p + j
    PROVE  Digit1(f, i, k, n, j)
<1>1. i \in 1..f.n
  BY DEF Stream, InLine
<1>2. Ahead1(f, i, k)
  BY StreamToken
<1>3. Digits(n) \in {1, 2}
  BY NumberRead
<1>4. k < Len(W(f, i)) /\ Len(W(f, i)) \in Nat
  BY <1>1, <1>3, Lines DEF NumberAt
<1>5. k < Width(f, i)
  <2>1. k \in 0..Width(f, i) /\ Width(f, i) \in Nat
    BY <1>1, Lines DEF Stream
  <2>2. k # Width(f, i)
    BY <1>2, <1>4 DEF Ahead1
  <2>. QED
    BY <2>1, <2>2
<1>6. Ch = W(f, i)[p + j + 1]
  BY <1>2, <1>5 DEF Ahead1
<1>7. Ch \in Digit
  <2>1. j + 1 \in 1..Digits(n)
    BY <1>3
  <2>2. W(f, i)[p + (j + 1)] \in Digit
    BY <2>1 DEF NumberAt
  <2>3. p + (j + 1) = p + j + 1
    OBVIOUS
  <2>. QED
    BY <1>6, <2>2, <2>3
<1>8. Kind = "DIGIT" /\ Value[Ch] \in 0..9
  BY <1>2, <1>7, DigitValues DEF Ahead1, KindIs
<1>9. j = 0 => Part(n, 1) = Value[Ch]
  <2>. HAVE j = 0
  <2>1. p + j + 1 = p + 1
    OBVIOUS
  <2>2. Part(n, 1) = Value[W(f, i)[p + 1]]
    BY NumberRead
  <2>. QED
    BY <1>6, <2>1, <2>2
<1>10. j = 1 => Part(n, 2) = Part(n, 1) * 10 + Value[Ch]
  <2>. HAVE j = 1
  <2>1. Digits(n) = 2 /\ p + j + 1 = p + 2
    BY <1>3
  <2>2. Part(n, 2) = Part(n, 1) * 10 + Value[W(f, i)[p + 2]]
    BY <2>1, NumberRead
  <2>. QED
    BY <1>6, <2>1, <2>2
<1>. QED
  BY <1>5, <1>7, <1>8, <1>9, <1>10 DEF Digit1

LEMMA TakesChar ==
    ASSUME NEW f, Going(f), Turn, NEW i, NEW k, Stream(f, i, k), ret' = "none",
           k < Width(f, i), Consume, UNCHANGED entries,
           Level(pstate') = Level(pstate),
           pstate # "desc" \/ pstate' = "desc",
           \/ InDate(f, i, k + 1)' \/ InWork(f, i, k + 1)'
           \/ InTask(f, i, k + 1)' \/ InDesc(f, i, k + 1)'
    PROVE  Outcome(f)
<1>1. Stream(f, i, k + 1)'
  BY StreamTaken DEF Turn
<1>2. Reading(f, i, k + 1)'
  BY <1>1 DEF Reading
<1>. QED
  BY <1>2, InReading DEF Outcome

LEMMA LeavesChar ==
    ASSUME NEW f, Going(f), Turn, NEW i, NEW k, Stream(f, i, k), ret' = "none",
           UNCHANGED <<source, lexer, pending, entries>>,
           Level(pstate') = Level(pstate),
           pstate # "desc" \/ pstate' = "desc",
           \/ InDate(f, i, k)' \/ InWork(f, i, k)' \/ InEmpty(f, i, k)'
           \/ InItem(f, i, k)'
    PROVE  Outcome(f)
<1>1. Stream(f, i, k)'
  BY StreamLeft DEF Turn
<1>2. Reading(f, i, k)'
  BY <1>1 DEF Reading
<1>. QED
  BY <1>2, InReading DEF Outcome

\* Where the parser is, as a matter of types.
LEMMA StreamTyped ==
    ASSUME NEW f, Going(f), NEW i, NEW k, Stream(f, i, k)
    PROVE  /\ i \in 1..f.n /\ k \in Nat /\ k <= Width(f, i)
           /\ Width(f, i) \in Nat /\ f.start[i] \in Nat
           /\ MeaningOK(f.mean[i]) /\ f.mean[i].verdict = "OK"
           /\ PlaceAfter(f.mean[i].place, f.lines[i]) # "misplaced"
<1>1. /\ i \in 1..f.n /\ k \in 0..Width(f, i) /\ f.mean[i].verdict = "OK"
      /\ PlaceAfter(f.mean[i].place, f.lines[i]) # "misplaced"
  BY DEF Stream, InLine
<1>. QED
  BY <1>1, Lines

\* Numbers that grow.
LEMMA NumbersGrow ==
    ASSUME NEW v \in Nat
    PROVE  /\ Append(<<>>, v) = <<v>>
           /\ \A a \in Nat : Append(<<a>>, v) = <<a, v>>
           /\ \A a, b \in Nat : Append(<<a, b>>, v) = <<a, b, v>>
           /\ \A a \in Nat : [<<a>> EXCEPT ![Len(<<a>>)] = @ * 10 + v]
                                = <<a * 10 + v>>
           /\ \A a, b \in Nat :
                 [<<a, b>> EXCEPT ![Len(<<a, b>>)] = @ * 10 + v]
                    = <<a, b * 10 + v>>
           /\ \A a, b, d \in Nat :
                 [<<a, b, d>> EXCEPT ![Len(<<a, b, d>>)] = @ * 10 + v]
                    = <<a, b, d * 10 + v>>
<1>1. Append(<<>>, v) = <<v>>
  OBVIOUS
<1>5. ASSUME NEW a \in Nat
      PROVE  Append(<<a>>, v) = <<a, v>>
  <2>1. <<a>> \in Seq(Nat) /\ <<a, v>> \in Seq(Nat)
    OBVIOUS
  <2>2. /\ Append(<<a>>, v) \in Seq(Nat) /\ Len(Append(<<a>>, v)) = 2
        /\ Append(<<a>>, v)[1] = a /\ Append(<<a>>, v)[2] = v
    BY <2>1, AppendProperties
  <2>3. Len(<<a, v>>) = 2
    OBVIOUS
  <2>4. \A j \in 1..2 : Append(<<a>>, v)[j] = <<a, v>>[j]
    <3>1. \A j \in 1..2 : j = 1 \/ j = 2
      OBVIOUS
    <3>. QED
      BY <2>2, <3>1
  <2>. QED
    BY <2>1, <2>2, <2>3, <2>4, SeqEqual
<1>6. ASSUME NEW a \in Nat, NEW b \in Nat
      PROVE  Append(<<a, b>>, v) = <<a, b, v>>
  <2>1. <<a, b>> \in Seq(Nat) /\ <<a, b, v>> \in Seq(Nat)
    OBVIOUS
  <2>2. /\ Append(<<a, b>>, v) \in Seq(Nat) /\ Len(Append(<<a, b>>, v)) = 3
        /\ Append(<<a, b>>, v)[1] = a /\ Append(<<a, b>>, v)[2] = b
        /\ Append(<<a, b>>, v)[3] = v
    BY <2>1, AppendProperties
  <2>3. Len(<<a, b, v>>) = 3
    OBVIOUS
  <2>4. \A j \in 1..3 : Append(<<a, b>>, v)[j] = <<a, b, v>>[j]
    <3>1. \A j \in 1..3 : j = 1 \/ j = 2 \/ j = 3
      OBVIOUS
    <3>. QED
      BY <2>2, <3>1
  <2>. QED
    BY <2>1, <2>2, <2>3, <2>4, SeqEqual
<1>2. \A a \in Nat : [<<a>> EXCEPT ![Len(<<a>>)] = @ * 10 + v]
                          = <<a * 10 + v>>
  OBVIOUS
<1>3. \A a, b \in Nat :
         [<<a, b>> EXCEPT ![Len(<<a, b>>)] = @ * 10 + v]
            = <<a, b * 10 + v>>
  OBVIOUS
<1>4. \A a, b, d \in Nat :
         [<<a, b, d>> EXCEPT ![Len(<<a, b, d>>)] = @ * 10 + v]
            = <<a, b, d * 10 + v>>
  OBVIOUS
<1>. QED
  BY <1>1, <1>2, <1>3, <1>4, <1>5, <1>6

LEMMA PartTyped ==
    ASSUME NEW n \in 0..99, NEW j
    PROVE  Part(n, j) \in Nat
BY DEF Part

\* The year as it is read.
LEMMA YearRead ==
    ASSUME NEW line, line.year \in 10..99, NEW m
    PROVE  LET y == Year(m, line)
           IN  /\ y \in 0..99 /\ Part(y, 2) = y /\ Digits(line.year) = 2
               /\ Part(line.year, 1) = line.year \div 10
               /\ Part(line.year, 2) = line.year
               /\ m.place # "desc" => y = line.year
               /\ m.place = "desc" => y = line.year % 10
<1> DEFINE y == Year(m, line)
<1>1. y \in 0..99
  BY DEF Year
<1>2. Part(y, 2) = y /\ Digits(line.year) = 2
  BY <1>1 DEF Digits, Part
<1>. QED
  BY <1>1, <1>2 DEF Digits, Part, Year

\* The digits a line begins with.
LEMMA FirstDigits ==
    ASSUME NEW f, Going(f), NEW i, NEW k, Stream(f, i, k), pending,
           NEW n \in 0..99, NumberAt(n, 0, W(f, i)),
           k \in {0, 1}, k < Digits(n)
    PROVE  Digit1(f, i, k, n, k)
<1>1. k = 0 + k /\ 0 \in Nat
  OBVIOUS
<1>. QED
  BY <1>1, DigitAhead

----------------------------------------------------------------------------
(* The token in the line of a date.                                         *)

LEMMA DateTurn ==
    ASSUME NEW f, Going(f), Turn, NEW i, NEW k, Stream(f, i, k),
           InDate(f, i, k)
    PROVE  Outcome(f)
<1> DEFINE line == f.lines[i]
           m == f.mean[i]
           w == W(f, i)
           y == Year(m, line)
           mo == Digits(line.month)
           da == Digits(line.mday)
<1>1. /\ i \in 1..f.n /\ k \in Nat /\ k <= Width(f, i) /\ Width(f, i) \in Nat
      /\ MeaningOK(m) /\ m.verdict = "OK"
      /\ PlaceAfter(m.place, line) # "misplaced"
      /\ Len(w) \in Nat /\ Width(f, i) <= Len(w) /\ IsLine(line)
  BY StreamTyped, Lines
<1>2. pending /\ ret = "none" /\ line.kind = "date"
  BY DEF Turn, InDate
<1>3. /\ line.year \in 10..99 /\ line.month \in 0..99 /\ line.mday \in 0..99
      /\ line.trail \in Nat /\ mo \in {1, 2} /\ da \in {1, 2}
      /\ Len(w) = 4 + mo + da + line.trail
      /\ NumberAt(line.year, 0, w) /\ w[3] = "-"
      /\ NumberAt(line.month, 3, w) /\ w[4 + mo] = "-"
      /\ NumberAt(line.mday, 4 + mo, w) /\ BlankFrom(4 + mo + da, w)
  BY <1>1, <1>2, DateColumns DEF W
<1>4. /\ y \in 0..99 /\ Part(y, 2) = y /\ Digits(line.year) = 2
      /\ Part(line.year, 1) = line.year \div 10
      /\ Part(line.year, 2) = line.year
      /\ m.place # "desc" => y = line.year
      /\ m.place = "desc" => y = line.year % 10
  BY <1>3, YearRead
<1>5. /\ Part(line.month, mo) = line.month /\ Part(line.mday, da) = line.mday
  <2>1. 3 \in Nat /\ 4 + mo \in Nat
    BY <1>3
  <2>2. Part(line.month, Digits(line.month)) = line.month
    BY <1>3, <2>1, NumberRead
  <2>3. Part(line.mday, Digits(line.mday)) = line.mday
    BY <1>3, <2>1, NumberRead
  <2>. QED
    BY <2>2, <2>3
<1>6. Ahead1(f, i, k)
  BY <1>2, StreamToken
<1>a. \A s \in {"days", "year", "month0", "month", "mday0", "mday",
                "padding"} : Level(s) = 0
  BY LevelIs
<1>b. DOMAIN Number = NumberStates /\ Numbers = DigitStates
  BY NumberSets
<1>e. line.year \in 0..99
  BY <1>3
<1> HIDE DEF line, m, w, y, mo, da
<1>g. line.year \in 0..99 /\ line.month \in 0..99 /\ line.mday \in 0..99
  BY <1>3
<1>h. y \in 0..99
  BY <1>4
<1>c. y \in Nat /\ line.year \in Nat /\ line.month \in Nat /\ line.mday \in Nat
  BY <1>g, <1>h
<1>d. Part(line.month, 1) \in Nat /\ Part(line.mday, 1) \in Nat
  BY <1>g, PartTyped
<1>f. k < Width(f, i) \/ k = Width(f, i)
  BY <1>1
<1>7. CASE pstate = "days"
  <2>1. k < Width(f, i) /\ k = IF m.place = "desc" THEN 1 ELSE 0
    BY <1>7 DEF InDate, line, m
  <2>2. k \in {0, 1} /\ k < Digits(line.year)
    BY <1>4, <2>1
  <2>3. Digit1(f, i, k, line.year, k)
    BY <1>2, <1>3, <1>e, <2>2, FirstDigits DEF w
  <2>4. FirstDigit
    BY <1>7, <2>3, TurnNumber DEF Digit1, NumberStates
  <2>5. Value[Ch] \in Nat /\ Value[Ch] = Part(y, k + 1)
    <3>1. CASE m.place = "desc"
      <4>1. k = 1
        BY <2>1, <3>1
      <4>2. PICK v \in 0..9 : v = Value[Ch]
        BY <2>3 DEF Digit1
      <4>3. line.year = (line.year \div 10) * 10 + v
        BY <1>4, <2>3, <4>1, <4>2 DEF Digit1
      <4>4. v = line.year % 10
        BY <1>c, <4>3
      <4>. QED
        BY <1>4, <3>1, <4>1, <4>2, <4>4
    <3>2. CASE m.place # "desc"
      <4>1. k = 0 /\ y = line.year
        BY <1>4, <2>1, <3>2
      <4>. QED
        BY <2>3, <4>1 DEF Digit1
    <3>. QED
      BY <3>1, <3>2
  <2>6. /\ Consume /\ pstate' = "year" /\ UNCHANGED <<entries, ret>>
        /\ numbers' = <<Part(y, k + 1)>>
    BY <1>7, <2>4, <2>5, NumbersGrow DEF FirstDigit, Enter, Number
  <2>7. InDate(f, i, k + 1)'
    <3>1. k + 1 \in {1, 2} /\ (m.place = "desc" => k + 1 = 2)
      BY <2>1
    <3>. QED
      BY <1>2, <2>6, <3>1 DEF InDate, line, m, y
  <2>. QED
    BY <1>2, <1>7, <1>a, <2>1, <2>6, <2>7, TakesChar
<1>8. CASE pstate = "year"
  <2>1. /\ k \in {1, 2} /\ numbers = <<Part(y, k)>>
        /\ m.place = "desc" => k = 2
    BY <1>8 DEF InDate, line, m, y
  <2>2. CASE k = 1
    <3>1. k < Digits(line.year) /\ k \in {0, 1} /\ y = line.year
      BY <1>4, <2>1, <2>2
    <3>2. Digit1(f, i, k, line.year, k)
      BY <1>2, <1>3, <1>e, <3>1, FirstDigits DEF w
    <3>3. NextDigit
      BY <1>8, <3>2, TurnDigit DEF Digit1, DigitStates
    <3>4. /\ Value[Ch] \in Nat /\ Part(y, 1) \in Nat
          /\ Part(y, 2) = Part(y, 1) * 10 + Value[Ch]
      <4>1. Part(y, 1) \in Nat
        BY <1>4, PartTyped
      <4>. QED
        BY <2>2, <3>1, <3>2, <4>1 DEF Digit1
    <3>5. numbers' = <<Part(y, 2)>>
      BY <2>1, <2>2, <3>3, <3>4, NumbersGrow DEF NextDigit
    <3>6. Consume /\ pstate' = "year" /\ UNCHANGED <<entries, ret>>
      BY <1>8, <3>3 DEF NextDigit
    <3>7. InDate(f, i, k + 1)'
      BY <1>2, <2>2, <3>5, <3>6 DEF InDate, line, m, y
    <3>. QED
      BY <1>2, <1>8, <3>2, <3>6, <3>7, TakesChar DEF Digit1
  <2>3. CASE k = 2
    <3>1. k < Width(f, i) /\ Ch = "-"
      BY <1>1, <1>3, <1>6, <2>3 DEF Ahead1, w
    <3>2. Kind = "HYPHEN"
      BY <1>6, <3>1 DEF Ahead1, KindIs
    <3>3. /\ Consume /\ UNCHANGED <<numbers, cache, tm, entries, ret>>
          /\ <<pstate, Kind, pstate'>> \in Shifts
      BY <1>8, <3>2, TurnShift DEF Leads
    <3>4. pstate' = "month0"
      BY <1>8, <3>2, <3>3 DEF Shifts
    <3>5. InDate(f, i, k + 1)'
      BY <1>2, <1>4, <2>1, <2>3, <3>3, <3>4 DEF InDate, line, m, y
    <3>. QED
      BY <1>2, <1>8, <1>a, <3>1, <3>3, <3>4, <3>5, TakesChar
  <2>. QED
    BY <2>1, <2>2, <2>3
<1>9. CASE pstate = "month0"
  <2>1. k = 3 /\ numbers = <<y>>
    BY <1>9 DEF InDate, line, m, y
  <2>2. 0 < Digits(line.month) /\ k = 3 + 0
    BY <1>3, <2>1 DEF mo
  <2>3. Digit1(f, i, k, line.month, 0)
    BY <1>2, <1>3, <2>2, DigitAhead DEF w
  <2>4. FirstDigit
    BY <1>9, <2>3, TurnNumber DEF Digit1, NumberStates
  <2>5. Value[Ch] \in Nat /\ Value[Ch] = Part(line.month, 1) /\ y \in Nat
    BY <1>4, <2>3 DEF Digit1
  <2>6. /\ Consume /\ pstate' = "month" /\ UNCHANGED <<entries, ret>>
        /\ numbers' = <<y, Part(line.month, 1)>>
    BY <1>9, <2>1, <2>4, <2>5, NumbersGrow DEF FirstDigit, Enter, Number
  <2>7. InDate(f, i, k + 1)'
    <3>1. k + 1 \in 4..(3 + mo) /\ (k + 1) - 3 = 1
      BY <1>3, <2>1
    <3>. QED
      BY <1>2, <2>6, <3>1 DEF InDate, line, m, y, mo
  <2>. QED
    BY <1>2, <1>9, <1>a, <2>3, <2>6, <2>7, TakesChar DEF Digit1
<1>10. CASE pstate = "month"
  <2>1. k \in 4..(3 + mo) /\ numbers = <<y, Part(line.month, k - 3)>>
    BY <1>10 DEF InDate, line, m, y, mo
  <2>2. CASE k < 3 + mo
    <3>1. 1 < Digits(line.month) /\ k = 3 + 1 /\ k - 3 = 1
      BY <1>3, <2>1, <2>2 DEF mo
    <3>2. Digit1(f, i, k, line.month, 1)
      BY <1>2, <1>3, <3>1, DigitAhead DEF w
    <3>3. NextDigit
      BY <1>10, <3>2, TurnDigit DEF Digit1, DigitStates
    <3>4. /\ Value[Ch] \in Nat /\ Part(line.month, 1) \in Nat /\ y \in Nat
          /\ Part(line.month, 2) = Part(line.month, 1) * 10 + Value[Ch]
      BY <1>c, <1>d, <3>2 DEF Digit1
    <3>5. numbers' = <<y, Part(line.month, 2)>>
      BY <2>1, <3>1, <3>3, <3>4, NumbersGrow DEF NextDigit
    <3>6. Consume /\ pstate' = "month" /\ UNCHANGED <<entries, ret>>
      BY <1>10, <3>3 DEF NextDigit
    <3>7. InDate(f, i, k + 1)'
      <4>1. k + 1 \in 4..(3 + mo) /\ (k + 1) - 3 = 2
        BY <2>2, <3>1, <1>3
      <4>. QED
        BY <1>2, <3>5, <3>6, <4>1 DEF InDate, line, m, y, mo
    <3>. QED
      BY <1>2, <1>10, <3>2, <3>6, <3>7, TakesChar DEF Digit1
  <2>3. CASE k = 3 + mo
    <3>1. k < Width(f, i) /\ Ch = "-"
      <4>1. k # Len(w) /\ k + 1 = 4 + mo
        BY <1>3, <2>3
      <4>. QED
        BY <1>1, <1>3, <1>6, <4>1 DEF Ahead1, w
    <3>2. Kind = "HYPHEN"
      BY <1>6, <3>1 DEF Ahead1, KindIs
    <3>3. /\ Consume /\ UNCHANGED <<numbers, cache, tm, entries, ret>>
          /\ <<pstate, Kind, pstate'>> \in Shifts
      BY <1>10, <3>2, TurnShift DEF Leads
    <3>4. pstate' = "mday0"
      BY <1>10, <3>2, <3>3 DEF Shifts
    <3>5. InDate(f, i, k + 1)'
      <4>1. k - 3 = mo /\ k + 1 = 4 + mo
        BY <1>3, <2>3
      <4>2. numbers' = <<y, line.month>>
        BY <1>5, <2>1, <3>3, <4>1
      <4>. QED
        BY <1>2, <3>4, <4>1, <4>2 DEF InDate, line, m, y, mo
    <3>. QED
      BY <1>2, <1>10, <1>a, <3>1, <3>3, <3>4, <3>5, TakesChar
  <2>. QED
    BY <1>3, <2>1, <2>2, <2>3
<1>11. CASE pstate = "mday0"
  <2>1. k = 4 + mo /\ numbers = <<y, line.month>>
    BY <1>11 DEF InDate, line, m, y, mo
  <2>2. 0 < Digits(line.mday) /\ k = (4 + mo) + 0 /\ 4 + mo \in Nat
    BY <1>3, <2>1 DEF da
  <2>3. Digit1(f, i, k, line.mday, 0)
    BY <1>2, <1>3, <2>2, DigitAhead DEF w
  <2>4. FirstDigit
    BY <1>11, <2>3, TurnNumber DEF Digit1, NumberStates
  <2>5. /\ Value[Ch] \in Nat /\ Value[Ch] = Part(line.mday, 1)
        /\ y \in Nat /\ line.month \in Nat
    BY <1>c, <2>3 DEF Digit1
  <2>6. /\ Consume /\ pstate' = "mday" /\ UNCHANGED <<entries, ret>>
        /\ numbers' = <<y, line.month, Part(line.mday, 1)>>
    BY <1>11, <2>1, <2>4, <2>5, NumbersGrow DEF FirstDigit, Enter, Number
  <2>7. InDate(f, i, k + 1)'
    <3>1. k + 1 \in (5 + mo)..(4 + mo + da) /\ (k + 1) - 4 - mo = 1
      BY <1>3, <2>1
    <3>. QED
      BY <1>2, <2>6, <3>1 DEF InDate, line, m, y, mo, da
  <2>. QED
    BY <1>2, <1>11, <1>a, <2>3, <2>6, <2>7, TakesChar DEF Digit1
<1>12. CASE pstate = "mday"
  <2>1. /\ k \in (5 + mo)..(4 + mo + da)
        /\ numbers = <<y, line.month, Part(line.mday, k - 4 - mo)>>
    BY <1>12 DEF InDate, line, m, y, mo, da
  <2>2. CASE k < 4 + mo + da
    <3>1. 1 < da /\ k = (4 + mo) + 1 /\ k - 4 - mo = 1 /\ 4 + mo \in Nat
      BY <1>3, <2>1, <2>2
    <3>2. Digit1(f, i, k, line.mday, 1)
      BY <1>2, <1>3, <3>1, DigitAhead DEF w, da
    <3>3. NextDigit
      BY <1>12, <3>2, TurnDigit DEF Digit1, DigitStates
    <3>4. /\ Value[Ch] \in Nat /\ Part(line.mday, 1) \in Nat /\ y \in Nat
          /\ line.month \in Nat
          /\ Part(line.mday, 2) = Part(line.mday, 1) * 10 + Value[Ch]
      BY <1>c, <1>d, <3>2 DEF Digit1
    <3>8. numbers = <<y, line.month, Part(line.mday, 1)>>
      BY <2>1, <3>1
    <3>5. numbers' = <<y, line.month, Part(line.mday, 2)>>
      BY <3>3, <3>4, <3>8, NumbersGrow DEF NextDigit
    <3>6. Consume /\ pstate' = "mday" /\ UNCHANGED <<entries, ret>>
      BY <1>12, <3>3 DEF NextDigit
    <3>7. InDate(f, i, k + 1)'
      <4>1. k + 1 \in (5 + mo)..(4 + mo + da) /\ (k + 1) - 4 - mo = 2
        BY <2>2, <3>1, <1>3
      <4>. QED
        BY <1>2, <3>5, <3>6, <4>1 DEF InDate, line, m, y, mo, da
    <3>. QED
      BY <1>2, <1>12, <3>2, <3>6, <3>7, TakesChar DEF Digit1
  <2>3. CASE k = 4 + mo + da
    <3>1. Ch \in {" ", "\n"}
      <4>1. CASE k < Width(f, i)
        <5>1. k + 1 \in (4 + mo + da + 1)..Len(w)
          BY <1>1, <1>3, <2>3, <4>1
        <5>2. w[k + 1] = " "
          BY <1>3, <5>1 DEF BlankFrom
        <5>. QED
          BY <1>6, <4>1, <5>2 DEF Ahead1, w
      <4>2. CASE k = Width(f, i)
        BY <1>6, <4>2 DEF Ahead1
      <4>. QED
        BY <1>f, <4>1, <4>2
    <3>2. Kind # "DIGIT"
      BY <1>6, <3>1 DEF Ahead1, KindIs, Digit
    <3>3. Date
      BY <1>12, <3>2, TurnDate
    <3>4. numbers = <<y, line.month, line.mday>>
      <4>1. k - 4 - mo = da
        BY <1>3, <2>3
      <4>. QED
        BY <1>5, <2>1, <4>1
    <3>5. /\ UNCHANGED <<source, lexer, pending, entries, ret>>
          /\ pstate' = "padding"
          /\ tm' = [day |-> DayNumber(y, line.month, line.mday),
                    hour |-> 0, min |-> 0]
      BY <3>3, <3>4 DEF Date, EndOfNumber, Enter
    <3>6. InDate(f, i, k)'
      <4>1. k >= 4 + mo + da
        BY <1>1, <2>3
      <4>. QED
        BY <1>2, <3>5, <4>1 DEF InDate, line, m, y, mo, da
    <3>. QED
      BY <1>2, <1>12, <1>a, <3>5, <3>6, LeavesChar
  <2>. QED
    BY <1>3, <2>1, <2>2, <2>3
<1>13. CASE pstate = "padding"
  <2>1. /\ k >= 4 + mo + da
        /\ tm = [day |-> DayNumber(y, line.month, line.mday),
                 hour |-> 0, min |-> 0]
    BY <1>13 DEF InDate, line, m, y, mo, da
  <2>2. CASE k < Width(f, i)
    <3>1. k + 1 \in (4 + mo + da + 1)..Len(w)
      BY <1>1, <1>3, <2>1, <2>2
    <3>2. Ch = " "
      BY <1>3, <1>6, <2>2, <3>1 DEF BlankFrom, Ahead1, w
    <3>3. Kind = "SPACE"
      BY <1>6, <3>2 DEF Ahead1, KindIs
    <3>4. /\ Consume /\ UNCHANGED <<numbers, cache, tm, entries, ret>>
          /\ <<pstate, Kind, pstate'>> \in Shifts
      BY <1>13, <3>3, TurnShift DEF Leads
    <3>5. pstate' = "padding"
      BY <1>13, <3>3, <3>4 DEF Shifts
    <3>6. InDate(f, i, k + 1)'
      <4>1. k + 1 >= 4 + mo + da
        BY <1>1, <1>3, <2>1
      <4>. QED
        BY <1>2, <2>1, <3>4, <3>5, <4>1 DEF InDate, line, m, y, mo, da
    <3>. QED
      BY <1>2, <1>13, <2>2, <3>4, <3>5, <3>6, TakesChar
  <2>3. CASE k = Width(f, i)
    <3>1. Kind = "NEWLINE"
      BY <1>6, <2>3 DEF Ahead1, KindIs
    <3>2. /\ Consume /\ UNCHANGED <<numbers, cache, tm, entries, ret>>
          /\ <<pstate, Kind, pstate'>> \in Shifts
      BY <1>13, <3>1, TurnShift DEF Leads
    <3>3. pstate' = "emptylines"
      BY <1>13, <3>1, <3>2 DEF Shifts
    <3>4. PICK mm : mm = MeaningAfter(m, line)
      OBVIOUS
    <3>5. /\ mm.place = "dated" /\ mm.time = Midnight(m, line)
          /\ mm.entries = m.entries /\ mm.verdict = "OK"
      BY <1>1, <1>2, <3>4, MeaningDate DEF MeaningOK
    <3>6. Clock(mm)'
      <4>1. PICK d \in Int : d = DayNumber(y, line.month, line.mday)
        BY <1>c DEF DayNumber
      <4>2. tm' = [day |-> d, hour |-> 0, min |-> 0] /\ mm.time = 1440 * d
        BY <2>1, <3>2, <3>5, <4>1 DEF Midnight, y
      <4>3. Minutes(tm') = 1440 * d /\ d = (1440 * d) \div 1440
        BY <4>2 DEF Minutes
      <4>. QED
        BY <4>2, <4>3 DEF Clock
    <3>7. Recorded(mm)'
      <4>1. Recorded(m)
        BY DEF Stream, m
      <4>. QED
        BY <1>13, <3>2, <3>3, <3>5, <4>1 DEF Recorded
    <3>8. pstate' = StateAt[mm.place]
      BY <3>3, <3>5 DEF StateAt
    <3>9. Sound(f)'
      BY <1>2, <1>13, <1>a, <2>3, <3>2, <3>3, <3>4, <3>5, <3>6, <3>7, <3>8,
         NextLine, LevelIs DEF m, line
    <3>. QED
      BY <1>2, <3>2, <3>9 DEF Outcome
  <2>. QED
    BY <1>1, <2>2, <2>3
<1>. QED
  BY <1>7, <1>8, <1>9, <1>10, <1>11, <1>12, <1>13 DEF InDate

----------------------------------------------------------------------------
(* Entries that are made.                                                   *)

LEMMA NormalTime ==
    ASSUME NEW t \in [day : Int, hour : Nat, min : Nat]
    PROVE  /\ Minutes(Normal(t)) = Minutes(t)
           /\ Normal(t).day = Minutes(t) \div 1440
<1>1. PICK n \in Int : n = Minutes(t)
  BY DEF Minutes
<1>2. Normal(t) = [day |-> n \div 1440, hour |-> (n \div 60) % 24,
                   min |-> n % 60]
  BY <1>1 DEF Normal
<1>3. Minutes(Normal(t))
         = ((n \div 1440) * 24 + ((n \div 60) % 24)) * 60 + (n % 60)
  BY <1>2 DEF Minutes
<1>4. ((n \div 1440) * 24 + ((n \div 60) % 24)) * 60 + (n % 60) = n
  OBVIOUS
<1>. QED
  BY <1>1, <1>2, <1>3, <1>4

LEMMA Appended ==
    ASSUME NEW S, NEW s \in Seq(S), NEW x
    PROVE  /\ Len(Append(s, x)) = Len(s) + 1 /\ Append(s, x)[Len(s) + 1] = x
           /\ \A j \in 1..Len(s) : Append(s, x)[j] = s[j]
<1>1. s \in Seq(S \union {x}) /\ x \in S \union {x}
  BY SeqMonotonic
<1>. QED
  BY <1>1, AppendProperties

LEMMA MatchesMore ==
    ASSUME NEW S, NEW es \in Seq(S), NEW e, NEW T, NEW ps \in Seq(T), NEW p,
           Matches(es, ps, TRUE), Keeps(e, p), e.desc = p.desc
    PROVE  Matches(Append(es, e), Append(ps, p), TRUE)
<1>1. PICK n \in Nat : n = Len(es)
  BY LenProperties
<1>2. n = Len(ps)
  BY <1>1 DEF Matches
<1>3. /\ Len(Append(es, e)) = n + 1 /\ Append(es, e)[n + 1] = e
      /\ \A j \in 1..n : Append(es, e)[j] = es[j]
  BY <1>1, Appended
<1>4. /\ Len(Append(ps, p)) = n + 1 /\ Append(ps, p)[n + 1] = p
      /\ \A j \in 1..n : Append(ps, p)[j] = ps[j]
  BY <1>2, Appended
<1>5. ASSUME NEW j \in 1..(n + 1)
      PROVE  /\ Keeps(Append(es, e)[j], Append(ps, p)[j])
             /\ Append(es, e)[j].desc = Append(ps, p)[j].desc
  <2>1. CASE j = n + 1
    BY <2>1, <1>3, <1>4
  <2>2. CASE j # n + 1
    <3>1. j \in 1..n
      BY <2>2
    <3>2. Keeps(es[j], ps[j]) /\ es[j].desc = ps[j].desc
      BY <3>1, <1>1 DEF Matches
    <3>. QED
      BY <3>1, <3>2, <1>3, <1>4
  <2>. QED
    BY <2>1, <2>2
<1>. QED
  BY <1>3, <1>4, <1>5 DEF Matches

\* An entry that is made as it was promised.
Fulfils(e, line) == Keeps(e, Promised(line, Minutes(tm))) /\ e.desc = {}

\* The line of an item is taken, and its entry is made.
LEMMA ItemTaken ==
    ASSUME NEW f, Going(f), Turn, NEW i, NEW k, Stream(f, i, k),
           k = Width(f, i), Consume, ret' = "none",
           f.lines[i].kind \in {"work", "task"},
           ~(f.lines[i].kind = "task" /\ f.lines[i].id = 0),
           Level(pstate) = 1, pstate # "desc",
           pstate' = IF f.lines[i].kind = "work" /\ f.lines[i].text = {}
                     THEN "items" ELSE "body",
           tm' = Normal(tm), Minutes(tm) = Begin(f.mean[i], f.lines[i]),
           NEW e, entries' = Append(entries, e), Fulfils(e, f.lines[i])
    PROVE  Outcome(f)
<1> DEFINE line == f.lines[i]
           m == f.mean[i]
<1>1. MeaningOK(m) /\ m.verdict = "OK" /\ PlaceAfter(m.place, line) # "misplaced"
  BY StreamTyped
<1>2. PICK p : p = Promised(line, Minutes(tm))
  OBVIOUS
<1>3. PICK mm : mm = MeaningAfter(m, line)
  OBVIOUS
<1>4. /\ mm.place = IF line.kind = "work" /\ line.text = {}
                    THEN "items" ELSE "body"
      /\ mm.time = Minutes(tm) /\ mm.entries = Append(m.entries, p)
      /\ mm.verdict = "OK"
  BY <1>1, <1>2, <1>3, MeaningItem DEF MeaningOK
<1>5. Clock(mm)'
  <2>1. tm \in [day : Int, hour : Nat, min : Nat]
    BY DEF Going, Holding, CacheInv, Data
  <2>. QED
    BY <2>1, <1>4, NormalTime DEF Clock
<1>6. Recorded(mm)'
  <2>1. entries \in Seq(MadeEntry) /\ m.entries \in Seq(Promise)
    BY <1>1 DEF Going, Holding, CacheInv, Made, MeaningOK, Meanings
  <2>2. Matches(entries, m.entries, TRUE)
    BY DEF Stream, Recorded
  <2>3. Keeps(e, p) /\ e.desc = p.desc
    BY <1>2 DEF Promised, Fulfils
  <2>4. Matches(Append(entries, e), Append(m.entries, p), TRUE)
    BY <2>1, <2>2, <2>3, MatchesMore
  <2>5. pstate' # "desc"
    OBVIOUS
  <2>. QED
    BY <1>4, <2>4, <2>5 DEF Recorded
<1>7. pstate' = StateAt[mm.place] /\ mm.place # "desc"
  BY <1>4 DEF StateAt
<1>8. Level(pstate') = Level(pstate)
  BY LevelIs
<1>9. Sound(f)'
  BY <1>3, <1>4, <1>5, <1>6, <1>7, <1>8, NextLine DEF Turn
<1>. QED
  BY <1>9 DEF Outcome

\* What a line says of the text of its entry.
TextFor(line, name, cat) ==
    \/ line.text = {} /\ name = {} /\ cat = {}
    \/ \E t : /\ line.text = {t} /\ cat = Category(t)
              /\ Settled(t) => name = {t.name}

LEMMA TextFulfils ==
    ASSUME NEW line, NEW e, NEW name, NEW cat, TextFor(line, name, cat),
           e.begin = Minutes(tm), e.name = name, e.cat = cat, e.desc = {},
           e.type = IF line.kind = "work" THEN "WORK" ELSE "TASK",
           e.id = IF line.kind = "work" THEN 0 ELSE line.id
    PROVE  Fulfils(e, line)
<1> DEFINE p == Promised(line, Minutes(tm))
<1>1. /\ e.type = p.type /\ e.begin = p.begin /\ e.id = p.id
      /\ p.name = {t.name : t \in line.text}
      /\ p.settled = \A t \in line.text : Settled(t)
      /\ p.cat = UNION {Category(t) : t \in line.text}
  BY DEF Promised
<1>2. CASE line.text = {} /\ name = {} /\ cat = {}
  BY <1>1, <1>2 DEF Keeps, Fulfils
<1>3. ASSUME NEW t, line.text = {t}, cat = Category(t),
             Settled(t) => name = {t.name}
      PROVE  Fulfils(e, line)
  <2>1. p.name = {t.name} /\ p.cat = Category(t) /\ (p.settled => Settled(t))
    BY <1>1, <1>3
  <2>. QED
    BY <1>1, <1>3, <2>1 DEF Keeps, Fulfils
<1>. QED
  BY <1>2, <1>3 DEF TextFor

LEMMA WorkFulfils ==
    ASSUME NEW line, line.kind = "work", NEW name, NEW cat,
           TextFor(line, name, cat)
    PROVE  Fulfils(NewEntry("WORK", 0, name, cat), line)
BY TextFulfils DEF NewEntry

LEMMA TaskFulfils ==
    ASSUME NEW line, line.kind = "task", NEW name, NEW cat,
           TextFor(line, name, cat)
    PROVE  Fulfils(NewEntry("TASK", line.id, name, cat), line)
BY TextFulfils DEF NewEntry

----------------------------------------------------------------------------
(* The text of an item.                                                     *)

\* The cache when its string is terminated.
LEMMA CacheEnded ==
    ASSUME Buffer, NEW s, s = Put(text, textpos, "NUL")
    PROVE  /\ Ends(s) /\ textpos \in Nat /\ textpos < Len(s)
           /\ s[textpos + 1] = "NUL"
           /\ \A j \in 1..textpos : s[j] = text[j]
<1>1. text \in Seq(Character) /\ textpos \in 0..Len(text)
  BY DEF Buffer
<1>2. PICK l \in Nat : l = Len(text)
  BY <1>1, LenProperties
<1>3. PICK q \in Nat : q = textpos /\ q <= l
  BY <1>1, <1>2
<1>4. Ends(s) /\ Len(s) = IF q < l THEN l ELSE q + 1
  BY <1>1, <1>2, <1>3, PutNul DEF Buffer
<1>5. s[q + 1] = "NUL" /\ \A j \in 1..l : j # q + 1 => s[j] = text[j]
  BY <1>1, <1>2, <1>3, PutTyped, CharacterAssumption
<1>6. \A j \in 1..q : j \in 1..l /\ j # q + 1
  BY <1>3
<1>. QED
  BY <1>3, <1>4, <1>5, <1>6

LEMMA TextKept ==
    ASSUME Buffer, NEW w, Len(w) \in Nat, NEW p \in Nat, NEW k, k = Len(w),
           Cached(<<>>, w, p, k), NEW t, IsText(t), NEW a \in Nat,
           BlankIn(p, p + a, w), Stands(Text(t), p + a, w),
           Len(w) = p + a + Len(Text(t)),
           NEW s, s = Put(text, textpos, "NUL")
    PROVE  /\ NameAndCategory(s).cat = Category(t)
           /\ Settled(t) => NameAndCategory(s).names = {t.name}
<1>1. PICK l \in Nat : l = Len(Text(t))
  BY TextShape
<1>2. PICK q \in Nat : q = a + l
  OBVIOUS
<1>3. q = textpos /\ \A j \in 1..q : text[j] = w[p + j]
  <2>1. textpos = 0 + (k - p) /\ \A j \in 1..(k - p) : text[0 + j] = w[p + j]
    BY DEF Cached
  <2>2. k - p = q
    BY <1>1, <1>2
  <2>. QED
    BY <2>1, <2>2
<1>4. /\ Ends(s) /\ q < Len(s) /\ s[q + 1] = "NUL"
      /\ \A j \in 1..q : s[j] = text[j]
  BY <1>3, CacheEnded
<1>5. \A j \in 1..q : s[j] = w[p + j]
  BY <1>3, <1>4
<1>6. BlankIn(0, a, s)
  <2>1. ASSUME NEW j \in (0 + 1)..a
        PROVE  s[j] = " "
    <3>1. j \in 1..q /\ p + j \in (p + 1)..(p + a)
      BY <1>2
    <3>2. w[p + j] = " "
      BY <3>1 DEF BlankIn
    <3>. QED
      BY <1>5, <3>1, <3>2
  <2>. QED
    BY <2>1 DEF BlankIn
<1>7. Stands(Text(t), a, s)
  <2>1. ASSUME NEW j \in 1..l
        PROVE  s[a + j] = Text(t)[j]
    <3>1. a + j \in 1..q /\ p + (a + j) = p + a + j
      BY <1>2
    <3>2. w[p + a + j] = Text(t)[j]
      BY <1>1 DEF Stands
    <3>. QED
      BY <1>5, <3>1, <3>2
  <2>2. Len(s) \in Nat
    BY <1>4, LenProperties DEF Ends
  <2>3. a + l <= Len(s)
    BY <1>2, <1>4, <2>2
  <2>. QED
    BY <1>1, <2>1, <2>3 DEF Stands
<1>. QED
  BY <1>1, <1>2, <1>4, <1>6, <1>7, TextRead

\* The entry that is made of the text, or where there is none.
LEMMA TextEntry ==
    ASSUME NEW type, NEW id, EntryNew(type, id), textpos' = textpos + 1,
           textpos \in Nat, NEW t,
           LET s == NameAndCategory(Put(text, textpos, "NUL"))
           IN  /\ s.cat = Category(t)
               /\ Settled(t) => s.names = {t.name}
    PROVE  /\ tm' = Normal(tm)
           /\ \E name : /\ entries' = Append(entries, NewEntry(type, id, name,
                                                              Category(t)))
                        /\ Settled(t) => name = {t.name}
<1> DEFINE s == NameAndCategory(Put(text, textpos, "NUL"))
<1>1. textpos' # 0
  OBVIOUS
<1>2. PICK nm \in s.names :
         entries' = Append(entries, NewEntry(type, id, {nm}, s.cat))
  BY <1>1 DEF EntryNew
<1>3. Settled(t) => {nm} = {t.name}
  BY <1>2
<1>4. tm' = Normal(tm)
  BY DEF EntryNew
<1>. QED
  BY <1>2, <1>3, <1>4

----------------------------------------------------------------------------
(* The token in the line of a work.                                         *)

LEMMA TimeRead ==
    ASSUME NEW m, m.time \in Int, NEW line, line.kind = "work",
           {line.hour, line.min} \subseteq 0..99
    PROVE  Minutes(TimeIs(m, line)) = Begin(m, line)
<1>1. PICK d \in Int : d = m.time \div 1440
  OBVIOUS
<1>2. PICK h, n \in 0..99 : h = line.hour /\ n = line.min
  OBVIOUS
<1>3. TimeIs(m, line) = [day |-> d, hour |-> h, min |-> n]
  BY <1>1, <1>2 DEF TimeIs
<1>4. Begin(m, line) = d * 1440 + h * 60 + n
  BY <1>1, <1>2 DEF Begin
<1>5. Minutes(TimeIs(m, line)) = (d * 24 + h) * 60 + n
  BY <1>3 DEF Minutes
<1>6. (d * 24 + h) * 60 + n = d * 1440 + h * 60 + n
  BY <1>1, <1>2
<1>. QED
  BY <1>4, <1>5, <1>6

\* Up to the end of the time.
LEMMA TimeTurn ==
    ASSUME NEW f, Going(f), Turn, NEW i, NEW k, Stream(f, i, k),
           InWork(f, i, k), pstate \in {"hour", "minute0", "minute"}
    PROVE  Outcome(f)
<1> DEFINE line == f.lines[i]
           m == f.mean[i]
           w == W(f, i)
           ho == Digits(line.hour)
           mi == Digits(line.min)
<1>1. /\ i \in 1..f.n /\ k \in Nat /\ k <= Width(f, i) /\ Width(f, i) \in Nat
      /\ MeaningOK(m) /\ Len(w) \in Nat /\ Width(f, i) <= Len(w)
      /\ IsLine(line)
  BY StreamTyped, Lines
<1>2. pending /\ ret = "none" /\ line.kind = "work"
  BY DEF Turn, InWork
<1>3. /\ line.hour \in 0..99 /\ line.min \in 0..99
      /\ ho \in {1, 2} /\ mi \in {1, 2}
      /\ NumberAt(line.hour, Width1, w) /\ w[Width1 + ho + 1] = ":"
      /\ NumberAt(line.min, Width1 + ho + 1, w)
      /\ Stands(Blanks(line.gap), Width1 + ho + 1 + mi, w)
      /\ line.gap \in Nat
  BY <1>1, <1>2, WorkColumns DEF W
<1>4. Width1 \in Nat /\ Width1 + ho + 1 \in Nat
  BY <1>3, WidthAssumption
<1>5. /\ Part(line.hour, ho) = line.hour /\ Part(line.min, mi) = line.min
      /\ Part(line.hour, 1) \in Nat /\ Part(line.min, 1) \in Nat
  <2>1. Part(line.hour, ho) = line.hour
    BY <1>3, <1>4, NumberRead
  <2>2. Part(line.min, mi) = line.min
    BY <1>3, <1>4, NumberRead
  <2>. QED
    BY <1>3, <2>1, <2>2, PartTyped
<1>6. Ahead1(f, i, k)
  BY <1>2, StreamToken
<1>7. \A s \in {"hour", "minute0", "minute", "timed"} : Level(s) = 1
  BY LevelIs
<1>8. DOMAIN Number = NumberStates /\ Numbers = DigitStates
  BY NumberSets
<1> HIDE DEF line, m, w, ho, mi
<1>9. k < Width(f, i) \/ k = Width(f, i)
  BY <1>1
<1>10. line.hour \in Nat /\ line.min \in Nat
  BY <1>3
<1>11. CASE pstate = "hour"
  <2>1. /\ k \in (Width1 + 1)..(Width1 + ho)
        /\ numbers = <<Part(line.hour, k - Width1)>> /\ Clock(m)
    BY <1>11 DEF InWork, line, m, ho
  <2>2. CASE k < Width1 + ho
    <3>1. 1 < Digits(line.hour) /\ k = Width1 + 1 /\ k - Width1 = 1
      BY <1>3, <1>4, <2>1, <2>2 DEF ho
    <3>2. Digit1(f, i, k, line.hour, 1)
      BY <1>2, <1>3, <1>4, <3>1, DigitAhead DEF w
    <3>3. NextDigit
      BY <1>11, <3>2, TurnDigit DEF Digit1, DigitStates
    <3>4. /\ Value[Ch] \in Nat
          /\ Part(line.hour, 2) = Part(line.hour, 1) * 10 + Value[Ch]
      BY <3>2 DEF Digit1
    <3>5. numbers = <<Part(line.hour, 1)>>
      BY <2>1, <3>1
    <3>6. numbers' = <<Part(line.hour, 2)>>
      BY <1>5, <3>3, <3>4, <3>5, NumbersGrow DEF NextDigit
    <3>7. Consume /\ pstate' = "hour" /\ UNCHANGED <<entries, ret, tm>>
      BY <1>11, <3>3 DEF NextDigit
    <3>8. InWork(f, i, k + 1)'
      <4>1. k + 1 \in (Width1 + 1)..(Width1 + ho) /\ (k + 1) - Width1 = 2
        BY <1>3, <1>4, <2>2, <3>1
      <4>2. Clock(m)'
        BY <2>1, <3>7 DEF Clock, Minutes
      <4>. QED
        BY <1>2, <3>6, <3>7, <4>1, <4>2 DEF InWork, line, m, ho
    <3>. QED
      BY <1>2, <1>11, <3>2, <3>7, <3>8, TakesChar DEF Digit1
  <2>3. CASE k = Width1 + ho
    <3>1. k < Width(f, i) /\ Ch = ":"
      <4>1. k # Len(w) /\ k + 1 = Width1 + ho + 1
        BY <1>1, <1>3, <1>4, <2>3 DEF NumberAt, mi
      <4>. QED
        BY <1>3, <1>6, <1>9, <4>1 DEF Ahead1, w
    <3>2. Kind = "COLON"
      BY <1>6, <3>1 DEF Ahead1, KindIs
    <3>3. /\ Consume /\ UNCHANGED <<numbers, cache, tm, entries, ret>>
          /\ <<pstate, Kind, pstate'>> \in Shifts
      BY <1>11, <3>2, TurnShift DEF Leads
    <3>4. pstate' = "minute0"
      BY <1>11, <3>2, <3>3 DEF Shifts
    <3>5. InWork(f, i, k + 1)'
      <4>1. k - Width1 = ho /\ k + 1 = Width1 + ho + 1
        BY <1>3, <1>4, <2>3
      <4>2. numbers' = <<line.hour>>
        BY <1>5, <2>1, <3>3, <4>1
      <4>3. Clock(m)'
        BY <2>1, <3>3 DEF Clock, Minutes
      <4>. QED
        BY <1>2, <3>4, <4>1, <4>2, <4>3 DEF InWork, line, m, ho
    <3>. QED
      BY <1>2, <1>7, <1>11, <3>1, <3>3, <3>4, <3>5, TakesChar
  <2>. QED
    BY <1>3, <1>4, <2>1, <2>2, <2>3
<1>12. CASE pstate = "minute0"
  <2>1. k = Width1 + ho + 1 /\ numbers = <<line.hour>> /\ Clock(m)
    BY <1>12 DEF InWork, line, m, ho
  <2>2. 0 < Digits(line.min) /\ k = (Width1 + ho + 1) + 0
    BY <1>3, <1>4, <2>1 DEF mi
  <2>3. Digit1(f, i, k, line.min, 0)
    BY <1>2, <1>3, <1>4, <2>2, DigitAhead DEF w
  <2>4. FirstDigit
    BY <1>12, <2>3, TurnNumber DEF Digit1, NumberStates
  <2>5. Value[Ch] \in Nat /\ Value[Ch] = Part(line.min, 1)
    BY <2>3 DEF Digit1
  <2>6. /\ Consume /\ pstate' = "minute" /\ UNCHANGED <<entries, ret, tm>>
        /\ numbers' = <<line.hour, Part(line.min, 1)>>
    BY <1>10, <1>12, <2>1, <2>4, <2>5, NumbersGrow
       DEF FirstDigit, Enter, Number
  <2>7. InWork(f, i, k + 1)'
    <3>1. /\ k + 1 \in (Width1 + ho + 2)..(Width1 + ho + 1 + mi)
          /\ (k + 1) - Width1 - ho - 1 = 1
      BY <1>3, <1>4, <2>1
    <3>2. Clock(m)'
      BY <2>1, <2>6 DEF Clock, Minutes
    <3>. QED
      BY <1>2, <2>6, <3>1, <3>2 DEF InWork, line, m, ho, mi, TimeEnd
  <2>. QED
    BY <1>2, <1>7, <1>12, <2>3, <2>6, <2>7, TakesChar DEF Digit1
<1>13. CASE pstate = "minute"
  <2>1. /\ k \in (Width1 + ho + 2)..(Width1 + ho + 1 + mi)
        /\ numbers = <<line.hour, Part(line.min, k - Width1 - ho - 1)>>
        /\ Clock(m)
    BY <1>13 DEF InWork, line, m, ho, mi, TimeEnd
  <2>2. CASE k < Width1 + ho + 1 + mi
    <3>1. /\ 1 < Digits(line.min) /\ k = (Width1 + ho + 1) + 1
          /\ k - Width1 - ho - 1 = 1
      BY <1>3, <1>4, <2>1, <2>2 DEF mi
    <3>2. Digit1(f, i, k, line.min, 1)
      BY <1>2, <1>3, <1>4, <3>1, DigitAhead DEF w
    <3>3. NextDigit
      BY <1>13, <3>2, TurnDigit DEF Digit1, DigitStates
    <3>4. /\ Value[Ch] \in Nat
          /\ Part(line.min, 2) = Part(line.min, 1) * 10 + Value[Ch]
      BY <3>2 DEF Digit1
    <3>5. numbers = <<line.hour, Part(line.min, 1)>>
      BY <2>1, <3>1
    <3>6. numbers' = <<line.hour, Part(line.min, 2)>>
      BY <1>5, <1>10, <3>3, <3>4, <3>5, NumbersGrow DEF NextDigit
    <3>7. Consume /\ pstate' = "minute" /\ UNCHANGED <<entries, ret, tm>>
      BY <1>13, <3>3 DEF NextDigit
    <3>8. InWork(f, i, k + 1)'
      <4>1. /\ k + 1 \in (Width1 + ho + 2)..(Width1 + ho + 1 + mi)
            /\ (k + 1) - Width1 - ho - 1 = 2
        BY <1>3, <1>4, <2>2, <3>1
      <4>2. Clock(m)'
        BY <2>1, <3>7 DEF Clock, Minutes
      <4>. QED
        BY <1>2, <3>6, <3>7, <4>1, <4>2 DEF InWork, line, m, ho, mi, TimeEnd
    <3>. QED
      BY <1>2, <1>13, <3>2, <3>7, <3>8, TakesChar DEF Digit1
  <2>3. CASE k = Width1 + ho + 1 + mi
    <3>1. Kind # "DIGIT"
      <4>1. CASE k < Width(f, i)
        <5>1. CASE line.gap > 0
          <6>1. k + 1 \in (k + 1)..(k + line.gap)
            BY <1>1, <1>3, <5>1
          <6>2. \A j \in (k + 1)..(k + line.gap) : w[j] = " "
            BY <1>1, <1>3, <2>3, StandingBlanks
          <6>3. Ch = " "
            BY <1>6, <4>1, <6>1, <6>2 DEF Ahead1, w
          <6>. QED
            BY <1>6, <6>3 DEF Ahead1, KindIs, Digit
        <5>2. CASE ~(line.gap > 0)
          <6>1. line.text = {} => Len(w) = Width1 + ho + 1 + mi + line.gap
            BY <1>1, <1>2, WorkColumns DEF W, w, line, ho, mi
          <6>2. line.text = {}
            BY <1>1, <1>2, <5>2, WorkColumns DEF line
          <6>3. Len(w) = k
            BY <1>1, <1>3, <2>3, <5>2, <6>1, <6>2
          <6>. QED
            BY <1>1, <4>1, <6>3
        <5>. QED
          BY <5>1, <5>2
      <4>2. CASE k = Width(f, i)
        <5>1. Ch = "\n"
          BY <1>6, <4>2 DEF Ahead1
        <5>. QED
          BY <1>6, <5>1 DEF Ahead1, KindIs, Digit
      <4>. QED
        BY <1>9, <4>1, <4>2
    <3>2. Time
      BY <1>13, <3>1, TurnTime
    <3>3. numbers = <<line.hour, line.min>>
      <4>1. k - Width1 - ho - 1 = mi
        BY <1>3, <1>4, <2>3
      <4>. QED
        BY <1>5, <2>1, <4>1
    <3>4. /\ UNCHANGED <<source, lexer, pending, entries, ret>>
          /\ pstate' = "timed"
          /\ tm' = [tm EXCEPT !.hour = line.hour, !.min = line.min]
      BY <3>2, <3>3 DEF Time, EndOfNumber, Enter
    <3>5. tm' = TimeIs(m, line)
      <4>1. tm \in [day : Int, hour : Nat, min : Nat]
        BY DEF Going, Holding, CacheInv, Data
      <4>2. tm.day = m.time \div 1440
        BY <2>1 DEF Clock
      <4>3. tm = [day |-> tm.day, hour |-> tm.hour, min |-> tm.min]
        BY <4>1
      <4>4. tm' = [day |-> tm.day, hour |-> line.hour, min |-> line.min]
        BY <3>4, <4>3
      <4>. QED
        BY <4>2, <4>4 DEF TimeIs
    <3>6. InWork(f, i, k)'
      BY <1>2, <2>3, <3>4, <3>5 DEF InWork, line, m, ho, mi, TimeEnd
    <3>. QED
      BY <1>2, <1>7, <1>13, <3>4, <3>6, LeavesChar
  <2>. QED
    BY <1>3, <1>4, <2>1, <2>2, <2>3
<1>. QED
  BY <1>11, <1>12, <1>13

\* From there on.
LEMMA WorkTurn ==
    ASSUME NEW f, Going(f), Turn, NEW i, NEW k, Stream(f, i, k),
           InWork(f, i, k), pstate \in {"timed", "work", "worktext"}
    PROVE  Outcome(f)
<1> DEFINE line == f.lines[i]
           m == f.mean[i]
           w == W(f, i)
           end == TimeEnd(line)
<1>1. /\ i \in 1..f.n /\ k \in Nat /\ k <= Width(f, i) /\ Width(f, i) \in Nat
      /\ m.time \in Int /\ Len(w) \in Nat /\ Width(f, i) <= Len(w)
      /\ IsLine(line) /\ w \in Seq(Plain)
  BY StreamTyped, Lines DEF MeaningOK, Meanings
<1>2. pending /\ ret = "none" /\ line.kind = "work"
  BY DEF Turn, InWork
<1>3. /\ {line.hour, line.min} \subseteq 0..99 /\ line.gap \in Nat
      /\ Stands(Blanks(line.gap), end, w)
      /\ line.text = {} => Len(w) = end + line.gap /\ line.gap \in {0, 1}
      /\ line.text # {} =>
            \E t \in line.text :
               /\ line.text = {t} /\ IsText(t) /\ line.gap > 0
               /\ Len(w) = end + line.gap + Len(Text(t))
               /\ Stands(Text(t), end + line.gap, w)
      /\ Digits(line.hour) \in {1, 2} /\ Digits(line.min) \in {1, 2}
  BY <1>1, <1>2, WorkColumns DEF W, TimeEnd
<1>4. end \in Nat
  BY <1>3, WidthAssumption DEF TimeEnd
<1>5. Ahead1(f, i, k)
  BY <1>2, StreamToken
<1>6. /\ \A s \in {"timed", "work", "worktext", "items", "body"} : Level(s) = 1
      /\ Buffer
  BY LevelIs DEF Going, Holding, CacheInv
<1>7. tm = TimeIs(m, line) /\ Minutes(tm) = Begin(m, line)
  BY <1>1, <1>2, <1>3, TimeRead DEF InWork
<1> HIDE DEF line, m, w, end
<1>8. k < Width(f, i) \/ k = Width(f, i)
  BY <1>1
<1>9. k = Width(f, i) => Kind = "NEWLINE" /\ k = Len(w)
  BY <1>5 DEF Ahead1, KindIs, w
<1>10. k < Width(f, i) => Kind \in TextChar /\ Ch = w[k + 1]
                          /\ Ch \in Character
  BY <1>5 DEF Ahead1, KindIs, w
\* The line ends behind the time, or the blank behind it.
<1>11. ASSUME pstate \in {"timed", "work"}, Kind = "NEWLINE", line.text = {},
              k = Width(f, i)
       PROVE  Outcome(f)
  <2>1. ItemWithoutText
    BY <1>11, TurnWithoutText
  <2>2. /\ Consume /\ UNCHANGED ret /\ pstate' = "items" /\ textpos' = 0
        /\ EntryNew("WORK", 0)
    BY <2>1 DEF ItemWithoutText, Enter
  <2>3. /\ tm' = Normal(tm)
        /\ entries' = Append(entries, NewEntry("WORK", 0, {}, {}))
    BY <2>2 DEF EntryNew
  <2>4. Fulfils(NewEntry("WORK", 0, {}, {}), line)
    BY <1>2, <1>11, WorkFulfils DEF TextFor
  <2>5. PICK e : e = NewEntry("WORK", 0, {}, {})
    OBVIOUS
  <2>. QED
    BY <1>2, <1>6, <1>7, <1>11, <2>2, <2>3, <2>4, <2>5, ItemTaken DEF line, m
<1>12. CASE pstate = "timed"
  <2>1. k = end
    BY <1>12 DEF InWork, line, end
  <2>2. CASE k < Width(f, i)
    <3>1. Ch = " "
      <4>1. line.gap > 0
        BY <1>1, <1>3, <1>4, <2>1, <2>2
      <4>2. \A j \in (end + 1)..(end + line.gap) : w[j] = " "
        BY <1>1, <1>3, <1>4, StandingBlanks
      <4>3. k + 1 \in (end + 1)..(end + line.gap)
        BY <1>3, <1>4, <2>1, <4>1
      <4>. QED
        BY <1>10, <2>2, <4>2, <4>3
    <3>2. Kind = "SPACE"
      BY <1>5, <3>1 DEF Ahead1, KindIs
    <3>3. /\ Consume /\ UNCHANGED <<numbers, cache, tm, entries, ret>>
          /\ <<pstate, Kind, pstate'>> \in Shifts
      BY <1>12, <3>2, TurnShift DEF Leads
    <3>4. pstate' = "work"
      BY <1>12, <3>2, <3>3 DEF Shifts
    <3>5. InWork(f, i, k + 1)'
      BY <1>2, <1>7, <2>1, <3>3, <3>4 DEF InWork, line, m, end
    <3>. QED
      BY <1>2, <1>6, <1>12, <2>2, <3>3, <3>4, <3>5, TakesChar
  <2>3. CASE k = Width(f, i)
    <3>1. line.text = {}
      <4>1. \A t : Text(t) = Text(t)
        OBVIOUS
      <4>2. ASSUME line.text # {}
            PROVE  FALSE
        <5>1. PICK t \in line.text :
                 /\ IsText(t) /\ line.gap > 0
                 /\ Len(w) = end + line.gap + Len(Text(t))
          BY <1>3, <4>2
        <5>2. Len(Text(t)) \in Nat
          BY <5>1, TextShape
        <5>. QED
          BY <1>1, <1>3, <1>4, <1>9, <2>1, <2>3, <5>1, <5>2
      <4>. QED
        BY <4>2
    <3>. QED
      BY <1>9, <1>11, <1>12, <2>3, <3>1
  <2>. QED
    BY <1>8, <2>2, <2>3
<1>13. CASE pstate = "work"
  <2>1. k = end + 1
    BY <1>13 DEF InWork, line, end
  <2>2. CASE k < Width(f, i)
    <3>1. FirstChar
      BY <1>10, <1>13, <2>2, TurnFirstChar
    <3>2. /\ Consume /\ UNCHANGED <<numbers, tm, entries, ret>>
          /\ pstate' = "worktext" /\ AddChar(0, Ch)
      BY <1>13, <3>1 DEF FirstChar, Sees, Enter
    <3>3. Cached(<<>>, w, k, k + 1)'
      <4>1. Buffer /\ Ch \in Character /\ Ch = w[k + 1] /\ AddChar(0, Ch)
        BY <1>6, <1>10, <2>2, <3>2
      <4>. QED
        BY <1>1, <4>1, CachedFirst
    <3>4. InWork(f, i, k + 1)'
      <4>1. k + 1 > end + 1
        BY <1>4, <2>1
      <4>2. Cached(<<>>, w, end + 1, k + 1)'
        BY <2>1, <3>3
      <4>. QED
        BY <1>2, <1>7, <3>2, <4>1, <4>2 DEF InWork, line, m, w, end
    <3>. QED
      BY <1>2, <1>6, <1>13, <2>2, <3>2, <3>4, TakesChar
  <2>3. CASE k = Width(f, i)
    <3>1. line.text = {}
      <4>1. ASSUME line.text # {}
            PROVE  FALSE
        <5>1. PICK t \in line.text :
                 /\ IsText(t) /\ line.gap > 0
                 /\ Len(w) = end + line.gap + Len(Text(t))
          BY <1>3, <4>1
        <5>2. Len(Text(t)) \in Nat \ {0}
          BY <5>1, TextShape
        <5>. QED
          BY <1>1, <1>3, <1>4, <1>9, <2>1, <2>3, <5>1, <5>2
      <4>. QED
        BY <4>1
    <3>. QED
      BY <1>9, <1>11, <1>13, <2>3, <3>1
  <2>. QED
    BY <1>8, <2>2, <2>3
<1>14. CASE pstate = "worktext"
  <2>1. k > end + 1 /\ Cached(<<>>, w, end + 1, k)
    BY <1>14 DEF InWork, line, w, end
  <2>2. CASE k < Width(f, i)
    <3>1. NextChar
      BY <1>10, <1>14, <2>2, TurnNextChar
    <3>2. /\ Consume /\ UNCHANGED <<pstate, numbers, tm, entries, ret>>
          /\ AddChar(textpos, Ch)
      BY <3>1 DEF NextChar
    <3>3. Cached(<<>>, w, end + 1, k + 1)'
      <4>1. /\ Buffer /\ Ch \in Character /\ Ch = w[k + 1]
            /\ end + 1 \in Nat /\ end + 1 <= k
        BY <1>1, <1>4, <1>6, <1>10, <2>1, <2>2
      <4>2. Len(<<>>) \in Nat
        OBVIOUS
      <4>. QED
        BY <1>1, <2>1, <3>2, <4>1, <4>2, CachedMore
    <3>4. InWork(f, i, k + 1)'
      <4>1. k + 1 > end + 1
        BY <1>1, <1>4, <2>1
      <4>. QED
        BY <1>2, <1>7, <1>14, <3>2, <3>3, <4>1 DEF InWork, line, m, w, end
    <3>. QED
      BY <1>2, <1>14, <2>2, <3>2, <3>4, TakesChar
  <2>3. CASE k = Width(f, i)
    <3>1. Item
      BY <1>9, <1>14, <2>3, TurnItem
    <3>2. /\ Consume /\ UNCHANGED ret /\ pstate' = "body"
          /\ textpos' = textpos + 1 /\ EntryNew("WORK", 0)
      BY <3>1 DEF Item, EndOfText, Enter
    <3>3. line.text # {}
      BY <1>1, <1>3, <1>4, <1>9, <2>1, <2>3
    <3>4. PICK t \in line.text :
             /\ line.text = {t} /\ IsText(t) /\ line.gap > 0
             /\ Len(w) = end + line.gap + Len(Text(t))
             /\ Stands(Text(t), end + line.gap, w)
      BY <1>3, <3>3
    <3>5. PICK a \in Nat : end + 1 + a = end + line.gap
      <4>1. line.gap - 1 \in Nat /\ end + 1 + (line.gap - 1) = end + line.gap
        BY <1>3, <1>4, <3>4
      <4>. QED
        BY <4>1
    <3>6. BlankIn(end + 1, end + 1 + a, w)
      <4>1. \A j \in (end + 1)..(end + line.gap) : w[j] = " "
        BY <1>1, <1>3, <1>4, StandingBlanks
      <4>2. \A j \in (end + 1 + 1)..(end + 1 + a) :
               j \in (end + 1)..(end + line.gap)
        BY <1>3, <1>4, <3>5
      <4>. QED
        BY <4>1, <4>2 DEF BlankIn
    <3>7. LET s == NameAndCategory(Put(text, textpos, "NUL"))
          IN  s.cat = Category(t) /\ (Settled(t) => s.names = {t.name})
      <4>1. end + 1 \in Nat /\ Len(w) = end + 1 + a + Len(Text(t))
        BY <1>4, <3>4, <3>5
      <4>2. Stands(Text(t), end + 1 + a, w)
        BY <3>4, <3>5
      <4>3. k = Len(w)
        BY <1>9, <2>3
      <4>4. PICK s : s = Put(text, textpos, "NUL")
        OBVIOUS
      <4>5. /\ NameAndCategory(s).cat = Category(t)
            /\ Settled(t) => NameAndCategory(s).names = {t.name}
        BY <1>1, <1>6, <2>1, <3>4, <3>5, <3>6, <4>1, <4>2, <4>3, <4>4, TextKept
      <4>. QED
        BY <4>4, <4>5
    <3>8. /\ tm' = Normal(tm)
          /\ \E name : /\ entries' = Append(entries, NewEntry("WORK", 0, name,
                                                              Category(t)))
                       /\ Settled(t) => name = {t.name}
      <4>1. textpos \in Nat
        BY <1>6 DEF Buffer
      <4>. QED
        BY <3>2, <3>7, <4>1, TextEntry
    <3>9. PICK nm : /\ entries' = Append(entries, NewEntry("WORK", 0, nm,
                                                           Category(t)))
                    /\ Settled(t) => nm = {t.name}
      BY <3>8
    <3>10. PICK e : e = NewEntry("WORK", 0, nm, Category(t))
      OBVIOUS
    <3>11. Fulfils(e, line)
      <4>1. TextFor(line, nm, Category(t))
        BY <3>4, <3>9 DEF TextFor
      <4>. QED
        BY <1>2, <3>10, <4>1, WorkFulfils
    <3>. QED
      BY <1>2, <1>6, <1>7, <1>14, <2>3, <3>2, <3>3, <3>8, <3>9, <3>10, <3>11,
         ItemTaken DEF line, m
  <2>. QED
    BY <1>8, <2>2, <2>3
<1>. QED
  BY <1>12, <1>13, <1>14

----------------------------------------------------------------------------
(* The token in the line of a task.                                         *)

TaskEnd(line) == Width1 + 1 + Digits(line.id)

\* What the lines say after one that is not in its place, or has no id.
LEMMA VerdictAfter ==
    ASSUME NEW f, Going(f), NEW i \in 1..f.n, i < f.n,
           MeaningAfter(f.mean[i], f.lines[i]).verdict # "OK"
    PROVE  meaning.verdict = MeaningAfter(f.mean[i], f.lines[i]).verdict
<1>1. i + 1 \in 1..f.n
  BY Lines
<1>2. f.mean[i + 1] = MeaningAfter(f.mean[i], f.lines[i])
  BY Lines DEF LineIn
<1>3. LineIn(f, i + 1, source, meaning)
  BY <1>1, Lines
<1>. QED
  BY <1>2, <1>3 DEF LineIn

LEMMA TaskTurn ==
    ASSUME NEW f, Going(f), Turn, NEW i, NEW k, Stream(f, i, k),
           InTask(f, i, k)
    PROVE  Outcome(f)
<1> DEFINE line == f.lines[i]
           m == f.mean[i]
           w == W(f, i)
           end == TaskEnd(line)
           da == Digits(line.id)
<1>1. /\ i \in 1..f.n /\ k \in Nat /\ k <= Width(f, i) /\ Width(f, i) \in Nat
      /\ m.verdict = "OK" /\ PlaceAfter(m.place, line) # "misplaced"
      /\ Len(w) \in Nat /\ Width(f, i) <= Len(w)
      /\ IsLine(line) /\ w \in Seq(Plain)
  BY StreamTyped, Lines
<1>2. pending /\ ret = "none" /\ line.kind = "task" /\ Clock(m)
  BY DEF Turn, InTask
<1>3. /\ line.id \in 0..99 /\ da \in {1, 2}
      /\ NumberAt(line.id, Width1 + 1, w) /\ w[end + 1] = " "
      /\ \E t \in line.text :
            /\ line.text = {t} /\ IsText(t)
            /\ Len(w) = end + 1 + Len(Text(t))
            /\ Stands(Text(t), end + 1, w)
  BY <1>1, <1>2, TaskColumns DEF W, TaskEnd
<1>4. /\ Width1 \in Nat /\ Width1 + 1 \in Nat
      /\ end = Width1 + 1 + da /\ end \in Nat
  <2>1. Width1 \in Nat
    BY WidthAssumption
  <2>2. end = Width1 + 1 + da
    BY DEF TaskEnd
  <2>3. da \in {1, 2}
    BY <1>3
  <2>. QED
    BY <2>1, <2>2, <2>3
<1>5. Part(line.id, da) = line.id /\ Part(line.id, 1) \in Nat
  <2>1. Part(line.id, da) = line.id
    BY <1>3, <1>4, NumberRead
  <2>. QED
    BY <1>3, <2>1, PartTyped
<1>6. Ahead1(f, i, k)
  BY <1>2, StreamToken
<1>7. /\ \A s \in {"id0", "id", "task", "tasktext", "body"} : Level(s) = 1
      /\ Buffer
  BY LevelIs DEF Going, Holding, CacheInv
<1>8. DOMAIN Number = NumberStates /\ Numbers = DigitStates
  BY NumberSets
<1>9. PICK t \in line.text :
         /\ line.text = {t} /\ IsText(t)
         /\ Len(w) = end + 1 + Len(Text(t)) /\ Stands(Text(t), end + 1, w)
  BY <1>3
<1>10. Len(Text(t)) \in Nat \ {0}
  BY <1>9, TextShape
<1> HIDE DEF line, m, w, end, da
<1>19. da = 1 \/ da = 2
  BY <1>3
<1>11. k < Width(f, i) \/ k = Width(f, i)
  BY <1>1
<1>12. k = Width(f, i) => Kind = "NEWLINE" /\ k = Len(w) /\ i < f.n
  BY <1>6 DEF Ahead1, KindIs, w
<1>13. k < Width(f, i) => Kind \in TextChar /\ Ch = w[k + 1]
                          /\ Ch \in Character
  BY <1>6 DEF Ahead1, KindIs, w
<1>14. UNCHANGED tm => Clock(m)'
  BY <1>2 DEF Clock, Minutes
<1>15. CASE pstate = "id0"
  <2>1. k = Width1 + 1
    BY <1>15 DEF InTask, line
  <2>2. 0 < Digits(line.id) /\ k = (Width1 + 1) + 0
    BY <1>4, <1>19, <2>1 DEF da
  <2>3. Digit1(f, i, k, line.id, 0)
    BY <1>2, <1>3, <1>4, <2>2, DigitAhead DEF w
  <2>4. FirstDigit
    BY <1>15, <2>3, TurnNumber DEF Digit1, NumberStates
  <2>5. Value[Ch] \in Nat /\ Value[Ch] = Part(line.id, 1)
    BY <2>3 DEF Digit1
  <2>6. /\ Consume /\ pstate' = "id" /\ UNCHANGED <<entries, ret, tm>>
        /\ numbers' = <<Part(line.id, 1)>>
    BY <1>15, <2>4, <2>5, NumbersGrow DEF FirstDigit, Enter, Number
  <2>7. InTask(f, i, k + 1)'
    <3>1. k + 1 \in (Width1 + 2)..end /\ (k + 1) - Width1 - 1 = 1
      BY <1>4, <1>19, <2>1
    <3>. QED
      BY <1>2, <1>14, <2>6, <3>1 DEF InTask, line, m, end, TaskEnd
  <2>. QED
    BY <1>2, <1>7, <1>15, <2>3, <2>6, <2>7, TakesChar DEF Digit1
<1>16. CASE pstate = "id"
  <2>1. /\ k \in (Width1 + 2)..end
        /\ numbers = <<Part(line.id, k - Width1 - 1)>>
    BY <1>16 DEF InTask, line, end, TaskEnd
  <2>2. CASE k < end
    <3>1. /\ 1 < Digits(line.id) /\ k = (Width1 + 1) + 1
          /\ k - Width1 - 1 = 1
      BY <1>4, <1>19, <2>1, <2>2 DEF da
    <3>2. Digit1(f, i, k, line.id, 1)
      BY <1>2, <1>3, <1>4, <3>1, DigitAhead DEF w
    <3>3. NextDigit
      BY <1>16, <3>2, TurnDigit DEF Digit1, DigitStates
    <3>4. /\ Value[Ch] \in Nat
          /\ Part(line.id, 2) = Part(line.id, 1) * 10 + Value[Ch]
      BY <3>2 DEF Digit1
    <3>5. numbers = <<Part(line.id, 1)>>
      BY <2>1, <3>1
    <3>6. numbers' = <<Part(line.id, 2)>>
      BY <1>5, <3>3, <3>4, <3>5, NumbersGrow DEF NextDigit
    <3>7. Consume /\ pstate' = "id" /\ UNCHANGED <<entries, ret, tm>>
      BY <1>16, <3>3 DEF NextDigit
    <3>8. InTask(f, i, k + 1)'
      <4>1. k + 1 \in (Width1 + 2)..end /\ (k + 1) - Width1 - 1 = 2
        BY <1>4, <1>19, <2>2, <3>1
      <4>. QED
        BY <1>2, <1>14, <3>6, <3>7, <4>1 DEF InTask, line, m, end, TaskEnd
    <3>. QED
      BY <1>2, <1>16, <3>2, <3>7, <3>8, TakesChar DEF Digit1
  <2>3. CASE k = end
    <3>1. k < Width(f, i) /\ Ch = " "
      <4>1. k # Len(w)
        BY <1>1, <1>4, <1>9, <1>10, <2>3
      <4>. QED
        BY <1>3, <1>11, <1>12, <1>13, <2>3, <4>1
    <3>2. Kind = "SPACE"
      BY <1>6, <3>1 DEF Ahead1, KindIs
    <3>3. /\ Consume /\ UNCHANGED <<numbers, cache, tm, entries, ret>>
          /\ <<pstate, Kind, pstate'>> \in Shifts
      BY <1>16, <3>2, TurnShift DEF Leads
    <3>4. pstate' = "task"
      BY <1>16, <3>2, <3>3 DEF Shifts
    <3>5. numbers' = <<line.id>>
      <4>1. k - Width1 - 1 = da
        BY <1>4, <1>19, <2>3
      <4>. QED
        BY <1>5, <2>1, <3>3, <4>1
    <3>6. InTask(f, i, k + 1)'
      BY <1>2, <1>14, <2>3, <3>3, <3>4, <3>5
         DEF InTask, line, m, end, TaskEnd
    <3>. QED
      BY <1>2, <1>7, <1>16, <3>1, <3>3, <3>4, <3>6, TakesChar
  <2>. QED
    BY <1>4, <2>1, <2>2, <2>3
<1>17. CASE pstate = "task"
  <2>1. k = end + 1 /\ numbers = <<line.id>>
    BY <1>17 DEF InTask, line, end, TaskEnd
  <2>2. k < Width(f, i)
    <3>1. k # Len(w)
      BY <1>1, <1>4, <1>9, <1>10, <2>1
    <3>. QED
      BY <1>11, <1>12, <3>1
  <2>3. FirstChar
    BY <1>13, <1>17, <2>2, TurnFirstChar
  <2>4. /\ Consume /\ UNCHANGED <<numbers, tm, entries, ret>>
        /\ pstate' = "tasktext" /\ AddChar(0, Ch)
    BY <1>17, <2>3 DEF FirstChar, Sees, Enter
  <2>5. Cached(<<>>, w, k, k + 1)'
    <3>1. Buffer /\ Ch \in Character /\ Ch = w[k + 1] /\ AddChar(0, Ch)
      BY <1>7, <1>13, <2>2, <2>4
    <3>. QED
      BY <1>1, <3>1, CachedFirst
  <2>6. InTask(f, i, k + 1)'
    <3>1. k + 1 > end + 1
      BY <1>4, <2>1
    <3>2. Cached(<<>>, w, end + 1, k + 1)'
      BY <2>1, <2>5
    <3>. QED
      BY <1>2, <1>14, <2>1, <2>4, <3>1, <3>2
         DEF InTask, line, m, w, end, TaskEnd
  <2>. QED
    BY <1>2, <1>7, <1>17, <2>2, <2>4, <2>6, TakesChar
<1>18. CASE pstate = "tasktext"
  <2>1. k > end + 1 /\ Cached(<<>>, w, end + 1, k) /\ numbers = <<line.id>>
    BY <1>18 DEF InTask, line, w, end, TaskEnd
  <2>2. CASE k < Width(f, i)
    <3>1. NextChar
      BY <1>13, <1>18, <2>2, TurnNextChar
    <3>2. /\ Consume /\ UNCHANGED <<pstate, numbers, tm, entries, ret>>
          /\ AddChar(textpos, Ch)
      BY <3>1 DEF NextChar
    <3>3. Cached(<<>>, w, end + 1, k + 1)'
      <4>1. /\ Buffer /\ Ch \in Character /\ Ch = w[k + 1]
            /\ end + 1 \in Nat /\ end + 1 <= k
        BY <1>1, <1>4, <1>7, <1>13, <2>1, <2>2
      <4>2. Len(<<>>) \in Nat
        OBVIOUS
      <4>. QED
        BY <1>1, <2>1, <3>2, <4>1, <4>2, CachedMore
    <3>4. InTask(f, i, k + 1)'
      <4>1. k + 1 > end + 1
        BY <1>1, <1>4, <2>1
      <4>. QED
        BY <1>2, <1>14, <1>18, <2>1, <3>2, <3>3, <4>1
           DEF InTask, line, m, w, end, TaskEnd
    <3>. QED
      BY <1>2, <1>18, <2>2, <3>2, <3>4, TakesChar
  <2>3. CASE k = Width(f, i)
    <3>1. (Ref /\ IdAllowed) \/ (RefError /\ ~IdAllowed)
      BY <1>12, <1>18, <2>3, TurnRef
    <3>2. IdAllowed <=> line.id # 0
      BY <2>1 DEF IdAllowed
    <3>3. CASE RefError /\ ~IdAllowed
      <4>1. UNCHANGED entries /\ ret' = "ERR_INPUT"
        BY <3>3 DEF RefError
      <4>2. MeaningAfter(m, line).verdict = "ERR_INPUT"
        <5>1. MeaningAfter(m, line) = [m EXCEPT !.verdict = "ERR_INPUT"]
          BY <1>1, <1>2, <3>2, <3>3 DEF MeaningAfter
        <5>2. m \in Meanings
          BY <1>1, Lines DEF MeaningOK, m
        <5>. QED
          BY <5>1, <5>2 DEF Meanings
      <4>3. meaning.verdict = "ERR_INPUT"
        BY <1>1, <1>12, <2>3, <4>2, VerdictAfter DEF m, line
      <4>. QED
        BY <4>1, <4>3 DEF Outcome
    <3>4. CASE Ref /\ IdAllowed
      <4>1. /\ Consume /\ UNCHANGED ret /\ pstate' = "body"
            /\ textpos' = textpos + 1 /\ EntryNew("TASK", line.id)
        BY <2>1, <3>4 DEF Ref, EndOfText, Enter
      <4>2. LET s == NameAndCategory(Put(text, textpos, "NUL"))
            IN  s.cat = Category(t) /\ (Settled(t) => s.names = {t.name})
        <5>1. /\ end + 1 \in Nat /\ end + 1 + 0 = end + 1 /\ 0 \in Nat
              /\ Len(w) = end + 1 + 0 + Len(Text(t))
          BY <1>4, <1>9, <1>10
        <5>2. Stands(Text(t), end + 1 + 0, w)
          BY <1>9, <5>1
        <5>3. BlankIn(end + 1, end + 1 + 0, w)
          <6>1. \A j \in (end + 1 + 1)..(end + 1 + 0) : FALSE
            BY <1>4
          <6>. QED
            BY <6>1 DEF BlankIn
        <5>4. k = Len(w)
          BY <1>12, <2>3
        <5>5. PICK s : s = Put(text, textpos, "NUL")
          OBVIOUS
        <5>6. PICK a \in Nat : a = 0
          OBVIOUS
        <5>7. /\ NameAndCategory(s).cat = Category(t)
              /\ Settled(t) => NameAndCategory(s).names = {t.name}
          BY <1>1, <1>7, <1>9, <2>1, <5>1, <5>2, <5>3, <5>4, <5>5, <5>6,
             TextKept
        <5>. QED
          BY <5>5, <5>7
      <4>3. /\ tm' = Normal(tm)
            /\ \E name :
                  /\ entries' = Append(entries, NewEntry("TASK", line.id, name,
                                                         Category(t)))
                  /\ Settled(t) => name = {t.name}
        <5>1. textpos \in Nat
          BY <1>7 DEF Buffer
        <5>. QED
          BY <4>1, <4>2, <5>1, TextEntry
      <4>4. PICK nm :
               /\ entries' = Append(entries, NewEntry("TASK", line.id, nm,
                                                      Category(t)))
               /\ Settled(t) => nm = {t.name}
        BY <4>3
      <4>5. PICK e : e = NewEntry("TASK", line.id, nm, Category(t))
        OBVIOUS
      <4>6. Fulfils(e, line)
        <5>1. TextFor(line, nm, Category(t))
          BY <1>9, <4>4 DEF TextFor
        <5>. QED
          BY <1>2, <4>5, <5>1, TaskFulfils
      <4>7. Minutes(tm) = Begin(m, line)
        BY <1>2 DEF Clock, Begin
      <4>. QED
        BY <1>2, <1>7, <1>18, <2>3, <3>2, <3>4, <4>1, <4>3, <4>4, <4>5, <4>6,
           <4>7, ItemTaken DEF line, m
    <3>. QED
      BY <3>1, <3>3, <3>4
  <2>. QED
    BY <1>11, <2>2, <2>3
<1>. QED
  BY <1>15, <1>16, <1>17, <1>18 DEF InTask

----------------------------------------------------------------------------
(* The token in the line of a description.                                  *)

LEMMA AboveIs ==
    ASSUME NEW m, MeaningOK(m), m.place \in {"body", "desc"}
    PROVE  /\ Above(m) \in Seq(NonNul)
           /\ m.place = "body" => Above(m) = <<>>
           /\ m.place = "desc" =>
                 \E d : /\ m.entries[Len(m.entries)].desc = {d} /\ IsDesc(d)
                        /\ Above(m) = d \o m.white
<1>1. CASE m.place = "body"
  <2>1. Above(m) = <<>>
    BY <1>1 DEF Above
  <2>. QED
    BY <1>1, <2>1, EmptySeq
<1>2. CASE m.place = "desc"
  <2>1. PICK S : S = m.entries[Len(m.entries)].desc
    OBVIOUS
  <2>2. PICK d : S = {d} /\ IsDesc(d)
    BY <1>2, <2>1 DEF MeaningOK
  <2>3. Above(m) = (CHOOSE x \in S : TRUE) \o m.white
    BY <1>2, <2>1, Zenon DEF Above
  <2>4. (CHOOSE x \in S : TRUE) = d
    BY <2>2
  <2>5. Above(m) = d \o m.white
    BY <2>3, <2>4
  <2>6. m.white \in Seq(NonNul)
    <3>1. m.white \in Seq(Spaces)
      BY DEF MeaningOK, Meanings, Spaces
    <3>. QED
      BY <3>1, SpacesTyped, SeqMonotonic
  <2>7. Above(m) \in Seq(NonNul)
    BY <2>2, <2>5, <2>6, ConcatProperties DEF IsDesc
  <2>. QED
    BY <1>2, <2>1, <2>2, <2>5, <2>7
<1>. QED
  BY <1>1, <1>2

\* A description, its last line and what ends that.
LineJoined(s, b, e, r) ==
    LET l == Len(b)
        n == Len(e)
    IN  /\ Len(s) = l + n + r + 1
        /\ \A j \in 1..l : s[j] = b[j]
        /\ \A j \in 1..n : s[l + j] = e[j]
        /\ \A j \in 1..r : s[l + n + j] = " "
        /\ s[l + n + r + 1] = "\n"

LEMMA JoinedLine ==
    ASSUME NEW b \in Seq(NonNul), NEW e \in Seq(Plain), NEW r \in Nat
    PROVE  LineJoined((b \o e) \o Append(Blanks(r), "\n"), b, e, r)
<1>1. PICK l \in Nat, n \in Nat : l = Len(b) /\ n = Len(e)
  BY LenProperties
<1>2. PICK bl, z : bl = Blanks(r) /\ z = Append(bl, "\n")
  OBVIOUS
<1>3. z \in Seq(NonNul) /\ e \in Seq(NonNul)
  BY <1>2, BlankLineEnd, SpacesTyped, SeqMonotonic, PlainText
<1>4. /\ Len(z) = r + 1 /\ z[r + 1] = "\n"
      /\ \A j \in 1..r : z[j] = " "
  <2>1. bl \in Seq(Plain) /\ Len(bl) = r /\ \A j \in 1..r : bl[j] = " "
    BY <1>2, BlankChars
  <2>2. /\ Len(Append(bl, "\n")) = Len(bl) + 1
        /\ Append(bl, "\n")[Len(bl) + 1] = "\n"
        /\ \A j \in 1..Len(bl) : Append(bl, "\n")[j] = bl[j]
    <3>1. bl \in Seq(Plain)
      BY <2>1
    <3>. QED
      BY <3>1, Appended
  <2>. QED
    BY <1>2, <2>1, <2>2
<1>5. PICK a : a = b \o e
  OBVIOUS
<1>6. /\ a \in Seq(NonNul) /\ Len(a) = l + n
      /\ \A j \in 1..(l + n) : a[j] = IF j <= l THEN b[j] ELSE e[j - l]
  BY <1>1, <1>3, <1>5, ConcatProperties
<1>7. PICK s : s = a \o z
  OBVIOUS
<1>8. PICK m \in Nat, q \in Nat : m = l + n /\ q = r + 1
  OBVIOUS
<1>9. /\ Len(s) = m + q
      /\ \A j \in 1..(m + q) : s[j] = IF j <= m THEN a[j] ELSE z[j - m]
  <2>1. Len(a) = m /\ Len(z) = q
    BY <1>4, <1>6, <1>8
  <2>. QED
    BY <1>3, <1>6, <1>7, <2>1, ConcatProperties
<1>10. ASSUME NEW j \in 1..l
       PROVE  s[j] = b[j]
  <2>1. j \in 1..(l + n) /\ j \in 1..(m + q) /\ j <= m /\ j <= l
    BY <1>8
  <2>. QED
    BY <1>6, <1>9, <2>1
<1>11. ASSUME NEW j \in 1..n
       PROVE  s[l + j] = e[j]
  <2>1. PICK x \in Nat : x = l + j
    OBVIOUS
  <2>2. /\ x \in 1..(l + n) /\ x \in 1..(m + q) /\ x <= m /\ ~(x <= l)
        /\ x - l = j
    BY <1>8, <2>1
  <2>. QED
    BY <1>6, <1>9, <2>1, <2>2
<1>12. ASSUME NEW j \in 1..r
       PROVE  s[l + n + j] = " "
  <2>1. PICK x \in Nat : x = l + n + j
    OBVIOUS
  <2>2. x \in 1..(m + q) /\ ~(x <= m) /\ x - m = j
    BY <1>8, <2>1
  <2>. QED
    BY <1>4, <1>9, <2>1, <2>2
<1>13. s[l + n + r + 1] = "\n"
  <2>1. PICK x \in Nat : x = l + n + r + 1
    OBVIOUS
  <2>2. x \in 1..(m + q) /\ ~(x <= m) /\ x - m = r + 1
    BY <1>8, <2>1
  <2>. QED
    BY <1>4, <1>9, <2>1, <2>2
<1>14. Len(s) = l + n + r + 1
  BY <1>8, <1>9
<1>15. LineJoined(s, b, e, r)
  BY <1>1, <1>10, <1>11, <1>12, <1>13, <1>14 DEF LineJoined
<1>. QED
  BY <1>2, <1>5, <1>7, <1>15

\* What is read of a description up to the end of one of its lines.
LEMMA LineCached ==
    ASSUME Buffer, NEW b \in Seq(NonNul), NEW e \in Seq(Plain), NEW r \in Nat,
           NEW w, NEW p \in Nat, Stands(e, p, w),
           BlankIn(p + Len(e), Len(w), w), NEW k, k = Len(w),
           k = p + Len(e) + r, Cached(b, w, p, k),
           NEW ch, ch = "\n", ch \in Character, AddChar(textpos, ch),
           NEW s, LineJoined(s, b, e, r)
    PROVE  CacheIs(s)'
<1>1. PICK l \in Nat, n \in Nat : l = Len(b) /\ n = Len(e)
  BY LenProperties
<1>2. /\ Len(s) = l + n + r + 1
      /\ \A j \in 1..l : s[j] = b[j]
      /\ \A j \in 1..n : s[l + j] = e[j]
      /\ \A j \in 1..r : s[l + n + j] = " "
      /\ s[l + n + r + 1] = "\n"
  BY <1>1 DEF LineJoined
<1>3. k - p = n + r
  <2>1. k = p + n + r
    BY <1>1
  <2>. QED
    BY <2>1
<1>4. /\ textpos = l + (n + r)
      /\ \A j \in 1..l : text[j] = b[j]
      /\ \A j \in 1..(n + r) : text[l + j] = w[p + j]
  BY <1>1, <1>3 DEF Cached
<1>5. /\ textpos' = l + n + r + 1 /\ text'[l + n + r + 1] = "\n"
      /\ \A j \in 1..(l + n + r) : text'[j] = text[j]
  <2>1. /\ textpos' = textpos + 1 /\ text'[textpos + 1] = "\n"
        /\ \A j \in 1..textpos : text'[j] = text[j]
    BY Added DEF Buffer
  <2>2. textpos = l + n + r
    BY <1>4
  <2>. QED
    BY <2>1, <2>2
<1>6. \A j \in 1..n : w[p + j] = e[j]
  BY <1>1 DEF Stands
<1>7. \A j \in (p + n + 1)..(p + n + r) : w[j] = " "
  <2>1. Len(w) = p + n + r
    BY <1>1
  <2>2. BlankIn(p + n, Len(w), w)
    BY <1>1
  <2>. QED
    BY <2>1, <2>2 DEF BlankIn
<1>8. ASSUME NEW j \in 1..l
      PROVE  text'[j] = s[j]
  <2>1. j \in 1..(l + n + r)
    OBVIOUS
  <2>. QED
    BY <1>2, <1>4, <1>5, <2>1
<1>9. ASSUME NEW j \in 1..n
      PROVE  text'[l + j] = s[l + j]
  <2>1. j \in 1..(n + r) /\ l + j \in 1..(l + n + r)
    OBVIOUS
  <2>2. text'[l + j] = text[l + j]
    BY <1>5, <2>1
  <2>3. text[l + j] = w[p + j]
    BY <1>4, <2>1
  <2>. QED
    BY <1>2, <1>6, <2>2, <2>3
<1>10. ASSUME NEW j \in 1..r
       PROVE  text'[l + n + j] = s[l + n + j]
  <2>1. /\ n + j \in 1..(n + r) /\ l + (n + j) \in 1..(l + n + r)
        /\ l + (n + j) = l + n + j
        /\ p + (n + j) \in (p + n + 1)..(p + n + r)
    OBVIOUS
  <2>2. text'[l + (n + j)] = " "
    BY <1>4, <1>5, <1>7, <2>1
  <2>. QED
    BY <1>2, <2>1, <2>2
<1>11. ASSUME NEW j \in 1..Len(s)
       PROVE  text'[j] = s[j]
  <2>1. j \in 1..(l + n + r + 1)
    BY <1>2
  <2>2. CASE j <= l
    <3>1. j \in 1..l
      BY <2>1, <2>2
    <3>. QED
      BY <1>8, <3>1
  <2>3. CASE j > l /\ j <= l + n
    <3>1. j - l \in 1..n /\ l + (j - l) = j
      BY <2>1, <2>3
    <3>. QED
      BY <1>9, <3>1
  <2>4. CASE j > l + n /\ j <= l + n + r
    <3>1. j - l - n \in 1..r /\ l + n + (j - l - n) = j
      BY <2>1, <2>4
    <3>. QED
      BY <1>10, <3>1
  <2>5. CASE j = l + n + r + 1
    BY <1>2, <1>5, <2>5
  <2>6. j <= l \/ (j > l /\ j <= l + n) \/ (j > l + n /\ j <= l + n + r)
        \/ j = l + n + r + 1
    BY <2>1
  <2>. QED
    BY <2>2, <2>3, <2>4, <2>5, <2>6
<1>. QED
  BY <1>2, <1>5, <1>11 DEF CacheIs

\* What a line of a description means for the next one.
LEMMA AboveNext ==
    ASSUME NEW m, MeaningOK(m), m.verdict = "OK", NEW line, IsLine(line),
           line.kind = "desc", PlaceAfter(m.place, line) # "misplaced",
           NEW mm, mm = MeaningAfter(m, line)
    PROVE  /\ mm.place = "desc" /\ mm.time = m.time /\ mm.verdict = "OK"
           /\ Above(mm) = (Above(m) \o line.desc)
                              \o Append(Blanks(line.trail), "\n")
           /\ Len(mm.entries) = Len(m.entries)
           /\ Foresees(m.entries, mm.entries) /\ MeaningOK(mm)
<1>1. /\ m \in Meanings /\ m.entries \in Seq(Promise)
      /\ Len(m.entries) \in Nat
  BY LenProperties DEF MeaningOK, Meanings
<1>2. PICK es : es = [m.entries EXCEPT ![Len(m.entries)].desc =
                         Continued(@, m, line)]
  OBVIOUS
<1>3. /\ mm = [place |-> "desc", time |-> m.time,
               white |-> Append(Blanks(line.trail), "\n"),
               entries |-> es, verdict |-> "OK"]
      /\ m.place \in {"body", "desc"}
  BY <1>1, <1>2, MeaningDesc, Zenon
<1>4. /\ mm.place = "desc" /\ mm.time = m.time /\ mm.verdict = "OK"
      /\ mm.entries = es /\ mm.white = Append(Blanks(line.trail), "\n")
  BY <1>3
<1>5. MeaningOK(mm) /\ Foresees(m.entries, mm.entries)
  BY MeaningTyped
<1>6. Len(es) = Len(m.entries)
  BY <1>1, <1>2
<1>7. PICK n \in Nat : n = Len(m.entries)
  BY <1>1
<1>8. n \in 1..n
  <2>1. m.entries # <<>>
    BY <1>3 DEF MeaningOK
  <2>. QED
    BY <1>1, <1>7, <2>1, EmptySeq
<1>9. es[n].desc = Continued(m.entries[n].desc, m, line)
  <2>1. n \in DOMAIN m.entries /\ m.entries[n] \in Promise
    BY <1>1, <1>7, <1>8, ElementOfSeq
  <2>2. es[n] = [m.entries[n] EXCEPT !.desc =
                     Continued(m.entries[n].desc, m, line)]
    BY <1>2, <1>7, <2>1
  <2>. QED
    BY <2>1, <2>2 DEF Promise
<1>10. PICK d : es[n].desc = {d} /\ Above(mm) = d \o mm.white
  <2>1. Len(mm.entries) = n
    BY <1>4, <1>6, <1>7
  <2>. QED
    BY <1>4, <1>5, <2>1, AboveIs
<1>11. line.desc \in Seq(Plain)
  BY DescColumns
<1>12. d = Above(m) \o line.desc
  <2>1. CASE m.place = "body"
    <3>1. Above(m) = <<>> /\ m.entries[n].desc = {}
      BY <1>3, <1>7, <2>1, AboveIs DEF MeaningOK
    <3>2. d = line.desc
      BY <1>9, <1>10, <3>1 DEF Continued
    <3>3. <<>> \o line.desc = line.desc
      BY <1>11, ConcatEmptySeq
    <3>. QED
      BY <3>1, <3>2, <3>3
  <2>2. CASE m.place = "desc"
    <3>1. PICK x : m.entries[n].desc = {x} /\ Above(m) = x \o m.white
      BY <1>7, <2>2, AboveIs
    <3>2. es[n].desc = {x \o m.white \o line.desc}
      BY <1>9, <3>1 DEF Continued
    <3>3. d = x \o m.white \o line.desc
      BY <1>10, <3>2
    <3>. QED
      BY <3>1, <3>3
  <2>. QED
    BY <1>3, <2>1, <2>2
<1>. QED
  BY <1>4, <1>5, <1>6, <1>10, <1>12

\* Entries that matched the lines above match them and a description.
LEMMA MatchesDesc ==
    ASSUME NEW S, NEW ps \in Seq(S), NEW qs, Len(qs) = Len(ps),
           Foresees(ps, qs), NEW es, NEW b, Matches(es, ps, b)
    PROVE  Matches(es, qs, FALSE)
<1>1. PICK k \in Nat : k = Len(ps) /\ k = Len(qs) /\ k = Len(es)
  BY LenProperties DEF Matches
<1>2. ASSUME NEW j \in 1..k
      PROVE  Keeps(es[j], qs[j]) /\ (j < k => es[j].desc = qs[j].desc)
  <2>1. Keeps(es[j], ps[j]) /\ (j < k => es[j].desc = ps[j].desc)
    BY <1>1 DEF Matches
  <2>2. /\ ps[j].type = qs[j].type /\ ps[j].begin = qs[j].begin
        /\ ps[j].id = qs[j].id /\ ps[j].name = qs[j].name
        /\ ps[j].settled = qs[j].settled /\ ps[j].cat = qs[j].cat
        /\ j < k => ps[j].desc = qs[j].desc
    BY <1>1 DEF Foresees
  <2>. QED
    BY <2>1, <2>2 DEF Keeps
<1>. QED
  BY <1>1, <1>2 DEF Matches

LEMMA DescTurn ==
    ASSUME NEW f, Going(f), Turn, NEW i, NEW k, Stream(f, i, k),
           InDesc(f, i, k)
    PROVE  Outcome(f)
<1> DEFINE line == f.lines[i]
           m == f.mean[i]
           w == W(f, i)
           p == Width1 + Width2
           b == Above(m)
<1>1. /\ i \in 1..f.n /\ k \in Nat /\ k <= Width(f, i) /\ Width(f, i) \in Nat
      /\ MeaningOK(m) /\ m.verdict = "OK"
      /\ PlaceAfter(m.place, line) # "misplaced"
      /\ Len(w) \in Nat /\ Width(f, i) <= Len(w) /\ IsLine(line)
  BY StreamTyped, Lines
<1>2. pending /\ ret = "none" /\ line.kind = "desc" /\ Clock(m)
  BY DEF Turn, InDesc
<1>3. p \in Nat
  BY WidthAssumption
<1>4. m.place \in {"body", "desc"} /\ m \in Meanings
  BY <1>1, <1>2, MeaningDesc DEF MeaningOK
<1>5. /\ b \in Seq(NonNul) /\ Len(b) \in Nat
      /\ m.place = "body" => b = <<>>
  BY <1>1, <1>4, AboveIs, LenProperties
<1>6. Ahead1(f, i, k)
  BY <1>2, StreamToken
<1>7. (\A s \in {"desc0", "desc"} : Level(s) = 2) /\ Buffer
  BY LevelIs DEF Going, Holding, CacheInv
<1>8. /\ line.desc \in Seq(Plain) /\ line.trail \in Nat
      /\ Stands(line.desc, p, w) /\ Len(w) = p + Len(line.desc) + line.trail
      /\ BlankIn(p + Len(line.desc), Len(w), w)
  BY <1>1, <1>2, DescColumns DEF W
<1> HIDE DEF line, m, w, p, b
<1>9. k < Width(f, i) \/ k = Width(f, i)
  BY <1>1
<1>10. k = Width(f, i) => Ch = "\n" /\ Kind = "NEWLINE" /\ k = Len(w)
  BY <1>6 DEF Ahead1, KindIs, w
<1>11. k < Width(f, i) => Kind \in TextChar /\ Ch = w[k + 1]
  BY <1>6 DEF Ahead1, KindIs, w
<1>12. Ch \in Character /\ Kind \in TextChar \union {"NEWLINE"}
  BY <1>6, <1>9, <1>10, <1>11 DEF Ahead1
<1>13. UNCHANGED tm => Clock(m)'
  BY <1>2 DEF Clock, Minutes
<1>14. CASE pstate = "desc0"
  <2>1. m.place = "body" /\ k = p /\ k < Width(f, i)
    BY <1>14 DEF InDesc, m, p
  <2>2. FirstChar
    BY <1>12, <1>14, TurnFirstChar
  <2>3. /\ Consume /\ UNCHANGED <<numbers, tm, entries, ret>>
        /\ pstate' = "desc" /\ AddChar(0, Ch)
    BY <1>14, <2>2 DEF FirstChar, Sees, Enter
  <2>4. Cached(b, w, p, k + 1)'
    <3>1. Buffer /\ Ch = w[k + 1]
      BY <1>7, <1>11, <2>1
    <3>2. Cached(<<>>, w, k, k + 1)'
      BY <1>1, <1>12, <2>3, <3>1, CachedFirst
    <3>. QED
      BY <1>5, <2>1, <3>2
  <2>5. k + 1 >= p /\ k + 1 # p
    BY <1>3, <2>1
  <2>6. InDesc(f, i, k + 1)'
    BY <1>2, <1>13, <2>3, <2>4, <2>5 DEF InDesc, line, m, w, p, b
  <2>. QED
    BY <1>2, <1>7, <1>14, <2>1, <2>3, <2>6, TakesChar
<1>15. CASE pstate = "desc"
  <2>1. /\ k >= p /\ Cached(b, w, p, k)
        /\ k = p => m.place = "desc" /\ k < Width(f, i)
    BY <1>15 DEF InDesc, m, w, p, b
  <2>2. NextChar
    BY <1>12, <1>15, TurnNextChar
  <2>3. /\ Consume /\ UNCHANGED <<pstate, numbers, tm, entries, ret>>
        /\ AddChar(textpos, Ch)
    BY <2>2 DEF NextChar
  <2>4. CASE k < Width(f, i)
    <3>1. Cached(b, w, p, k + 1)'
      <4>1. Buffer /\ Ch = w[k + 1] /\ p <= k
        BY <1>3, <1>7, <1>11, <2>1, <2>4
      <4>. QED
        BY <1>1, <1>3, <1>5, <1>12, <2>1, <2>3, <4>1, CachedMore
    <3>2. k + 1 >= p /\ k + 1 # p
      BY <1>1, <1>3, <2>1
    <3>3. InDesc(f, i, k + 1)'
      BY <1>2, <1>13, <1>15, <2>3, <3>1, <3>2
         DEF InDesc, line, m, w, p, b
    <3>. QED
      BY <1>2, <1>7, <1>15, <2>3, <2>4, <3>3, TakesChar
  <2>5. CASE k = Width(f, i)
    <3>1. PICK mm : mm = MeaningAfter(m, line)
      OBVIOUS
    <3>2. /\ mm.place = "desc" /\ mm.time = m.time /\ mm.verdict = "OK"
          /\ Above(mm) = (b \o line.desc) \o Append(Blanks(line.trail), "\n")
          /\ Len(mm.entries) = Len(m.entries)
          /\ Foresees(m.entries, mm.entries)
      BY <1>1, <1>2, <3>1, AboveNext DEF b
    <3>3. PICK s : s = (b \o line.desc) \o Append(Blanks(line.trail), "\n")
      OBVIOUS
    <3>4. LineJoined(s, b, line.desc, line.trail)
      BY <1>5, <1>8, <3>3, JoinedLine
    <3>5. CacheIs(s)'
      <4>1. Buffer /\ Ch = "\n" /\ k = Len(w)
            /\ k = p + Len(line.desc) + line.trail
        BY <1>7, <1>8, <1>10, <2>5
      <4>2. PICK e, r : e = line.desc /\ r = line.trail
        OBVIOUS
      <4>3. /\ e \in Seq(Plain) /\ r \in Nat /\ Stands(e, p, w)
            /\ BlankIn(p + Len(e), Len(w), w) /\ k = p + Len(e) + r
            /\ LineJoined(s, b, e, r)
        BY <1>8, <3>4, <4>1, <4>2
      <4>. QED
        BY <1>3, <1>5, <1>12, <2>1, <2>3, <4>1, <4>3, LineCached
    <3>6. CacheIs(Above(mm))'
      BY <3>2, <3>3, <3>5 DEF CacheIs
    <3>7. Clock(mm)'
      BY <1>2, <2>3, <3>2 DEF Clock, Minutes
    <3>8. Recorded(mm)'
      <4>1. Matches(entries, m.entries, FALSE)
        BY <1>15 DEF Stream, Recorded, m
      <4>2. m.entries \in Seq(Promise)
        BY <1>4 DEF Meanings
      <4>3. Matches(entries, mm.entries, FALSE)
        BY <3>2, <4>1, <4>2, MatchesDesc
      <4>. QED
        BY <1>15, <2>3, <4>3 DEF Recorded
    <3>9. pstate' = StateAt[mm.place]
      BY <1>15, <2>3, <3>2 DEF StateAt
    <3>10. Sound(f)'
      BY <1>2, <2>3, <2>5, <3>1, <3>2, <3>6, <3>7, <3>8, <3>9, NextLine
         DEF line, m
    <3>. QED
      BY <1>2, <2>3, <3>10 DEF Outcome
  <2>. QED
    BY <1>9, <2>4, <2>5
<1>. QED
  BY <1>14, <1>15 DEF InDesc

----------------------------------------------------------------------------
(* The token of an empty line, and the first one of an item.                *)

\* White space is added to what was read of a description.
LEMMA WhiteCached ==
    ASSUME Buffer, NEW d \in Seq(NonNul), NEW v \in Seq(Spaces),
           CacheIs(d \o v), NEW ch, ch = "\n", ch \in Character,
           AddChar(textpos, ch)
    PROVE  CacheIs(d \o Append(v, "\n"))'
<1>1. PICK l \in Nat, n \in Nat : l = Len(d) /\ n = Len(v)
  BY LenProperties
<1>2. PICK z : z = Append(v, "\n")
  OBVIOUS
<1>13. PICK q \in Nat : q = n + 1
  OBVIOUS
<1>3. /\ Len(z) = q /\ z[q] = "\n" /\ \A j \in 1..n : z[j] = v[j]
      /\ z \in Seq(NonNul) /\ v \in Seq(NonNul)
  <2>1. /\ Len(Append(v, "\n")) = Len(v) + 1
        /\ Append(v, "\n")[Len(v) + 1] = "\n"
        /\ \A j \in 1..Len(v) : Append(v, "\n")[j] = v[j]
    BY Appended
  <2>2. "\n" \in Spaces
    BY DEF Spaces
  <2>3. Append(v, "\n") \in Seq(Spaces)
    BY <2>2, AppendProperties
  <2>. QED
    BY <1>1, <1>2, <1>13, <2>1, <2>3, SpacesTyped, SeqMonotonic
<1>4. PICK s, u : s = d \o z /\ u = d \o v
  OBVIOUS
<1>5. /\ Len(s) = l + q
      /\ \A j \in 1..(l + q) : s[j] = IF j <= l THEN d[j] ELSE z[j - l]
  BY <1>1, <1>3, <1>4, ConcatProperties
<1>6. /\ Len(u) = l + n
      /\ \A j \in 1..(l + n) : u[j] = IF j <= l THEN d[j] ELSE v[j - l]
  BY <1>1, <1>3, <1>4, ConcatProperties
<1>7. textpos = l + n /\ \A j \in 1..(l + n) : text[j] = u[j]
  <2>1. CacheIs(u)
    BY <1>4
  <2>. QED
    BY <1>6, <2>1 DEF CacheIs
<1>8. /\ textpos' = l + n + 1 /\ text'[l + n + 1] = "\n"
      /\ \A j \in 1..(l + n) : text'[j] = text[j]
  <2>1. /\ textpos' = textpos + 1 /\ text'[textpos + 1] = "\n"
        /\ \A j \in 1..textpos : text'[j] = text[j]
    BY Added DEF Buffer
  <2>. QED
    BY <1>7, <2>1
<1>9. ASSUME NEW j \in 1..(l + n)
      PROVE  text'[j] = s[j]
  <2>1. j \in 1..(l + q)
    BY <1>13
  <2>2. j <= l => s[j] = d[j] /\ u[j] = d[j]
    BY <1>5, <1>6, <2>1
  <2>3. ~(j <= l) => s[j] = z[j - l] /\ u[j] = v[j - l] /\ j - l \in 1..n
    BY <1>5, <1>6, <2>1
  <2>4. s[j] = u[j]
    BY <1>3, <2>2, <2>3
  <2>. QED
    BY <1>7, <1>8, <2>4
<1>10. text'[l + n + 1] = s[l + n + 1]
  <2>1. PICK x \in Nat : x = l + n + 1
    OBVIOUS
  <2>2. x \in 1..(l + q) /\ ~(x <= l) /\ x - l = q
    BY <1>13, <2>1
  <2>3. s[x] = z[q]
    BY <1>5, <2>2
  <2>. QED
    BY <1>3, <1>8, <2>1, <2>3
<1>11. Len(s) = l + n + 1
  BY <1>5, <1>13
<1>12. \A j \in 1..(l + n + 1) : j \in 1..(l + n) \/ j = l + n + 1
  OBVIOUS
<1>. QED
  BY <1>2, <1>4, <1>8, <1>9, <1>10, <1>11, <1>12 DEF CacheIs

\* What an empty line means.
LEMMA EmptyNext ==
    ASSUME NEW m, MeaningOK(m), m.verdict = "OK", NEW line,
           line.kind = "empty", PlaceAfter(m.place, line) # "misplaced",
           NEW mm, mm = MeaningAfter(m, line)
    PROVE  /\ mm.place = IF m.place = "body" THEN "items" ELSE m.place
           /\ mm.time = m.time /\ mm.verdict = "OK"
           /\ mm.white = Append(m.white, "\n") /\ mm.entries = m.entries
           /\ m.place \in {"dated", "items", "body", "desc"}
BY MeaningEmpty DEF MeaningOK

LEMMA EmptyTurn ==
    ASSUME NEW f, Going(f), Turn, NEW i, NEW k, Stream(f, i, k),
           InEmpty(f, i, k)
    PROVE  Outcome(f)
<1> DEFINE line == f.lines[i]
           m == f.mean[i]
<1>1. /\ i \in 1..f.n /\ k \in Nat /\ k <= Width(f, i)
      /\ MeaningOK(m) /\ m.verdict = "OK"
      /\ PlaceAfter(m.place, line) # "misplaced"
  BY StreamTyped
<1>2. pending /\ ret = "none" /\ line.kind = "empty" /\ Clock(m) /\ k = 0
  BY DEF Turn, InEmpty
<1>3. k = Width(f, i)
  <2>1. Len(W(f, i)) = 0
    BY <1>2, EmptyColumns DEF W
  <2>2. Width(f, i) \in Nat /\ Width(f, i) <= Len(W(f, i))
    BY <1>1, Lines
  <2>. QED
    BY <1>2, <2>1, <2>2
<1>4. Ch = "\n" /\ Kind = "NEWLINE" /\ Ch \in Character
  BY <1>2, <1>3, StreamToken DEF Ahead1, KindIs
<1>5. PICK mm : mm = MeaningAfter(m, line)
  OBVIOUS
<1>6. /\ mm.place = IF m.place = "body" THEN "items" ELSE m.place
      /\ mm.time = m.time /\ mm.verdict = "OK"
      /\ mm.white = Append(m.white, "\n") /\ mm.entries = m.entries
  BY <1>1, <1>2, <1>5, EmptyNext
<1>7. Level("items") = Level("body") /\ Buffer
  BY LevelIs DEF Going, Holding, CacheInv
<1> HIDE DEF line, m
<1>8. UNCHANGED tm => Clock(m)' /\ Clock(mm)'
  BY <1>2, <1>6 DEF Clock, Minutes
<1>9. ASSUME Consume, UNCHANGED <<pstate, tm, entries, ret>>,
             pstate = StateAt[mm.place],
             mm.place = "desc" => CacheIs(Above(mm))'
      PROVE  Outcome(f)
  <2>1. Recorded(mm)'
    BY <1>6, <1>9 DEF Stream, Recorded, Matches, m
  <2>2. Level(pstate') = Level(pstate)
    BY <1>9
  <2>3. Sound(f)'
    BY <1>2, <1>3, <1>5, <1>6, <1>8, <1>9, <2>1, <2>2, NextLine
       DEF line, m
  <2>. QED
    BY <1>2, <1>9, <2>3 DEF Outcome
<1>10. CASE pstate = "emptylines" /\ m.place = "dated"
  <2>1. /\ Consume /\ UNCHANGED <<numbers, cache, tm, entries, ret>>
        /\ <<pstate, Kind, pstate'>> \in Shifts
    BY <1>4, <1>10, TurnShift DEF Leads
  <2>2. pstate' = "emptylines"
    BY <1>4, <1>10, <2>1 DEF Shifts
  <2>. QED
    BY <1>6, <1>9, <1>10, <2>1, <2>2 DEF StateAt
<1>11. CASE pstate = "items" /\ m.place \in {"items", "body"}
  <2>1. /\ Consume /\ UNCHANGED <<numbers, cache, tm, entries, ret>>
        /\ <<pstate, Kind, pstate'>> \in Shifts
    BY <1>4, <1>11, TurnShift DEF Leads
  <2>2. pstate' = "items"
    BY <1>4, <1>11, <2>1 DEF Shifts
  <2>. QED
    BY <1>6, <1>9, <1>11, <2>1, <2>2 DEF StateAt
<1>12. CASE pstate = "body" /\ m.place = "body"
  <2>1. NoBody
    BY <1>4, <1>12, TurnNoBody
  <2>2. /\ pstate' = "items" /\ UNCHANGED entries
        /\ UNCHANGED <<source, lexer, pending, numbers, tm, ret>>
    BY <2>1 DEF NoBody, Enter, DescSet, EmptyBody
  <2>3. InEmpty(f, i, k)'
    BY <1>2, <1>8, <1>12, <2>2 DEF InEmpty, line, m
  <2>. QED
    BY <1>2, <1>7, <1>12, <2>2, <2>3, LeavesChar
<1>13. CASE pstate = "desc" /\ m.place = "desc" /\ CacheIs(Above(m))
  <2>1. NextChar
    BY <1>4, <1>13, TurnNextChar
  <2>2. /\ Consume /\ UNCHANGED <<pstate, numbers, tm, entries, ret>>
        /\ AddChar(textpos, Ch)
    BY <2>1 DEF NextChar
  <2>3. PICK d : /\ m.entries[Len(m.entries)].desc = {d} /\ IsDesc(d)
                 /\ Above(m) = d \o m.white
    BY <1>1, <1>13, AboveIs
  <2>4. Above(mm) = d \o Append(m.white, "\n")
    <3>1. MeaningOK(mm) /\ mm.place = "desc"
      <4>1. IsLine(line)
        BY <1>1, Lines DEF line
      <4>. QED
        BY <1>1, <1>5, <1>6, <1>13, <4>1, MeaningTyped
    <3>2. PICK x : /\ mm.entries[Len(mm.entries)].desc = {x}
                   /\ Above(mm) = x \o mm.white
      BY <3>1, AboveIs
    <3>3. x = d
      BY <1>6, <2>3, <3>2
    <3>. QED
      BY <1>6, <3>2, <3>3
  <2>5. CacheIs(Above(mm))'
    <3>1. d \in Seq(NonNul) /\ m.white \in Seq(Spaces)
      BY <1>1, <2>3 DEF IsDesc, MeaningOK, Meanings, Spaces
    <3>2. PICK v : v = m.white
      OBVIOUS
    <3>3. CacheIs(d \o v) /\ v \in Seq(Spaces)
      BY <1>13, <2>3, <3>1, <3>2
    <3>4. CacheIs(d \o Append(v, "\n"))'
      BY <1>4, <1>7, <2>2, <3>1, <3>3, WhiteCached
    <3>5. Above(mm) = d \o Append(v, "\n")
      BY <2>4, <3>2
    <3>. QED
      BY <3>4, <3>5 DEF CacheIs
  <2>. QED
    BY <1>6, <1>9, <1>13, <2>2, <2>5 DEF StateAt
<1>. QED
  BY <1>10, <1>11, <1>12, <1>13 DEF InEmpty, m

LEMMA ItemTurn ==
    ASSUME NEW f, Going(f), Turn, NEW i, NEW k, Stream(f, i, k),
           InItem(f, i, k)
    PROVE  Outcome(f)
<1> DEFINE line == f.lines[i]
           m == f.mean[i]
           w == W(f, i)
<1>1. i \in 1..f.n /\ k \in Nat /\ IsLine(line) /\ Width1 \in Nat
  BY StreamTyped, Lines, WidthAssumption
<1>2. /\ pending /\ ret = "none" /\ line.kind \in {"work", "task"}
      /\ Clock(m) /\ k = Width1 /\ k < Width(f, i)
  BY DEF Turn, InItem
<1>3. KindIs(Kind, Ch) /\ Ch = w[k + 1] /\ Ch # "\n"
  BY <1>2, StreamToken DEF Ahead1
<1>4. /\ Level("items") = Level("body") /\ Level("items") = Level("hour")
      /\ Level("items") = Level("id0")
  BY LevelIs
<1>5. line.kind = "work" => /\ line.hour \in 0..99
                            /\ Digits(line.hour) \in {1, 2}
                            /\ NumberAt(line.hour, Width1, w)
  BY <1>1, WorkColumns DEF W
<1>6. line.kind = "task" => w[Width1 + 1] = "#"
  BY <1>1, TaskColumns DEF W
<1> HIDE DEF line, m, w
<1>7. UNCHANGED tm => Clock(m)'
  BY <1>2 DEF Clock, Minutes
<1>8. CASE pstate = "items" /\ line.kind = "work"
  <2>1. Digit1(f, i, k, line.hour, 0)
    <3>1. /\ NumberAt(line.hour, Width1, W(f, i)) /\ line.hour \in 0..99
          /\ 0 < Digits(line.hour) /\ k = Width1 + 0
      BY <1>1, <1>2, <1>5, <1>8 DEF w
    <3>. QED
      BY <1>1, <1>2, <3>1, DigitAhead
  <2>2. FirstDigit
    BY <1>8, <2>1, TurnNumber DEF Digit1, NumberStates
  <2>3. Value[Ch] \in Nat /\ Value[Ch] = Part(line.hour, 1)
    BY <2>1 DEF Digit1
  <2>4. /\ Consume /\ pstate' = "hour" /\ UNCHANGED <<entries, ret, tm>>
        /\ numbers' = <<Part(line.hour, 1)>>
    BY <1>8, <2>2, <2>3, NumbersGrow DEF FirstDigit, Enter, Number
  <2>5. InWork(f, i, k + 1)'
    <3>1. /\ k + 1 \in (Width1 + 1)..(Width1 + Digits(line.hour))
          /\ (k + 1) - Width1 = 1
      BY <1>1, <1>2, <1>5, <1>8
    <3>. QED
      BY <1>7, <1>8, <2>4, <3>1 DEF InWork, line, m
  <2>. QED
    BY <1>2, <1>4, <1>8, <2>4, <2>5, TakesChar
<1>9. CASE pstate = "items" /\ line.kind = "task"
  <2>1. Kind = "HASH"
    BY <1>2, <1>3, <1>6, <1>9 DEF KindIs
  <2>2. /\ Consume /\ UNCHANGED <<numbers, cache, tm, entries, ret>>
        /\ <<pstate, Kind, pstate'>> \in Shifts
    BY <1>9, <2>1, TurnShift DEF Leads
  <2>3. pstate' = "id0"
    BY <1>9, <2>1, <2>2 DEF Shifts
  <2>4. InTask(f, i, k + 1)'
    BY <1>2, <1>7, <1>9, <2>2, <2>3 DEF InTask, line, m
  <2>. QED
    BY <1>2, <1>4, <1>9, <2>2, <2>3, <2>4, TakesChar
<1>10. CASE pstate = "body" /\ m.place = "body"
  <2>1. NoBody
    BY <1>3, <1>10, TurnNoBody DEF KindIs
  <2>2. /\ pstate' = "items" /\ UNCHANGED entries
        /\ UNCHANGED <<source, lexer, pending, numbers, tm, ret>>
    BY <2>1 DEF NoBody, Enter, DescSet, EmptyBody
  <2>3. InItem(f, i, k)'
    BY <1>2, <1>7, <2>2 DEF InItem, line, m
  <2>. QED
    BY <1>2, <1>4, <1>10, <2>2, <2>3, LeavesChar
<1>. QED
  BY <1>2, <1>8, <1>9, <1>10 DEF InItem, m

----------------------------------------------------------------------------
(* The end of a description.                                                *)

\* Entries that differ in nothing but the last description.
Described(es, fs, d) ==
    /\ es # <<>> /\ Len(fs) = Len(es)
    /\ \A j \in 1..Len(es) :
          fs[j] = IF j = Len(es) THEN [es[j] EXCEPT !.desc = d] ELSE es[j]

LEMMA DescribedMatches ==
    ASSUME NEW es \in Seq(MadeEntry), NEW fs, NEW d, Described(es, fs, d),
           NEW ps, NEW b, Matches(es, ps, b)
    PROVE  /\ Matches(fs, ps, FALSE)
           /\ d = ps[Len(ps)].desc => Matches(fs, ps, TRUE)
<1>1. PICK n \in Nat : n = Len(es) /\ n = Len(fs) /\ n = Len(ps)
  BY LenProperties DEF Matches, Described
<1>2. ASSUME NEW j \in 1..n
      PROVE  /\ Keeps(fs[j], ps[j])
             /\ j < n => fs[j].desc = ps[j].desc
             /\ j = n => fs[j].desc = d
  <2>1. Keeps(es[j], ps[j]) /\ (j < n => es[j].desc = ps[j].desc)
    BY <1>1 DEF Matches
  <2>2. es[j] \in MadeEntry
    BY <1>1, ElementOfSeq
  <2>3. CASE j = n
    <3>1. PICK e : e = es[j]
      OBVIOUS
    <3>2. fs[j] = [e EXCEPT !.desc = d]
      BY <1>1, <2>3, <3>1 DEF Described
    <3>3. /\ fs[j].type = e.type /\ fs[j].begin = e.begin /\ fs[j].id = e.id
          /\ fs[j].name = e.name /\ fs[j].cat = e.cat /\ fs[j].desc = d
      BY <2>2, <3>1, <3>2 DEF MadeEntry
    <3>. QED
      BY <2>1, <2>3, <3>1, <3>3 DEF Keeps
  <2>4. CASE j # n
    <3>1. fs[j] = es[j]
      BY <1>1, <2>4 DEF Described
    <3>. QED
      BY <2>1, <2>4, <3>1
  <2>. QED
    BY <2>3, <2>4
<1>3. \A j \in 1..n : j < n \/ j = n
  OBVIOUS
<1>. QED
  BY <1>1, <1>2, <1>3 DEF Matches

LEMMA BodyDescribes ==
    ASSUME Holding, Body, textpos # 0, NEW s, s = Put(text, textpos, "NUL"),
           NEW t, t = Stripped(s, 0)
    PROVE  /\ Consume /\ UNCHANGED <<numbers, tm, ret>> /\ pstate' = "items"
           /\ entries \in Seq(MadeEntry)
           /\ Described(entries, entries', {String(t, Skip(t, 0))})
<1>1. /\ Consume /\ UNCHANGED <<numbers, tm, ret>> /\ pstate' = "items"
      /\ DescSet(textpos) /\ pstate = "desc"
  BY DEF Body, Sees, Enter
<1>2. entries \in Seq(MadeEntry) /\ entries # <<>>
  BY <1>1 DEF Holding, CacheInv, Made
<1>3. PICK n \in Nat : n = Len(entries) /\ n \in 1..n
  BY <1>2, EmptySeq, LenProperties
<1>4. PICK d : d = {String(t, Skip(t, 0))}
  OBVIOUS
<1>5. entries' = [entries EXCEPT ![n].desc = d]
  BY <1>1, <1>3, <1>4 DEF DescSet
<1>6. /\ Len(entries') = n
      /\ \A j \in 1..n : entries'[j] = IF j = n
                                       THEN [entries[j] EXCEPT !.desc = d]
                                       ELSE entries[j]
  BY <1>2, <1>3, <1>5
<1>. QED
  BY <1>1, <1>2, <1>3, <1>4, <1>6 DEF Described

LEMMA BodyTaken ==
    ASSUME Holding, Body, NEW m, MeaningOK(m), m.place = "desc",
           CacheIs(Above(m)), Recorded(m)
    PROVE  /\ Consume /\ UNCHANGED <<numbers, tm, ret>> /\ pstate' = "items"
           /\ Recorded(m)'
<1>1. PICK d : /\ m.entries[Len(m.entries)].desc = {d} /\ IsDesc(d)
               /\ Above(m) = d \o m.white
  BY AboveIs
<1>2. PICK v : v = m.white
  OBVIOUS
<1>3. /\ d \in Seq(NonNul) /\ v \in Seq(Spaces) /\ v \in Seq(NonNul)
      /\ v \in Seq(White)
  <2>1. d \in Seq(NonNul)
    BY <1>1 DEF IsDesc
  <2>2. v \in Seq(Spaces)
    BY <1>2 DEF MeaningOK, Meanings, Spaces
  <2>3. v \in Seq(NonNul)
    BY <2>2, SpacesTyped, SeqMonotonic
  <2>4. v \in Seq(White)
    BY <2>2, SpacesTyped, SeqMonotonic
  <2>. QED
    BY <2>1, <2>2, <2>3, <2>4
<1>4. PICK l \in Nat, n \in Nat : l = Len(d) /\ n = Len(v)
  BY <1>3, LenProperties
<1>5. PICK u : u = d \o v
  OBVIOUS
<1>6. /\ Len(u) = l + n
      /\ \A j \in 1..(l + n) : u[j] = IF j <= l THEN d[j] ELSE v[j - l]
  BY <1>3, <1>4, <1>5, ConcatProperties
<1>7. textpos = l + n /\ \A j \in 1..(l + n) : text[j] = u[j]
  <2>1. CacheIs(u)
    BY <1>1, <1>2, <1>5
  <2>. QED
    BY <1>6, <2>1 DEF CacheIs
<1>8. l > 0
  BY <1>1, <1>4 DEF IsDesc
<1>9. PICK s : s = Put(text, textpos, "NUL")
  OBVIOUS
<1>10. PICK t : t = Stripped(s, 0)
  OBVIOUS
<1>11. /\ Ends(s) /\ textpos < Len(s) /\ s[textpos + 1] = "NUL"
       /\ \A j \in 1..textpos : s[j] = text[j]
  BY <1>9, CacheEnded DEF Holding, CacheInv
<1>12. Len(s) \in Nat
  BY <1>11, LenProperties DEF Ends
<1>13. Stands(d, 0, s)
  <2>1. ASSUME NEW j \in 1..l
        PROVE  s[0 + j] = d[j]
    <3>1. j \in 1..(l + n) /\ j \in 1..textpos /\ j <= l /\ 0 + j = j
      BY <1>7
    <3>. QED
      BY <1>6, <1>7, <1>11, <3>1
  <2>2. 0 + l <= Len(s)
    BY <1>7, <1>11, <1>12
  <2>. QED
    BY <1>4, <2>1, <2>2 DEF Stands
<1>14. Stands(v, l, s)
  <2>1. ASSUME NEW j \in 1..n
        PROVE  s[l + j] = v[j]
    <3>1. PICK x \in Nat : x = l + j
      OBVIOUS
    <3>2. /\ x \in 1..(l + n) /\ x \in 1..textpos /\ ~(x <= l)
          /\ x - l = j
      BY <1>7, <3>1
    <3>. QED
      BY <1>6, <1>7, <1>11, <3>1, <3>2
  <2>2. l + n <= Len(s)
    BY <1>7, <1>11, <1>12
  <2>. QED
    BY <1>4, <2>1, <2>2 DEF Stands
<1>15. String(t, Skip(t, 0)) = d
  <2>1. PICK q \in Nat : q = textpos
    BY <1>7
  <2>2. /\ q = Len(d) + Len(v) /\ q < Len(s) /\ s[q + 1] = "NUL"
        /\ Stands(v, Len(d), s)
    BY <1>4, <1>7, <1>11, <1>14, <2>1
  <2>3. /\ Ends(s) /\ Len(d) > 0 /\ d[1] \notin White
        /\ d[Len(d)] \notin White
    BY <1>1, <1>11 DEF IsDesc
  <2>. QED
    BY <1>3, <1>10, <1>13, <2>2, <2>3, DescRead
<1>16. textpos # 0
  BY <1>7, <1>8
<1>17. /\ Consume /\ UNCHANGED <<numbers, tm, ret>> /\ pstate' = "items"
       /\ entries \in Seq(MadeEntry) /\ Described(entries, entries', {d})
  BY <1>9, <1>10, <1>15, <1>16, BodyDescribes
<1>18. Matches(entries', m.entries, TRUE)
  <2>1. Matches(entries, m.entries, pstate # "desc")
    BY DEF Recorded
  <2>2. PICK b : b = (pstate # "desc")
    OBVIOUS
  <2>3. Matches(entries, m.entries, b)
    BY <2>1, <2>2
  <2>. QED
    BY <1>1, <1>17, <2>3, DescribedMatches
<1>19. Recorded(m)'
  BY <1>17, <1>18 DEF Recorded
<1>. QED
  BY <1>17, <1>19

----------------------------------------------------------------------------
(* The tokens that open and close levels.                                   *)

\* The token is taken and the line is read on.
LEMMA LeadTaken ==
    ASSUME NEW f, Going(f), NEW i, InLine(f, i), NEW k, Behind(f, i, k),
           k \in Nat, Consume, ~cacheParseindent, ~cacheDeindent,
           NEW l, LevelsAre(l), l = Level(pstate'),
           Recorded(f.mean[i])', ret' = "none",
           \/ InDate(f, i, k)' \/ InDesc(f, i, k)' \/ InItem(f, i, k)'
    PROVE  Outcome(f)
<1>1. InLine(f, i)' /\ i \in 1..f.n
  BY InLineKept DEF Going, InLine
<1>2. k \in 0..Width(f, i)
  BY <1>1, Lines DEF Behind
<1>3. /\ ~pending' /\ ~cacheDeindent' /\ ~cacheParseindent'
      /\ at' = f.start[i] + k
  BY DEF Consume, lexer, Behind
<1>4. LevelsAre(Level(pstate))'
  BY DEF Consume, lexer, LevelsAre
<1>5. Stream(f, i, k)'
  BY <1>1, <1>2, <1>3, <1>4 DEF Stream
<1>6. Reading(f, i, k)'
  BY <1>5 DEF Reading
<1>. QED
  BY <1>6, InReading DEF Outcome

\* Entries are as they were outside of descriptions.
LEMMA RecordedOn ==
    ASSUME NEW m, Recorded(m), UNCHANGED entries, pstate # "desc"
    PROVE  Recorded(m)'
BY RecordedKept

LEMMA LeadingTurn ==
    ASSUME NEW f, Going(f), Turn, NEW i, Leading(f, i)
    PROVE  Outcome(f)
<1> DEFINE m == f.mean[i]
           kind == f.lines[i].kind
<1>1. /\ InLine(f, i) /\ i \in 1..f.n /\ Recorded(m) /\ ~cacheParseindent
      /\ Clock(m) /\ ret = "none" /\ pending
  BY DEF Leading, InLine, Turn
<1>2. MeaningOK(m)
  BY <1>1, Lines
<1>3. /\ \A s \in {"desc0", "desc"} : Level(s) = 2
      /\ \A s \in {"items", "body"} : Level(s) = 1
      /\ \A s \in {"days", "emptylines"} : Level(s) = 0
  BY LevelIs
<1>4. Width1 \in Nat /\ Width1 + Width2 \in Nat /\ 0 \in Nat /\ 1 \in Nat
  BY WidthAssumption
<1>5. token \in {"INDENT", "DEINDENT"} => Kind = token
  BY KindFor
<1> HIDE DEF m, kind
<1>6. UNCHANGED tm => Clock(m)'
  BY <1>1 DEF Clock, Minutes
<1>7. CASE /\ token = "INDENT" /\ pstate = "emptylines"
           /\ m.place = "dated" /\ kind \in {"work", "task"}
           /\ Behind(f, i, Width1) /\ LevelsAre(1) /\ ~cacheDeindent
  <2>1. /\ Consume /\ UNCHANGED <<numbers, cache, tm, entries, ret>>
        /\ <<pstate, Kind, pstate'>> \in Shifts
    BY <1>5, <1>7, TurnShift DEF Leads
  <2>2. pstate' = "items"
    BY <1>5, <1>7, <2>1 DEF Shifts
  <2>3. InItem(f, i, Width1)'
    BY <1>6, <1>7, <2>1, <2>2 DEF InItem, Behind, m, kind
  <2>4. Recorded(m)'
    BY <1>1, <1>7, <2>1, RecordedOn
  <2>. QED
    BY <1>1, <1>3, <1>4, <1>7, <2>1, <2>2, <2>3, <2>4, LeadTaken DEF m
<1>8. CASE /\ token = "DEINDENT" /\ pstate \in {"items", "body"}
           /\ m.place \in {"items", "body"} /\ kind = "date"
           /\ Behind(f, i, 0) /\ LevelsAre(0) /\ ~cacheDeindent
  <2>1. CASE pstate = "items"
    <3>1. /\ Consume /\ UNCHANGED <<numbers, cache, tm, entries, ret>>
          /\ <<pstate, Kind, pstate'>> \in Shifts
      BY <1>5, <1>8, <2>1, TurnShift DEF Leads
    <3>2. pstate' = "days"
      BY <1>5, <1>8, <2>1, <3>1 DEF Shifts, DayEnd
    <3>3. InDate(f, i, 0)'
      BY <1>8, <3>1, <3>2 DEF InDate, Behind, m, kind
    <3>4. Recorded(m)'
      BY <1>1, <2>1, <3>1, RecordedOn
    <3>. QED
      BY <1>1, <1>3, <1>4, <1>8, <3>1, <3>2, <3>3, <3>4, LeadTaken DEF m
  <2>2. CASE pstate = "body"
    <3>1. NoBody
      BY <1>5, <1>8, <2>2, TurnNoBody
    <3>2. /\ pstate' = "items" /\ UNCHANGED entries
          /\ UNCHANGED <<source, lexer, pending, numbers, tm, ret>>
      BY <3>1 DEF NoBody, Enter, DescSet, EmptyBody
    <3>3. Recorded(m)' /\ InLine(f, i)'
      BY <1>1, <2>2, <3>2, RecordedOn, InLineKept DEF Going
    <3>4. Leading(f, i)'
      BY <1>1, <1>6, <1>8, <3>2, <3>3
         DEF Leading, Behind, LevelsAre, lexer, m, kind
    <3>. QED
      BY <1>1, <3>2, <3>4, InLeading DEF Outcome
  <2>. QED
    BY <1>8, <2>1, <2>2
<1>9. CASE /\ token = "DEINDENT" /\ pstate = "desc"
           /\ m.place = "desc" /\ kind = "date" /\ CacheIs(Above(m))
           /\ Behind(f, i, 0) /\ Width(f, i) > 1
           /\ LevelsAre(0) /\ cacheDeindent
  <2>1. Body
    BY <1>5, <1>9, TurnBody
  <2>2. /\ Consume /\ UNCHANGED <<numbers, tm, ret>> /\ pstate' = "items"
        /\ Recorded(m)'
    BY <1>1, <1>2, <1>9, <2>1, BodyTaken DEF Going
  <2>3. Leading(f, i)'
    <3>1. InLine(f, i)'
      BY <1>1, InLineKept DEF Going
    <3>. QED
      BY <1>1, <1>6, <1>9, <2>2, <3>1
         DEF Leading, Behind, LevelsAre, lexer, Consume, m, kind
  <2>. QED
    BY <1>1, <2>2, <2>3, InLeading DEF Outcome
<1>10. CASE /\ token = "DEINDENT" /\ pstate = "desc"
            /\ m.place = "desc" /\ kind \in {"work", "task"}
            /\ CacheIs(Above(m))
            /\ Behind(f, i, Width1) /\ LevelsAre(1) /\ ~cacheDeindent
  <2>1. Body
    BY <1>5, <1>10, TurnBody
  <2>2. /\ Consume /\ UNCHANGED <<numbers, tm, ret>> /\ pstate' = "items"
        /\ Recorded(m)'
    BY <1>1, <1>2, <1>10, <2>1, BodyTaken DEF Going
  <2>3. InItem(f, i, Width1)'
    BY <1>6, <1>10, <2>2 DEF InItem, Behind, m, kind
  <2>. QED
    BY <1>1, <1>3, <1>4, <1>10, <2>2, <2>3, LeadTaken DEF m
<1>11. CASE /\ token = "INDENT" /\ pstate = "body"
            /\ m.place = "body" /\ kind = "desc"
            /\ Behind(f, i, Width1 + Width2) /\ LevelsAre(2)
            /\ ~cacheDeindent
  <2>1. /\ Consume /\ UNCHANGED <<numbers, cache, tm, entries, ret>>
        /\ <<pstate, Kind, pstate'>> \in Shifts
    BY <1>5, <1>11, TurnShift DEF Leads
  <2>2. pstate' = "desc0"
    BY <1>5, <1>11, <2>1 DEF Shifts
  <2>3. InDesc(f, i, Width1 + Width2)'
    BY <1>6, <1>11, <2>1, <2>2 DEF InDesc, Behind, m, kind
  <2>4. Recorded(m)'
    BY <1>1, <1>11, <2>1, RecordedOn
  <2>. QED
    BY <1>1, <1>3, <1>4, <1>11, <2>1, <2>2, <2>3, <2>4, LeadTaken DEF m
<1>12. CASE /\ token = "DEINDENT" /\ pstate = "items"
            /\ m.place = "desc" /\ kind = "date" /\ Behind(f, i, 1)
            /\ LevelsAre(0) /\ ~cacheDeindent
  <2>1. /\ Consume /\ UNCHANGED <<numbers, cache, tm, entries, ret>>
        /\ <<pstate, Kind, pstate'>> \in Shifts
    BY <1>5, <1>12, TurnShift DEF Leads
  <2>2. pstate' = "days"
    BY <1>5, <1>12, <2>1 DEF Shifts, DayEnd
  <2>3. InDate(f, i, 1)'
    BY <1>12, <2>1, <2>2 DEF InDate, Behind, m, kind
  <2>4. Recorded(m)'
    BY <1>1, <1>12, <2>1, RecordedOn
  <2>. QED
    BY <1>1, <1>3, <1>4, <1>12, <2>1, <2>2, <2>3, <2>4, LeadTaken DEF m
<1>. QED
  BY <1>1, <1>7, <1>8, <1>9, <1>10, <1>11, <1>12 DEF Leading, m, kind

----------------------------------------------------------------------------
(* The end of the file.                                                     *)

\* The file is accepted, or a description is made on the way to refusing it.
Accepts(f) == /\ ret' = "OK" /\ meaning.verdict = "OK" /\ UNCHANGED entries
              /\ Recorded(f.mean[f.n]) /\ pstate = "days"

Redescribes == /\ Doomed' /\ UNCHANGED ret /\ entries \in Seq(MadeEntry)
               /\ \E d : Described(entries, entries', d)

LEMMA InEnding ==
    ASSUME NEW f, Ending(f)', ret' = "none"
    PROVE  Outcome(f)
BY DEF Outcome, Sound

LEMMA EndingTurn ==
    ASSUME NEW f, Going(f), Turn, Ending(f)
    PROVE  Outcome(f) \/ Accepts(f)
<1> DEFINE m == f.mean[f.n]
           AtEnd == at = Len(source) /\ ~cacheDeindent
           Verdicts == meaning.verdict = "OK" /\ m.verdict = "OK"
<1>1. /\ Verdicts /\ Recorded(m) /\ ~cacheParseindent
      /\ ret = "none" /\ pending /\ UNCHANGED meaning
  BY DEF Ending, Turn, Going
<1>2. MeaningOK(m)
  <2>1. f.n \in 1..f.n
    BY DEF Going, IsFile
  <2>. QED
    BY <2>1, Lines
<1>3. token \in {"INDENT", "DEINDENT", "END"} => Kind = token
  BY KindFor
<1>4. Width1 # 0
  BY WidthAssumption
<1> HIDE DEF m, Verdicts, AtEnd
<1>5. CASE /\ token = "INDENT" /\ pstate = "emptylines"
           /\ AtEnd /\ indent1 # 0 /\ indent2 = 0
  <2>1. /\ Consume /\ UNCHANGED <<numbers, cache, tm, entries, ret>>
        /\ <<pstate, Kind, pstate'>> \in Shifts
    BY <1>3, <1>5, TurnShift DEF Leads
  <2>2. pstate' = "items"
    BY <1>3, <1>5, <2>1 DEF Shifts
  <2>3. Recorded(m)'
    BY <1>1, <1>5, <2>1, RecordedOn
  <2>4. Ending(f)'
    BY <1>1, <1>5, <2>1, <2>2, <2>3
       DEF Ending, Consume, lexer, m, Verdicts, AtEnd
  <2>. QED
    BY <1>1, <2>1, <2>4, InEnding
<1>6. CASE /\ token = "DEINDENT" /\ pstate \in {"items", "body"}
           /\ AtEnd /\ LevelsAre(0)
  <2>1. CASE pstate = "items"
    <3>1. /\ Consume /\ UNCHANGED <<numbers, cache, tm, entries, ret>>
          /\ <<pstate, Kind, pstate'>> \in Shifts
      BY <1>3, <1>6, <2>1, TurnShift DEF Leads
    <3>2. pstate' = "days"
      BY <1>3, <1>6, <2>1, <3>1 DEF Shifts, DayEnd
    <3>3. Recorded(m)'
      BY <1>1, <2>1, <3>1, RecordedOn
    <3>4. Ending(f)'
      BY <1>1, <1>6, <3>1, <3>2, <3>3
         DEF Ending, Consume, lexer, LevelsAre, m, Verdicts, AtEnd
    <3>. QED
      BY <1>1, <3>1, <3>4, InEnding
  <2>2. CASE pstate = "body"
    <3>1. NoBody
      BY <1>3, <1>6, <2>2, TurnNoBody
    <3>2. /\ pstate' = "items" /\ UNCHANGED entries
          /\ UNCHANGED <<source, lexer, pending, numbers, tm, ret>>
      BY <3>1 DEF NoBody, Enter, DescSet, EmptyBody
    <3>3. Recorded(m)'
      BY <1>1, <2>2, <3>2, RecordedOn
    <3>4. Ending(f)'
      BY <1>1, <1>6, <3>2, <3>3
         DEF Ending, lexer, LevelsAre, m, Verdicts, AtEnd
    <3>. QED
      BY <1>1, <3>2, <3>4, InEnding
  <2>. QED
    BY <1>6, <2>1, <2>2
<1>7. CASE token = "END" /\ pstate = "days"
  <2>1. Accept
    BY <1>3, <1>7, TurnAccept
  <2>. QED
    BY <1>1, <1>7, <2>1 DEF Accept, Accepts, m, Verdicts
<1>8. CASE /\ token = "DEINDENT" /\ pstate = "desc"
           /\ m.place = "desc" /\ CacheIs(Above(m))
           /\ \/ AtEnd /\ LevelsAre(1)
              \/ /\ cacheDeindent /\ at \in {Len(source) - 1, Len(source)}
                 /\ LevelsAre(0)
  <2>1. Body
    BY <1>3, <1>8, TurnBody
  <2>2. /\ Consume /\ UNCHANGED <<numbers, tm, ret>> /\ pstate' = "items"
        /\ Recorded(m)'
    BY <1>1, <1>2, <1>8, <2>1, BodyTaken DEF Going
  <2>3. CASE AtEnd /\ LevelsAre(1)
    <3>1. indent1 # 0 /\ indent2 = 0
      BY <1>4, <2>3 DEF LevelsAre
    <3>2. Ending(f)'
      BY <1>1, <2>2, <2>3, <3>1 DEF Ending, Consume, lexer, m, Verdicts, AtEnd
    <3>. QED
      BY <1>1, <2>2, <3>2, InEnding
  <2>4. CASE /\ cacheDeindent /\ at \in {Len(source) - 1, Len(source)}
             /\ LevelsAre(0)
    <3>1. Ending(f)'
      BY <1>1, <2>2, <2>4 DEF Ending, Consume, lexer, LevelsAre, m, Verdicts
    <3>. QED
      BY <1>1, <2>2, <3>1, InEnding
  <2>. QED
    BY <1>8, <2>3, <2>4
<1>. QED
  BY <1>1, <1>5, <1>6, <1>7, <1>8 DEF Ending, m, AtEnd

----------------------------------------------------------------------------
(* The way to a refusal.                                                    *)

LEMMA Refused ==
    ASSUME NEW f, meaning.verdict = "ERR_SYNTAX", Turn, ~Expected
    PROVE  Outcome(f)
BY TurnRefused DEF SyntaxError, Outcome

\* A token that only ends a number or an item is in the wrong place for more.
LEMMA DoomedLater ==
    ASSUME NEW f, meaning.verdict = "ERR_SYNTAX", UNCHANGED meaning, Turn,
           \/ token = "END" /\ pstate \in {"mday", "minute", "body"}
           \/ token = "DEINDENT" /\ pstate = "minute"
    PROVE  Outcome(f)
<1>1. Kind = token /\ token \in {"END", "DEINDENT"} /\ pending
  BY KindFor DEF Turn
<1>2. /\ UNCHANGED <<source, lexer, pending, entries, ret>>
      /\ pstate' \in {"padding", "timed", "items"}
      /\ token = "DEINDENT" => pstate' = "timed"
  <2>1. CASE pstate = "mday"
    <3>1. Date
      BY <1>1, <2>1, TurnDate
    <3>. QED
      BY <2>1, <3>1 DEF Date, EndOfNumber, Enter
  <2>2. CASE pstate = "minute"
    <3>1. Time
      BY <1>1, <2>2, TurnTime
    <3>. QED
      BY <2>2, <3>1 DEF Time, EndOfNumber, Enter
  <2>3. CASE pstate = "body"
    <3>1. NoBody
      BY <1>1, <2>3, TurnNoBody
    <3>. QED
      BY <2>3, <3>1 DEF NoBody, Enter, DescSet, EmptyBody
  <2>. QED
    BY <2>1, <2>2, <2>3
<1>3. token' = token /\ pending'
  BY <1>1, <1>2 DEF lexer
<1>4. Kind' = token'
  BY <1>1, <1>3, KindNext
<1>5. ~Expects(pstate', Kind')
  <2>1. pstate' \in State \ {"mday", "minute", "body"} /\ pstate' # "days"
    BY <1>2 DEF State
  <2>2. CASE token' = "END"
    BY <1>4, <2>1, <2>2, Refuses
  <2>3. CASE token' = "DEINDENT"
    <3>1. pstate' \notin {"items", "desc"}
      BY <1>2, <1>3, <2>3
    <3>. QED
      BY <1>4, <2>1, <2>3, <3>1, Refuses
  <2>. QED
    BY <1>1, <1>3, <2>2, <2>3
<1>6. ~Expected'
  BY <1>5, ExpectedNext
<1>7. Doomed'
  BY <1>3, <1>6 DEF Doomed
<1>. QED
  BY <1>2, <1>7 DEF Outcome

\* A token that opens or closes a level, and will be followed by worse.
LEMMA DoomedShift ==
    ASSUME NEW f, meaning.verdict = "ERR_SYNTAX", UNCHANGED meaning, Turn,
           ~cacheParseindent, ~cacheDeindent,
           \/ /\ token = "INDENT" /\ pstate = "emptylines"
              /\ at < Len(source) /\ Class(source[at + 1]) = "text"
              /\ source[at + 1] \notin Digit \union {"#"}
           \/ /\ token = "INDENT" /\ pstate = "body"
              /\ at = Len(source) /\ indent2 # 0
           \/ /\ token = "DEINDENT" /\ pstate = "items"
              /\ at = Len(source) /\ indent1 # 0 /\ indent2 = 0
    PROVE  Outcome(f)
<1>1. Kind = token /\ token \in {"INDENT", "DEINDENT"} /\ pending
  BY KindFor DEF Turn
<1>2. /\ Consume /\ UNCHANGED <<numbers, cache, tm, entries, ret>>
      /\ <<pstate, Kind, pstate'>> \in Shifts
  BY <1>1, TurnShift DEF Leads
<1>3. pstate' = CASE pstate = "emptylines" -> "items"
                  [] pstate = "body" -> "desc0"
                  [] OTHER -> "days"
  BY <1>1, <1>2 DEF Shifts, DayEnd
<1>4. Doomed'
  BY <1>1, <1>2, <1>3 DEF Doomed, Consume, lexer
<1>. QED
  BY <1>2, <1>4 DEF Outcome

LEMMA DoomedTurn ==
    ASSUME NEW f, Going(f), Turn, Doomed
    PROVE  Outcome(f) \/ Redescribes
<1>1. /\ meaning.verdict = "ERR_SYNTAX" /\ UNCHANGED meaning /\ pending
  BY DEF Doomed, Going, Turn
<1>2. CASE ~Expected
  BY <1>1, <1>2, Refused
<1>3. CASE \/ token = "END" /\ pstate \in {"mday", "minute", "body"}
           \/ token = "DEINDENT" /\ pstate = "minute"
  BY <1>1, <1>3, DoomedLater
<1>4. CASE /\ ~cacheParseindent /\ ~cacheDeindent
           /\ \/ /\ token = "INDENT" /\ pstate = "emptylines"
                 /\ at < Len(source) /\ Class(source[at + 1]) = "text"
                 /\ source[at + 1] \notin Digit \union {"#"}
              \/ /\ token = "INDENT" /\ pstate = "body"
                 /\ at = Len(source) /\ indent2 # 0
              \/ /\ token = "DEINDENT" /\ pstate = "items"
                 /\ at = Len(source) /\ indent1 # 0 /\ indent2 = 0
  BY <1>1, <1>4, DoomedShift
<1>5. CASE /\ at = Len(source) /\ ~cacheParseindent
           /\ token = "DEINDENT" /\ pstate = "desc"
           /\ cacheDeindent /\ indent1 # 0 /\ indent2 = 0
  <2>1. Body
    <3>1. Kind = "DEINDENT"
      BY <1>5, KindFor
    <3>. QED
      BY <1>5, <3>1, TurnBody
  <2>2. /\ Consume /\ UNCHANGED ret /\ pstate' = "items"
        /\ DescSet(textpos)
    BY <2>1 DEF Body, Enter
  <2>3. Doomed'
    BY <1>1, <1>5, <2>2 DEF Doomed, Consume, lexer
  <2>4. CASE textpos = 0
    <3>1. UNCHANGED entries
      BY <2>2, <2>4 DEF DescSet
    <3>. QED
      BY <2>2, <2>3, <3>1 DEF Outcome
  <2>5. CASE textpos # 0
    <3>1. PICK s : s = Put(text, textpos, "NUL")
      OBVIOUS
    <3>2. PICK t : t = Stripped(s, 0)
      OBVIOUS
    <3>3. /\ entries \in Seq(MadeEntry)
          /\ Described(entries, entries', {String(t, Skip(t, 0))})
      BY <2>1, <2>5, <3>1, <3>2, BodyDescribes DEF Going
    <3>. QED
      BY <2>2, <2>3, <3>3 DEF Redescribes
  <2>. QED
    BY <2>4, <2>5
<1>. QED
  BY <1>1, <1>2, <1>3, <1>4, <1>5 DEF Doomed

----------------------------------------------------------------------------
(* A step that takes the token.                                             *)

LEMMA ReadingTurn ==
    ASSUME NEW f, Going(f), Turn, NEW i, NEW k, Reading(f, i, k)
    PROVE  Outcome(f)
<1>1. Stream(f, i, k)
  BY DEF Reading
<1>2. CASE InDate(f, i, k)
  BY <1>1, <1>2, DateTurn
<1>3. CASE InWork(f, i, k)
  <2>1. pstate \in {"timed", "work", "worktext", "hour", "minute0", "minute"}
    BY <1>3 DEF InWork
  <2>. QED
    BY <1>1, <1>3, <2>1, TimeTurn, WorkTurn
<1>4. CASE InTask(f, i, k)
  BY <1>1, <1>4, TaskTurn
<1>5. CASE InDesc(f, i, k)
  BY <1>1, <1>5, DescTurn
<1>6. CASE InEmpty(f, i, k)
  BY <1>1, <1>6, EmptyTurn
<1>7. CASE InItem(f, i, k)
  BY <1>1, <1>7, ItemTurn
<1>. QED
  BY <1>2, <1>3, <1>4, <1>5, <1>6, <1>7 DEF Reading

LEMMA LiveTurn ==
    ASSUME NEW f, Going(f), Turn, Live(f)
    PROVE  Outcome(f) \/ Accepts(f) \/ Redescribes
<1>1. CASE Doomed
  BY <1>1, DoomedTurn
<1>2. CASE Ending(f)
  BY <1>2, EndingTurn
<1>3. ASSUME NEW i, Leading(f, i)
      PROVE  Outcome(f)
  BY <1>3, LeadingTurn
<1>4. ASSUME NEW i, NEW k, Reading(f, i, k)
      PROVE  Outcome(f)
  BY <1>4, ReadingTurn
<1>5. ASSUME NEW i, AtStart(f, i)
      PROVE  FALSE
  BY <1>5 DEF AtStart, Turn
<1>. QED
  BY <1>1, <1>2, <1>3, <1>4, <1>5 DEF Live, Sound

----------------------------------------------------------------------------
(* How lines begin, and where a file may end.                               *)

\* The blanks in front of a line.
Lead(line) == CASE line.kind \in {"work", "task"} -> Width1
                [] line.kind = "desc" -> Width1 + Width2
                [] OTHER -> 0

LeadIs(line, w) ==
    /\ Lead(line) \in Nat /\ Lead(line) <= Len(w) /\ Len(w) \in Nat
    /\ line.kind \in {"date", "work", "task", "desc", "empty"}
    /\ \A j \in 1..Lead(line) : w[j] = " "
    /\ line.kind = "empty" => Len(w) = 0
    /\ line.kind # "empty" => /\ Lead(line) < Len(w)
                              /\ w[Lead(line) + 1] \notin White
    /\ line.kind \in {"date", "work"} => w[Lead(line) + 1] \in Digit
    /\ line.kind = "task" => w[Lead(line) + 1] = "#"
    /\ line.kind = "desc" => w[Lead(line) + 1] \notin Digit \union {"#"}
    /\ line.kind = "date" => Len(w) > 1

LEMMA BlankStart ==
    ASSUME NEW p \in Nat, NEW w, BlankIn(0, p, w)
    PROVE  \A j \in 1..p : w[j] = " "
<1>1. \A j \in 1..p : j \in (0 + 1)..p
  OBVIOUS
<1>. QED
  BY <1>1 DEF BlankIn

LEMMA LessThan ==
    ASSUME NEW a \in Nat, NEW b \in Nat, a < b
    PROVE  a <= b
OBVIOUS

\* A line that is not empty.
LEMMA LeadMade ==
    ASSUME NEW line, NEW w, Len(w) \in Nat, NEW l \in Nat, Lead(line) = l,
           l < Len(w), line.kind \in {"date", "work", "task", "desc"},
           \A j \in 1..l : w[j] = " ", NEW ch, ch = w[l + 1],
           ch \notin White, line.kind = "date" => Len(w) > 1,
           line.kind \in {"date", "work"} => ch \in Digit,
           line.kind = "task" => ch = "#",
           line.kind = "desc" => ch \notin Digit \union {"#"}
    PROVE  LeadIs(line, w)
<1>1. \A j \in 1..Lead(line) : w[j] = " "
  OBVIOUS
<1>2. w[Lead(line) + 1] = ch
  <2>1. PICK x : x = Lead(line)
    OBVIOUS
  <2>2. w[x + 1] = ch
    BY <2>1
  <2>. QED
    BY <2>1, <2>2
<1>3. Lead(line) \in Nat /\ Lead(line) <= Len(w) /\ Lead(line) < Len(w)
  <2>1. l <= Len(w)
    BY LessThan, Zenon
  <2>2. PICK n : n = Len(w) /\ l <= n /\ l < n
    BY <2>1
  <2>. QED
    BY <2>2, Zenon
<1>4. line.kind # "empty"
  OBVIOUS
<1>. QED
  BY <1>1, <1>2, <1>3, <1>4 DEF LeadIs

LEMMA LineLead ==
    ASSUME NEW line, IsLine(line)
    PROVE  LeadIs(line, Written(line))
<1>1. /\ line.kind \in {"date", "work", "task", "desc", "empty"}
      /\ Width1 \in Nat /\ Width2 \in Nat
  BY WidthAssumption DEF IsLine
<1>2. PICK w : w = Written(line)
  OBVIOUS
<1>3. w \in Seq(Plain) /\ Len(w) \in Nat
  BY <1>2, LineTyped, LenProperties
<1>4. Digit \intersect White = {} /\ "#" \notin White
  BY DEF Digit, White
<1>5. CASE line.kind = "date"
  <2>1. Lead(line) = 0
    BY <1>5 DEF Lead
  <2>2. /\ Digits(line.month) \in {1, 2} /\ Digits(line.mday) \in {1, 2}
        /\ line.trail \in Nat
        /\ Len(w) = 4 + Digits(line.month) + Digits(line.mday) + line.trail
        /\ NumberAt(line.year, 0, w) /\ line.year \in 10..99
    BY <1>2, <1>5, DateColumns
  <2>3. Len(w) > 1
    BY <2>2
  <2>4. w[0 + 1] \in Digit
    <3>1. Digits(line.year) \in {1, 2}
      BY DEF Digits
    <3>2. 1 \in 1..Digits(line.year)
      BY <3>1
    <3>. QED
      BY <2>2, <3>2 DEF NumberAt
  <2>5. PICK ch : ch = w[0 + 1] /\ ch \in Digit
    BY <2>4
  <2>6. 0 < Len(w) /\ (\A j \in 1..0 : w[j] = " ") /\ 0 \in Nat
    BY <2>3
  <2>. QED
    BY <1>2, <1>3, <1>4, <1>5, <2>1, <2>3, <2>5, <2>6, LeadMade
<1>6. CASE line.kind = "work"
  <2>1. Lead(line) = Width1
    BY <1>6 DEF Lead
  <2>2. /\ BlankIn(0, Width1, w) /\ NumberAt(line.hour, Width1, w)
        /\ Digits(line.hour) \in {1, 2}
    BY <1>2, <1>6, WorkColumns
  <2>3. 1 \in 1..Digits(line.hour)
    BY <2>2
  <2>4. /\ Width1 + Digits(line.hour) <= Len(w)
        /\ w[Width1 + 1] \in Digit
    BY <2>2, <2>3 DEF NumberAt
  <2>5. Width1 < Len(w)
    <3>1. PICK x \in Nat : x = Digits(line.hour) /\ x > 0
      BY <2>2
    <3>. QED
      BY <1>1, <1>3, <2>4, <3>1
  <2>6. \A j \in 1..Width1 : w[j] = " "
    BY <1>1, <2>2, BlankStart
  <2>7. PICK ch : ch = w[Width1 + 1] /\ ch \in Digit
    BY <2>4
  <2>. QED
    BY <1>1, <1>2, <1>3, <1>4, <1>6, <2>1, <2>5, <2>6, <2>7, LeadMade
<1>7. CASE line.kind = "task"
  <2>1. Lead(line) = Width1
    BY <1>7 DEF Lead
  <2>2. /\ BlankIn(0, Width1, w) /\ NumberAt(line.id, Width1 + 1, w)
        /\ Digits(line.id) \in {1, 2} /\ w[Width1 + 1] = "#"
    BY <1>2, <1>7, TaskColumns
  <2>3. Width1 + 1 + Digits(line.id) <= Len(w)
    BY <2>2 DEF NumberAt
  <2>4. Width1 < Len(w)
    <3>1. PICK x \in Nat : x = Digits(line.id) /\ x > 0
      BY <2>2
    <3>. QED
      BY <1>1, <1>3, <2>3, <3>1
  <2>5. \A j \in 1..Width1 : w[j] = " "
    BY <1>1, <2>2, BlankStart
  <2>6. PICK ch : ch = w[Width1 + 1] /\ ch = "#"
    BY <2>2
  <2>. QED
    BY <1>1, <1>2, <1>3, <1>4, <1>7, <2>1, <2>4, <2>5, <2>6, LeadMade
<1>8. CASE line.kind = "desc"
  <2>1. PICK p \in Nat : p = Width1 + Width2
    BY <1>1
  <2>2. Lead(line) = p
    BY <1>8, <2>1 DEF Lead
  <2>3. PICK d : d = line.desc
    OBVIOUS
  <2>4. /\ BlankIn(0, p, w) /\ Stands(d, p, w) /\ Len(d) \in Nat \ {0}
        /\ d[1] \notin White \union Digit \union {"#"}
        /\ Len(w) = p + Len(d) + line.trail /\ line.trail \in Nat
    BY <1>2, <1>8, <2>1, <2>3, DescColumns
  <2>5. w[p + 1] = d[1]
    <3>1. 1 \in 1..Len(d)
      BY <2>4
    <3>. QED
      BY <2>4, <3>1 DEF Stands
  <2>6. p < Len(w)
    <3>1. PICK x \in Nat, y \in Nat : x = Len(d) /\ y = line.trail
      BY <2>4
    <3>2. x > 0 /\ Len(w) = p + x + y
      BY <2>4, <3>1
    <3>. QED
      BY <3>2
  <2>7. \A j \in 1..p : w[j] = " "
    BY <2>4, BlankStart
  <2>8. PICK ch : /\ ch = w[p + 1]
                  /\ ch \notin White \union Digit \union {"#"}
    BY <2>4, <2>5
  <2>. QED
    BY <1>2, <1>3, <1>8, <2>2, <2>6, <2>7, <2>8, LeadMade
<1>9. CASE line.kind = "empty"
  <2>1. Lead(line) = 0 /\ Len(w) = 0
    BY <1>2, <1>9, EmptyColumns DEF Lead
  <2>. QED
    BY <1>2, <1>9, <2>1 DEF LeadIs
<1>. QED
  BY <1>1, <1>5, <1>6, <1>7, <1>8, <1>9

\* MayEndIn by the number of characters.
MayEnd(place, line, cut) ==
    CASE place = "top"   -> cut = 0
      [] place = "dated" -> cut <= Lead(line) /\ cut > 0
      [] place = "desc"  -> \/ cut <= Lead(line) /\ cut \in {0, Width1}
                            \/ cut = 1 /\ line.kind = "date"
      [] OTHER           -> cut <= Lead(line) /\ cut \in {0, Width1}

LEMMA LeadBlank ==
    ASSUME NEW line, IsLine(line), NEW cut \in Nat, cut <= Len(Written(line))
    PROVE  (SubSeq(Written(line), 1, cut) = Blanks(cut)) <=> cut <= Lead(line)
<1>1. PICK w : w = Written(line)
  OBVIOUS
<1>2. w \in Seq(Plain) /\ Len(w) \in Nat /\ LeadIs(line, w)
  BY <1>1, LineTyped, LineLead, LenProperties
<1>3. PICK l \in Nat : l = Lead(line)
  BY <1>2 DEF LeadIs
<1>4. /\ \A j \in 1..l : w[j] = " "
      /\ l < Len(w) => w[l + 1] \notin White
      /\ l <= Len(w)
  <2>1. /\ \A j \in 1..Lead(line) : w[j] = " "
        /\ Lead(line) < Len(w) => w[Lead(line) + 1] \notin White
        /\ Lead(line) <= Len(w)
    <3>1. /\ line.kind = "empty" => Len(w) = 0
          /\ line.kind # "empty" => w[Lead(line) + 1] \notin White
          /\ Lead(line) \in Nat
      BY <1>2 DEF LeadIs
    <3>2. Lead(line) < Len(w) => w[Lead(line) + 1] \notin White
      BY <1>2, <3>1
    <3>. QED
      BY <1>2, <3>2 DEF LeadIs
  <2>. QED
    BY <1>3, <2>1
<1>5. PICK s, b : s = SubSeq(w, 1, cut) /\ b = Blanks(cut)
  OBVIOUS
<1>6. /\ s \in Seq(Plain) /\ Len(s) = cut /\ \A j \in 1..cut : s[j] = w[j]
  <2>1. SubSeq(w, 1, cut) \in Seq(Plain)
    BY <1>1, <1>2, SubSeqProperties
  <2>2. Len(SubSeq(w, 1, cut)) = cut
    BY <1>1, <1>2, SubSeqProperties
  <2>3. \A j \in 1..cut : SubSeq(w, 1, cut)[j] = w[j]
    BY <1>1, <1>2, SubSeqProperties
  <2>. QED
    BY <1>5, <2>1, <2>2, <2>3
<1>7. b \in Seq(Plain) /\ Len(b) = cut /\ \A j \in 1..cut : b[j] = " "
  BY <1>5, BlankChars
<1>8. ASSUME cut <= l
      PROVE  s = b
  <2>1. \A j \in 1..cut : s[j] = b[j]
    <3>1. \A j \in 1..cut : j \in 1..l
      BY <1>8
    <3>. QED
      BY <1>4, <1>6, <1>7, <3>1
  <2>. QED
    BY <1>6, <1>7, <2>1, SeqEqual
<1>9. ASSUME ~(cut <= l), s = b
      PROVE  FALSE
  <2>1. l + 1 \in 1..cut /\ l < Len(w)
    BY <1>1, <1>2, <1>9
  <2>2. w[l + 1] = " "
    BY <1>6, <1>7, <1>9, <2>1
  <2>. QED
    BY <1>4, <2>1, <2>2 DEF White
<1>. QED
  BY <1>1, <1>3, <1>5, <1>8, <1>9

LEMMA MayEndAt ==
    ASSUME NEW place, NEW line, IsLine(line), NEW cut \in Nat,
           cut <= Len(Written(line))
    PROVE  MayEndIn(place, line, cut) <=> MayEnd(place, line, cut)
<1>1. (SubSeq(Written(line), 1, cut) = Blanks(cut)) <=> cut <= Lead(line)
  BY LeadBlank
<1>2. CASE place = "top"
  BY <1>2 DEF MayEndIn, MayEnd
<1>3. CASE place = "dated"
  BY <1>1, <1>3 DEF MayEndIn, MayEnd
<1>4. CASE place = "desc"
  BY <1>1, <1>4 DEF MayEndIn, MayEnd
<1>5. CASE place \notin {"top", "dated", "desc"}
  BY <1>1, <1>5 DEF MayEndIn, MayEnd
<1>. QED
  BY <1>2, <1>3, <1>4, <1>5

\* What the verdict is from the line the parser is at.
LEMMA VerdictAt ==
    ASSUME NEW f, Going(f), NEW i \in 1..f.n, f.mean[i].verdict = "OK"
    PROVE  /\ i < f.n /\ PlaceAfter(f.mean[i].place, f.lines[i]) = "misplaced"
                 => meaning.verdict = "ERR_SYNTAX"
           /\ i = f.n => meaning.verdict =
                 IF MayEnd(f.mean[i].place, f.lines[i], f.cut)
                 THEN "OK" ELSE "ERR_SYNTAX"
<1>1. ASSUME i < f.n, PlaceAfter(f.mean[i].place, f.lines[i]) = "misplaced"
      PROVE  meaning.verdict = "ERR_SYNTAX"
  <2>1. PICK m, line : m = f.mean[i] /\ line = f.lines[i]
    OBVIOUS
  <2>2. m \in Meanings /\ m.verdict = "OK"
    BY <2>1, Lines DEF MeaningOK
  <2>3. MeaningAfter(m, line) = [m EXCEPT !.verdict = "ERR_SYNTAX"]
    BY <1>1, <2>1, <2>2 DEF MeaningAfter
  <2>4. MeaningAfter(m, line).verdict = "ERR_SYNTAX"
    BY <2>2, <2>3 DEF Meanings
  <2>. QED
    BY <1>1, <2>1, <2>4, VerdictAfter
<1>2. ASSUME i = f.n
      PROVE  meaning.verdict = IF MayEnd(f.mean[i].place, f.lines[i], f.cut)
                               THEN "OK" ELSE "ERR_SYNTAX"
  <2>1. /\ meaning.verdict = IF /\ f.mean[i].verdict = "OK"
                                /\ ~MayEndIn(f.mean[i].place, f.lines[i], f.cut)
                             THEN "ERR_SYNTAX" ELSE f.mean[i].verdict
        /\ f.cut \in 0..Len(W(f, i))
    BY <1>2 DEF Going, IsFile
  <2>2. IsLine(f.lines[i]) /\ Len(W(f, i)) \in Nat
    BY Lines
  <2>3. PICK cut \in Nat : cut = f.cut /\ cut <= Len(Written(f.lines[i]))
    BY <2>1, <2>2 DEF W
  <2>4. MayEndIn(f.mean[i].place, f.lines[i], f.cut)
           <=> MayEnd(f.mean[i].place, f.lines[i], f.cut)
    BY <2>2, <2>3, MayEndAt
  <2>. QED
    BY <2>1, <2>4
<1>. QED
  BY <1>1, <1>2

\* Only the first line is at the top.
LEMMA TopFirst ==
    ASSUME NEW f, Going(f), NEW i \in 1..f.n, f.mean[i].verdict = "OK"
    PROVE  (i = 1) <=> f.mean[i].place = "top"
<1>1. CASE i = 1
  <2>1. f.mean[1] = Nothing
    BY DEF Going, IsFile
  <2>. QED
    BY <1>1, <2>1 DEF Nothing
<1>2. CASE i # 1
  <2>1. f.n \in Nat
    BY Lines
  <2>2. PICK j \in Nat : i = j + 1 /\ j \in 1..f.n /\ j < f.n
    <3>1. i - 1 \in Nat /\ i = (i - 1) + 1 /\ i - 1 \in 1..f.n /\ i - 1 < f.n
      BY <1>2, <2>1
    <3>. QED
      BY <3>1
  <2>3. PICK m, line, mm : m = f.mean[j] /\ line = f.lines[j] /\ mm = f.mean[i]
    OBVIOUS
  <2>4. mm = MeaningAfter(m, line) /\ MeaningOK(m) /\ IsLine(line)
    BY <2>2, <2>3, Lines DEF LineIn
  <2>5. m.verdict = "OK"
    BY <2>3, <2>4, MeaningTyped
  <2>6. m \in Meanings
    BY <2>4 DEF MeaningOK
  <2>7. PlaceAfter(m.place, line) # "misplaced"
        /\ ~(line.kind = "task" /\ line.id = 0)
    <3>1. CASE PlaceAfter(m.place, line) = "misplaced"
      <4>1. mm = [m EXCEPT !.verdict = "ERR_SYNTAX"]
        BY <2>4, <2>5, <3>1 DEF MeaningAfter
      <4>2. mm.verdict = "ERR_SYNTAX"
        BY <2>6, <4>1 DEF Meanings
      <4>. QED
        BY <2>3, <4>2
    <3>2. CASE /\ PlaceAfter(m.place, line) # "misplaced"
               /\ line.kind = "task" /\ line.id = 0
      <4>1. mm = [m EXCEPT !.verdict = "ERR_INPUT"]
        BY <2>4, <2>5, <3>2 DEF MeaningAfter
      <4>2. mm.verdict = "ERR_INPUT"
        BY <2>6, <4>1 DEF Meanings
      <4>. QED
        BY <2>3, <4>2
    <3>. QED
      BY <3>1, <3>2
  <2>8. line.kind \in {"date", "work", "task", "desc", "empty"}
    BY <2>4 DEF IsLine
  <2>9. CASE line.kind = "date"
    BY <1>2, <2>3, <2>4, <2>5, <2>6, <2>7, <2>9, MeaningDate
  <2>10. CASE line.kind \in {"work", "task"}
    <3>1. mm.place = IF line.kind = "work" /\ line.text = {}
                     THEN "items" ELSE "body"
      BY <2>4, <2>5, <2>6, <2>7, <2>10, MeaningItem
    <3>2. mm.place # "top"
      BY <3>1
    <3>3. f.mean[i].place # "top"
      BY <2>3, <3>2
    <3>. QED
      BY <1>2, <3>3
  <2>11. CASE line.kind = "desc"
    <3>1. mm.place = "desc"
      BY <2>4, <2>5, <2>7, <2>11, AboveNext
    <3>2. f.mean[i].place # "top"
      BY <2>3, <3>1
    <3>. QED
      BY <1>2, <3>2
  <2>12. CASE line.kind = "empty"
    BY <1>2, <2>3, <2>4, <2>5, <2>7, <2>12, EmptyNext
  <2>. QED
    BY <2>8, <2>9, <2>10, <2>11, <2>12
<1>. QED
  BY <1>1, <1>2

----------------------------------------------------------------------------
(* What the lexer finds at the start of a line.                             *)

\* Line i with l blanks in front, of which there are cut characters.
Stand(f, i, l, cut) ==
    /\ i \in 1..f.n /\ l = Lead(f.lines[i]) /\ cut = Width(f, i)
    /\ LeadIs(f.lines[i], W(f, i))
    /\ l \in Nat /\ cut \in Nat /\ Len(W(f, i)) \in Nat /\ cut <= Len(W(f, i))
    /\ at \in Nat /\ Len(source) \in Nat
    /\ at = f.start[i] /\ at + cut <= Len(source)
    /\ \A j \in 1..cut : source[at + j] = W(f, i)[j]
    /\ i = f.n => at + cut = Len(source)
    /\ i < f.n => /\ cut = Len(W(f, i)) /\ at + cut + 1 <= Len(source)
                  /\ source[at + cut + 1] = "\n"
    /\ i < f.n \/ i = f.n

LEMMA StandsAt ==
    ASSUME NEW f, Going(f), NEW i, AtStart(f, i)
    PROVE  \E l, cut : Stand(f, i, l, cut)
<1>1. i \in 1..f.n /\ at = f.start[i]
  BY DEF AtStart
<1>2. PICK l, cut : l = Lead(f.lines[i]) /\ cut = Width(f, i)
  OBVIOUS
<1>3. LeadIs(f.lines[i], W(f, i))
  BY <1>1, Lines, LineLead DEF W
<1>4. PICK s \in Nat : s = f.start[i]
  BY <1>1, Lines
<1>5. /\ l \in Nat /\ cut \in Nat /\ Len(W(f, i)) \in Nat
      /\ cut <= Len(W(f, i)) /\ Len(source) \in Nat
  BY <1>1, <1>2, <1>3, Lines, LexerTyped DEF LeadIs, Going
<1>6. /\ s + cut <= Len(source)
      /\ \A j \in 1..cut : source[s + j] = W(f, i)[j]
  BY <1>1, <1>2, <1>4, Lines DEF LineIn
<1>7. i = f.n => s + cut = Len(source)
  BY <1>1, <1>2, <1>4, Lines
<1>8. ASSUME i < f.n
      PROVE  /\ cut = Len(W(f, i)) /\ s + cut + 1 <= Len(source)
             /\ source[s + cut + 1] = "\n"
  <2>1. cut = Len(W(f, i))
    BY <1>1, <1>2, <1>8, Lines
  <2>2. /\ f.start[i + 1] = f.start[i] + Len(W(f, i)) + 1
        /\ f.start[i + 1] <= Len(source) /\ source[f.start[i + 1]] = "\n"
    BY <1>1, <1>8, Lines DEF LineIn
  <2>3. f.start[i + 1] = s + cut + 1
    BY <1>4, <2>1, <2>2
  <2>. QED
    BY <2>1, <2>2, <2>3
<1>9. i < f.n \/ i = f.n
  <2>1. PICK n \in Nat : n = f.n
    BY <1>1, Lines
  <2>2. i \in 1..n
    BY <1>1, <2>1
  <2>3. i < n \/ i = n
    BY <2>2
  <2>. QED
    BY <2>1, <2>3
<1>10. Stand(f, i, l, cut)
  BY <1>1, <1>2, <1>3, <1>4, <1>5, <1>6, <1>7, <1>8, <1>9 DEF Stand
<1>. QED
  BY <1>10

\* The first character behind the blanks.
LEMMA StandChar ==
    ASSUME NEW f, NEW i, NEW l, NEW cut, Stand(f, i, l, cut), l < cut
    PROVE  /\ at + l < Len(source) /\ source[at + l + 1] = W(f, i)[l + 1]
           /\ source[at + l + 1] \notin White
           /\ f.lines[i].kind # "empty"
<1>1. /\ l \in Nat /\ cut \in Nat /\ at \in Nat /\ Len(source) \in Nat
      /\ at + cut <= Len(source)
  BY DEF Stand
<1>2. at + l < Len(source) /\ l + 1 \in 1..cut /\ at + (l + 1) = at + l + 1
  BY <1>1
<1>3. source[at + (l + 1)] = W(f, i)[l + 1]
  <2>1. \A j \in 1..cut : source[at + j] = W(f, i)[j]
    BY DEF Stand
  <2>. QED
    BY <1>2, <2>1
<1>4. source[at + l + 1] = W(f, i)[l + 1]
  BY <1>2, <1>3
<1>5. f.lines[i].kind # "empty"
  <2>1. PICK n \in Nat : n = Len(W(f, i)) /\ cut <= n
    BY DEF Stand
  <2>2. n # 0
    BY <1>1, <2>1
  <2>3. f.lines[i].kind = "empty" => Len(W(f, i)) = 0
    BY DEF Stand, LeadIs
  <2>. QED
    BY <2>1, <2>2, <2>3
<1>6. W(f, i)[l + 1] \notin White
  <2>1. W(f, i)[Lead(f.lines[i]) + 1] \notin White
    BY <1>5 DEF Stand, LeadIs
  <2>. QED
    BY <2>1 DEF Stand
<1>. QED
  BY <1>2, <1>4, <1>5, <1>6

Opens(f, i, l, cut) ==
    /\ \/ f.lines[i].kind = "empty" /\ i < f.n
       \/ i = f.n /\ cut <= l
       \/ l < cut
    /\ f.lines[i].kind = "empty" /\ i < f.n =>
          Now(at + 1, indent1, indent2, FALSE, TRUE, "NEWLINE")
    /\ i = f.n /\ cut <= l => IF cut = indent1 + indent2
                              THEN Takes(Len(source))
                              ELSE Changes(Len(source), cut)
    /\ l < cut => IF l = indent1 + indent2 THEN Takes(at + l)
                  ELSE Changes(at + l, l)

\* There are no more than the blanks of the open levels where a second one is.
LEMMA Levelled ==
    ASSUME NEW f, NEW i, AtStart(f, i)
    PROVE  /\ indent2 > 0 => indent1 + indent2 = Width1 + Width2
           /\ indent1 = 0 => indent2 = 0
<1>1. LevelsAre(Level(pstate)) /\ Width1 \in Nat \ {0} /\ Width2 \in Nat \ {0}
  BY WidthAssumption DEF AtStart
<1>2. Level(pstate) \in {0, 1, 2}
  BY DEF Level
<1>. QED
  BY <1>1, <1>2 DEF LevelsAre

LEMMA LeadMost ==
    ASSUME NEW line
    PROVE  Lead(line) \in {0, Width1, Width1 + Width2}
BY DEF Lead

LEMMA NoneIn == \A j \in 1..0 : FALSE
OBVIOUS

LEMMA Opened ==
    ASSUME NEW f, Going(f), Read, NEW i, i # 1, AtStart(f, i),
           NEW l, NEW cut, Stand(f, i, l, cut)
    PROVE  Opens(f, i, l, cut)
<1>1. /\ l \in Nat /\ cut \in Nat /\ at \in Nat /\ Len(source) \in Nat
      /\ at + cut <= Len(source) /\ (i < f.n \/ i = f.n)
      /\ i = f.n => at + cut = Len(source)
      /\ i < f.n => /\ at + cut + 1 <= Len(source)
                    /\ source[at + cut + 1] = "\n"
      /\ \A j \in 1..cut : source[at + j] = W(f, i)[j]
  BY DEF Stand
<1>2. Width1 \in Nat /\ Width2 \in Nat
  BY WidthAssumption
<1>3. /\ ~cacheDeindent /\ cacheParseindent /\ Holding
      /\ indent1 = 0 => indent2 = 0
  BY Levelled DEF AtStart, Going
<1>4. indent2 > 0 => l <= indent1 + indent2
  <2>1. l \in {0, Width1, Width1 + Width2}
    BY LeadMost DEF Stand
  <2>. QED
    BY <1>2, <2>1, Levelled
<1>5. \A j \in 1..l : j \in 1..cut => source[at + j] = " "
  <2>1. \A j \in 1..l : W(f, i)[j] = " "
    BY DEF Stand, LeadIs
  <2>. QED
    BY <1>1, <2>1
<1>6. i < f.n /\ cut <= l => f.lines[i].kind = "empty" /\ cut = 0 /\ l = 0
  <2>1. f.lines[i].kind = "empty" => cut = 0 /\ l = 0
    <3>1. PICK n \in Nat : n = Len(W(f, i)) /\ cut <= n
      BY DEF Stand
    <3>2. f.lines[i].kind = "empty" => n = 0 /\ l = 0
      BY <3>1 DEF Stand, LeadIs, Lead
    <3>. QED
      BY <1>1, <3>1, <3>2
  <2>2. i < f.n /\ f.lines[i].kind # "empty" => l < cut
    BY <1>1 DEF Stand, LeadIs
  <2>. QED
    BY <1>1, <2>1, <2>2
<1>7. CASE l < cut
  <2>1. PICK b \in Nat : b = at + l
    BY <1>1
  <2>2. /\ b < Len(source) /\ source[b + 1] \notin White
        /\ f.lines[i].kind # "empty"
    BY <1>7, <2>1, StandChar
  <2>3. Blanked(l)
    <3>1. \A j \in 1..l : j \in 1..cut
      BY <1>1, <1>7
    <3>2. Class(source[b + 1]) # "blank"
      BY <2>2, Classified DEF White
    <3>3. Class(source[at + l + 1]) # "blank"
      BY <2>1, <3>2
    <3>4. \A j \in 1..l : source[at + j] = " "
      BY <1>5, <3>1
    <3>5. at + l <= Len(source)
      BY <1>1, <1>7
    <3>. QED
      BY <1>4, <3>3, <3>4, <3>5 DEF Blanked
  <2>4. Starts(b, l)
    BY <1>1, <1>3, <2>1, <2>3, StartRead
  <2>5. source[b + 1] # "\n"
    BY <2>2 DEF White
  <2>6. ~(cut <= l)
    BY <1>1, <1>7
  <2>. QED
    BY <1>7, <2>1, <2>2, <2>4, <2>5, <2>6 DEF Starts, Opens
<1>8. CASE i = f.n /\ cut <= l
  <2>1. PICK b \in Nat : b = at + cut /\ b = Len(source)
    BY <1>1, <1>8
  <2>2. Blanked(cut)
    <3>1. \A j \in 1..cut : j \in 1..l
      BY <1>1, <1>8
    <3>2. indent2 > 0 => cut <= indent1 + indent2
      BY <1>1, <1>4, <1>8, LexerTyped DEF Going
    <3>3. \A j \in 1..cut : source[at + j] = " "
      BY <1>5, <3>1
    <3>4. at + cut <= Len(source) /\ ~(at + cut < Len(source))
      BY <1>1, <2>1
    <3>. QED
      BY <3>2, <3>3, <3>4 DEF Blanked
  <2>3. Starts(b, cut)
    BY <1>1, <1>3, <2>1, <2>2, StartRead
  <2>4. ~(i < f.n) /\ ~(l < cut) /\ ~(b < Len(source))
    <3>1. f.n \in Nat
      BY Lines DEF Stand
    <3>. QED
      BY <1>1, <1>8, <2>1, <3>1
  <2>. QED
    BY <1>8, <2>1, <2>3, <2>4 DEF Starts, Opens
<1>9. CASE i < f.n /\ cut <= l
  <2>1. f.lines[i].kind = "empty" /\ cut = 0 /\ l = 0
    BY <1>6, <1>9
  <2>2. /\ at + 1 <= Len(source) /\ source[at + 1] = "\n"
        /\ at < Len(source) /\ at + 0 = at
    <3>1. at + cut + 1 <= Len(source) /\ source[at + cut + 1] = "\n"
      BY <1>1, <1>9
    <3>2. at + cut + 1 = at + 1
      BY <1>1, <2>1
    <3>. QED
      BY <1>1, <3>1, <3>2
  <2>3. Blanked(0)
    <3>1. Class(source[at + 1]) # "blank" /\ at + 0 + 1 = at + 1
      BY <1>1, <2>2, Classified
    <3>2. indent2 > 0 => 0 <= indent1 + indent2
      BY LexerTyped DEF Going
    <3>3. \A j \in 1..0 : source[at + j] = " "
      BY NoneIn, Zenon
    <3>4. at + 0 <= Len(source)
      BY <1>1
    <3>. QED
      BY <3>1, <3>2, <3>3, <3>4 DEF Blanked
  <2>4. Starts(at, 0)
    BY <1>1, <1>3, <2>2, <2>3, StartRead
  <2>5. i # f.n /\ ~(l < cut)
    <3>1. f.n \in Nat
      BY Lines DEF Stand
    <3>. QED
      BY <1>9, <2>1, <3>1
  <2>. QED
    BY <1>9, <2>1, <2>2, <2>4, <2>5 DEF Starts, Opens
<1>. QED
  BY <1>1, <1>7, <1>8, <1>9

----------------------------------------------------------------------------
(* What a token that is read comes to.                                      *)

LEMMA ReadKeeps ==
    ASSUME UNCHANGED <<source, parser, meaning>>, NEW m
    PROVE  /\ Clock(m) => Clock(m)'
           /\ Recorded(m) => Recorded(m)'
           /\ CacheIs(Above(m)) => CacheIs(Above(m))'
           /\ UNCHANGED <<source, meaning, pstate, numbers, text, textpos,
                          textlen, tm, entries, ret>>
<1>1. UNCHANGED <<source, meaning, pstate, numbers, text, textpos,
                  textlen, tm, entries, ret>>
  BY DEF parser, cache
<1>. QED
  BY <1>1 DEF Clock, Recorded, Matches, CacheIs, Minutes

LEMMA DoomedAt ==
    ASSUME NEW f, meaning.verdict = "ERR_SYNTAX", UNCHANGED meaning,
           pending', ~Expects(pstate', Kind')
    PROVE  Live(f)'
<1>1. ~Expected'
  BY ExpectedNext
<1>2. Doomed'
  BY <1>1 DEF Doomed
<1>. QED
  BY <1>2 DEF Live

LEMMA LevelRefused ==
    ASSUME NEW f, meaning.verdict = "ERR_SYNTAX", UNCHANGED meaning,
           pending', pstate' \in State \ {"mday", "minute", "body"},
           NEW tok, token' = tok,
           \/ tok = "END" /\ pstate' # "days"
           \/ tok = "DEINDENT" /\ pstate' \notin {"items", "desc"}
           \/ tok = "INDENT" /\ pstate' # "emptylines"
    PROVE  Live(f)'
<1>1. Kind' = tok
  BY KindNext
<1>2. ~Expects(pstate', Kind')
  BY <1>1, Refuses
<1>. QED
  BY <1>2, DoomedAt

LEMMA EndingAt ==
    ASSUME NEW f, Ending(f)'
    PROVE  Live(f)'
BY DEF Sound, Live

LEMMA LeadingAt ==
    ASSUME NEW f, NEW i, Leading(f, i)'
    PROVE  Live(f)'
BY InLeading DEF Live

\* A character of the line, or the newline behind it.
LEMMA CharRead ==
    ASSUME NEW f, Going(f), NEW i, InLine(f, i), Recorded(f.mean[i]),
           LevelsAre(Level(pstate)), NEW k \in Nat, k <= Width(f, i),
           NEW b, b = f.start[i] + k, b < Len(source),
           Now(b + 1, indent1, indent2, FALSE, source[b + 1] = "\n",
               CharToken(source[b + 1]))
    PROVE  Stream(f, i, k)'
<1>1. UNCHANGED <<source, parser, meaning>>
  BY DEF Now, Going
<1>2. /\ UNCHANGED <<source, meaning, pstate, entries>>
      /\ Recorded(f.mean[i])'
  BY <1>1, ReadKeeps
<1>3. InLine(f, i)' /\ i \in 1..f.n
  BY <1>2, InLineKept DEF InLine
<1>4. /\ at' = b + 1 /\ indent1' = indent1 /\ indent2' = indent2
      /\ cacheDeindent' = FALSE /\ cacheParseindent' = (source[b + 1] = "\n")
      /\ token' = CharToken(source[b + 1]) /\ pending'
  BY DEF Now
<1>5. LevelsAre(Level(pstate))'
  BY <1>2, <1>4 DEF LevelsAre, Level
<1>6. b \in Nat /\ Len(source) \in Nat /\ f.start[i] \in Nat
      /\ Width(f, i) \in Nat
  BY <1>3, Lines, LexerTyped DEF Going
<1>7. at' = f.start[i] + k + 1 /\ at' <= Len(source')
  BY <1>2, <1>4, <1>6
<1>8. k \in 0..Width(f, i)
  BY <1>6
<1>9. token' = CharToken(source'[at'])
  BY <1>2, <1>4
<1>10. cacheParseindent' <=> token' = "NEWLINE"
  BY <1>4, Classified
<1>. QED
  BY <1>2, <1>3, <1>4, <1>5, <1>7, <1>8, <1>9, <1>10 DEF Stream

LEMMA ReadingAt ==
    ASSUME NEW f, NEW i, NEW k, Stream(f, i, k)',
           \/ InDate(f, i, k)' \/ InWork(f, i, k)' \/ InTask(f, i, k)'
           \/ InDesc(f, i, k)' \/ InEmpty(f, i, k)' \/ InItem(f, i, k)'
    PROVE  Live(f)'
<1>1. Reading(f, i, k)'
  BY DEF Reading
<1>. QED
  BY <1>1, InReading DEF Live

----------------------------------------------------------------------------
(* Which lines may stand, and end, where they do.                           *)

LEMMA Standing ==
    ASSUME NEW f, Going(f), NEW i, AtStart(f, i),
           NEW l, NEW cut, Stand(f, i, l, cut), l < cut
    PROVE  LET m == f.mean[i]
               line == f.lines[i]
           IN  /\ PlaceAfter(m.place, line) = "misplaced" =>
                     meaning.verdict = "ERR_SYNTAX"
               /\ /\ PlaceAfter(m.place, line) # "misplaced"
                  /\ m.place = "desc" /\ line.kind = "date" => cut # 1
                  => InLine(f, i)
               /\ /\ m.place = "desc" /\ line.kind = "date" /\ cut = 1
                  => i = f.n /\ meaning.verdict = "OK"
<1> DEFINE m == f.mean[i]
           line == f.lines[i]
<1>1. /\ i \in 1..f.n /\ m.verdict = "OK" /\ l \in Nat /\ cut \in Nat
      /\ i < f.n \/ i = f.n
      /\ l = Lead(line) /\ cut = Width(f, i)
      /\ i < f.n => cut = Len(W(f, i))
  BY DEF AtStart, Stand
<1>2. /\ i < f.n /\ PlaceAfter(m.place, line) = "misplaced"
            => meaning.verdict = "ERR_SYNTAX"
      /\ i = f.n => meaning.verdict = IF MayEnd(m.place, line, f.cut)
                                      THEN "OK" ELSE "ERR_SYNTAX"
  BY <1>1, VerdictAt
<1>3. i = f.n => f.cut = cut
  BY <1>1 DEF Width, Stand
<1>4. line.kind = "date" => Len(W(f, i)) > 1
  BY DEF Stand, LeadIs
<1>5. line.kind = "date" /\ cut = 1 => i = f.n
  <2>1. PICK n \in Nat : /\ n = Len(W(f, i))
                         /\ line.kind = "date" => n > 1
    BY <1>4 DEF Stand
  <2>3. n > 1 => n # 1
    OBVIOUS
  <2>2. line.kind = "date" => n # 1
    BY <2>1, <2>3, Zenon
  <2>. QED
    BY <1>1, <2>1, <2>2
<1>6. ~(cut <= l) /\ cut # 0
  BY <1>1
<1>7. MayEnd(m.place, line, cut) <=>
         m.place = "desc" /\ line.kind = "date" /\ cut = 1
  <2>1. CASE m.place = "top"
    BY <1>6, <2>1 DEF MayEnd
  <2>2. CASE m.place = "dated"
    BY <1>1, <1>6, <2>2 DEF MayEnd
  <2>3. CASE m.place = "desc"
    BY <1>1, <1>6, <2>3 DEF MayEnd
  <2>4. CASE m.place \notin {"top", "dated", "desc"}
    BY <1>1, <1>6, <2>4 DEF MayEnd
  <2>. QED
    BY <2>1, <2>2, <2>3, <2>4
<1>8. m.place = "desc" /\ line.kind = "date" =>
         PlaceAfter(m.place, line) # "misplaced"
  BY DEF PlaceAfter
<1> HIDE DEF m, line
<1>9. PlaceAfter(m.place, line) = "misplaced" => meaning.verdict = "ERR_SYNTAX"
  BY <1>1, <1>2, <1>3, <1>7, <1>8
<1>10. ASSUME PlaceAfter(m.place, line) # "misplaced",
              m.place = "desc" /\ line.kind = "date" => cut # 1
       PROVE  InLine(f, i)
  <2>1. ~MayEnd(m.place, line, cut)
    BY <1>7, <1>10
  <2>2. i = f.n => meaning.verdict = "ERR_SYNTAX"
    BY <1>2, <1>3, <2>1
  <2>. QED
    BY <1>1, <1>10, <2>2 DEF InLine, m, line
<1>11. m.place = "desc" /\ line.kind = "date" /\ cut = 1
          => i = f.n /\ meaning.verdict = "OK"
  BY <1>2, <1>3, <1>5, <1>7
<1>. QED
  BY <1>9, <1>10, <1>11 DEF m, line

LEMMA EndedAt ==
    ASSUME NEW f, Going(f), NEW i, AtStart(f, i), f.mean[i].place # "top",
           NEW l, NEW cut, Stand(f, i, l, cut), cut <= l, i = f.n
    PROVE  /\ meaning.verdict =
                 IF IF f.mean[i].place = "dated" THEN cut # 0
                    ELSE cut \in {0, Width1}
                 THEN "OK" ELSE "ERR_SYNTAX"
           /\ at + cut = Len(source)
<1> DEFINE m == f.mean[i]
           line == f.lines[i]
<1>1. /\ i \in 1..f.n /\ m.verdict = "OK" /\ l \in Nat /\ cut \in Nat
      /\ l = Lead(line) /\ cut = Width(f, i) /\ at + cut = Len(source)
  BY DEF AtStart, Stand
<1>2. meaning.verdict = IF MayEnd(m.place, line, f.cut)
                        THEN "OK" ELSE "ERR_SYNTAX"
  BY <1>1, VerdictAt
<1>3. f.cut = cut
  BY <1>1 DEF Width
<1>4. line.kind = "date" => l = 0
  BY <1>1 DEF Lead
<1>5. line.kind = "date" => cut # 1
  BY <1>1, <1>4
<1>6. CASE m.place = "dated"
  <2>1. MayEnd(m.place, line, cut) <=> cut # 0
    BY <1>1, <1>6 DEF MayEnd
  <2>. QED
    BY <1>1, <1>2, <1>3, <1>6, <2>1
<1>7. CASE m.place = "desc"
  <2>1. MayEnd(m.place, line, cut) <=> cut \in {0, Width1}
    BY <1>1, <1>5, <1>7 DEF MayEnd
  <2>. QED
    BY <1>1, <1>2, <1>3, <1>7, <2>1
<1>8. CASE m.place \notin {"dated", "desc"}
  <2>1. MayEnd(m.place, line, cut) <=> cut \in {0, Width1}
    BY <1>1, <1>8 DEF MayEnd
  <2>. QED
    BY <1>1, <1>2, <1>3, <1>8, <2>1
<1>. QED
  BY <1>6, <1>7, <1>8

----------------------------------------------------------------------------
(* The first token of a line, by the place it stands in.                    *)

Placed(m) ==
    /\ m.place \in {"top", "dated", "items", "body", "desc"}
    /\ m.place = "top" => /\ pstate = "days"
                          /\ indent1 = 0 /\ indent2 = 0
    /\ m.place = "dated" => /\ pstate = "emptylines"
                            /\ indent1 = 0 /\ indent2 = 0
    /\ m.place \in {"items", "body"} => /\ pstate = m.place
                                        /\ indent1 = Width1 /\ indent2 = 0
    /\ m.place = "desc" => /\ pstate = "desc" /\ CacheIs(Above(m))
                           /\ indent1 = Width1 /\ indent2 = Width2

LEMMA StartPlaced ==
    ASSUME NEW f, Going(f), NEW i, AtStart(f, i)
    PROVE  /\ Placed(f.mean[i]) /\ Clock(f.mean[i]) /\ Recorded(f.mean[i])
           /\ LevelsAre(Level(pstate))
           /\ i \in 1..f.n /\ f.mean[i].verdict = "OK"
           /\ (i = 1) <=> f.mean[i].place = "top"
           /\ MeaningOK(f.mean[i]) /\ IsLine(f.lines[i])
<1>1. i \in 1..f.n /\ f.mean[i].verdict = "OK" /\ LevelsAre(Level(pstate))
      /\ Clock(f.mean[i]) /\ Recorded(f.mean[i])
  BY DEF AtStart
<1>2. PICK m : m = f.mean[i]
  OBVIOUS
<1>3. /\ pstate = StateAt[m.place]
      /\ m.place = "desc" => CacheIs(Above(m))
  BY <1>2 DEF AtStart
<1>4. m.place \in {"top", "dated", "items", "body", "desc"}
  BY <1>1, <1>2, Lines DEF MeaningOK, Meanings, Place
<1>5. /\ m.place = "top" => pstate = "days"
      /\ m.place = "dated" => pstate = "emptylines"
      /\ m.place = "items" => pstate = "items"
      /\ m.place = "body" => pstate = "body"
      /\ m.place = "desc" => pstate = "desc"
  BY <1>3 DEF StateAt
<1>6. /\ m.place = "top" => Level(pstate) = 0
      /\ m.place = "dated" => Level(pstate) = 0
      /\ m.place = "items" => Level(pstate) = 1
      /\ m.place = "body" => Level(pstate) = 1
      /\ m.place = "desc" => Level(pstate) = 2
  BY <1>5 DEF Level
<1>7. Placed(m)
  BY <1>1, <1>3, <1>4, <1>5, <1>6 DEF Placed, LevelsAre
<1>8. /\ (i = 1) <=> f.mean[i].place = "top"
      /\ MeaningOK(f.mean[i]) /\ IsLine(f.lines[i])
  BY <1>1, TopFirst, Lines
<1>. QED
  BY <1>1, <1>2, <1>7, <1>8

\* An empty line.
LEMMA EmptyStart ==
    ASSUME NEW f, Going(f), NEW i, AtStart(f, i), i # 1,
           NEW l, NEW cut, Stand(f, i, l, cut),
           f.lines[i].kind = "empty", i < f.n,
           Now(at + 1, indent1, indent2, FALSE, TRUE, "NEWLINE")
    PROVE  Live(f)'
<1>1. PICK m : m = f.mean[i]
  OBVIOUS
<1>2. /\ Placed(m) /\ Clock(m) /\ Recorded(m) /\ LevelsAre(Level(pstate))
      /\ i \in 1..f.n /\ m.verdict = "OK" /\ m.place # "top"
  BY <1>1, StartPlaced
<1>3. PlaceAfter(m.place, f.lines[i]) # "misplaced"
  BY <1>2 DEF PlaceAfter, Placed
<1>4. i # f.n
  <2>1. f.n \in Nat
    BY <1>2, Lines
  <2>. QED
    BY <1>2, <2>1
<1>5. InLine(f, i)
  BY <1>1, <1>2, <1>3, <1>4 DEF InLine
<1>6. cut = 0 /\ at \in Nat /\ at < Len(source) /\ source[at + 1] = "\n"
  <2>1. /\ cut \in Nat /\ at \in Nat /\ Len(source) \in Nat
        /\ cut = Len(W(f, i)) /\ Len(W(f, i)) = 0
        /\ at + cut + 1 <= Len(source) /\ source[at + cut + 1] = "\n"
    BY DEF Stand, LeadIs
  <2>2. cut = 0 /\ at + cut + 1 = at + 1
    BY <2>1
  <2>. QED
    BY <2>1, <2>2
<1>7. /\ (source[at + 1] = "\n") = TRUE
      /\ CharToken(source[at + 1]) = "NEWLINE"
  BY <1>6, Classified
<1>8. PICK b : b = at
  OBVIOUS
<1>9. b = f.start[i] + 0 /\ 0 <= Width(f, i)
  BY <1>6, <1>8, Lines DEF Stand
<1>10. Now(b + 1, indent1, indent2, FALSE, source[b + 1] = "\n",
           CharToken(source[b + 1]))
  BY <1>7, <1>8
<1>11. Stream(f, i, 0)'
  BY <1>1, <1>2, <1>5, <1>6, <1>8, <1>9, <1>10, CharRead
<1>12. InEmpty(f, i, 0)'
  <2>1. UNCHANGED <<source, parser, meaning>> /\ pending'
    BY DEF Now, Going
  <2>2. /\ Clock(m)' /\ pstate' = pstate
        /\ CacheIs(Above(m)) => CacheIs(Above(m))'
    BY <1>2, <2>1, ReadKeeps
  <2>. QED
    BY <1>1, <1>2, <2>1, <2>2 DEF InEmpty, Placed
<1>. QED
  BY <1>11, <1>12, ReadingAt

\* The end of the file below a date.
LEMMA DatedEnd ==
    ASSUME NEW f, Going(f), NEW i, AtStart(f, i), f.mean[i].place = "dated",
           NEW l, NEW cut, Stand(f, i, l, cut), Opens(f, i, l, cut),
           cut <= l, i = f.n
    PROVE  Live(f)'
<1>1. PICK m : m = f.mean[i]
  OBVIOUS
<1>2. /\ pstate = "emptylines" /\ indent1 = 0 /\ indent2 = 0 /\ Recorded(m)
      /\ m.verdict = "OK" /\ m.place = "dated"
  BY <1>1, StartPlaced DEF Placed
<1>3. meaning.verdict = IF cut # 0 THEN "OK" ELSE "ERR_SYNTAX"
  BY EndedAt
<1>4. IF cut = 0 THEN Takes(Len(source)) ELSE Changes(Len(source), cut)
  BY <1>2 DEF Opens, Stand
<1>5. ~(Len(source) < Len(source))
  BY DEF Stand
<1>6. CASE cut = 0
  <2>1. Now(Len(source), 0, 0, FALSE, FALSE, "END")
    BY <1>2, <1>4, <1>6 DEF Takes
  <2>2. UNCHANGED <<source, parser, meaning>> /\ pending' /\ token' = "END"
    BY <2>1 DEF Now, Going
  <2>3. pstate' = "emptylines"
    BY <1>2, <2>2, ReadKeeps
  <2>4. pstate' \in State \ {"mday", "minute", "body"} /\ pstate' # "days"
    BY <2>3 DEF State
  <2>. QED
    BY <1>3, <1>6, <2>2, <2>4, LevelRefused
<1>7. CASE cut # 0
  <2>1. Now(Len(source), cut, 0, FALSE, FALSE, "INDENT")
    BY <1>2, <1>4, <1>7 DEF Changes
  <2>2. UNCHANGED <<source, parser, meaning>>
    BY <2>1 DEF Now, Going
  <2>3. /\ Recorded(m)' /\ meaning' = meaning /\ source' = source
        /\ pstate' = pstate
    BY <1>2, <2>2, ReadKeeps
  <2>4. Ending(f)'
    BY <1>1, <1>2, <1>3, <1>7, <2>1, <2>3 DEF Ending, Now
  <2>. QED
    BY <2>4, EndingAt
<1>. QED
  BY <1>6, <1>7

\* That below a work or a task.
LEMMA ItemsEnd ==
    ASSUME NEW f, Going(f), NEW i, AtStart(f, i),
           f.mean[i].place \in {"items", "body"},
           NEW l, NEW cut, Stand(f, i, l, cut), Opens(f, i, l, cut),
           cut <= l, i = f.n
    PROVE  Live(f)'
<1>1. PICK m : m = f.mean[i]
  OBVIOUS
<1>2. /\ pstate = m.place /\ indent1 = Width1 /\ indent2 = 0 /\ Recorded(m)
      /\ m.verdict = "OK" /\ m.place \in {"items", "body"}
  BY <1>1, StartPlaced DEF Placed
<1>3. meaning.verdict = IF cut \in {0, Width1} THEN "OK" ELSE "ERR_SYNTAX"
  BY <1>1, <1>2, EndedAt
<1>4. Width1 \in Nat /\ Width1 # 0 /\ Width1 + 0 = Width1
  BY WidthAssumption
<1>5. IF cut = Width1 THEN Takes(Len(source)) ELSE Changes(Len(source), cut)
  BY <1>2, <1>4 DEF Opens
<1>6. cut \in Nat /\ Len(source) \in Nat
  BY DEF Stand
<1>7. CASE cut \in {0, Width1}
  <2>1. Now(Len(source), 0, 0, FALSE, FALSE, "DEINDENT")
    <3>1. CASE cut = 0
      BY <1>2, <1>4, <1>5, <3>1 DEF Changes
    <3>2. CASE cut = Width1
      BY <1>2, <1>4, <1>5, <3>2 DEF Takes
    <3>. QED
      BY <1>7, <3>1, <3>2
  <2>2. UNCHANGED <<source, parser, meaning>>
    BY <2>1 DEF Now, Going
  <2>3. /\ Recorded(m)' /\ meaning' = meaning /\ source' = source
        /\ pstate' = pstate
    BY <1>2, <2>2, ReadKeeps
  <2>4. Ending(f)'
    BY <1>1, <1>2, <1>3, <1>7, <2>1, <2>3 DEF Ending, Now, LevelsAre
  <2>. QED
    BY <2>4, EndingAt
<1>8. CASE cut \notin {0, Width1}
  <2>1. meaning.verdict = "ERR_SYNTAX" /\ Changes(Len(source), cut)
    BY <1>3, <1>5, <1>8
  <2>2. CASE cut < Width1
    <3>1. Now(Len(source), indent1, indent2, FALSE, FALSE, "END")
      BY <1>2, <1>4, <1>8, <2>1, <2>2 DEF Changes
    <3>2. UNCHANGED <<source, parser, meaning>> /\ pending' /\ token' = "END"
      BY <3>1 DEF Now, Going
    <3>3. pstate' = m.place /\ meaning' = meaning
      BY <1>2, <3>2, ReadKeeps
    <3>4. CASE m.place = "items"
      <4>1. pstate' \in State \ {"mday", "minute", "body"} /\ pstate' # "days"
        BY <3>3, <3>4 DEF State
      <4>. QED
        BY <2>1, <3>2, <4>1, LevelRefused
    <3>5. CASE m.place = "body"
      <4>1. Doomed'
        BY <2>1, <3>2, <3>3, <3>5 DEF Doomed
      <4>. QED
        BY <4>1 DEF Live
    <3>. QED
      BY <1>2, <3>4, <3>5
  <2>3. CASE cut > Width1
    <3>1. Now(Len(source), indent1, cut - indent1, FALSE, FALSE, "INDENT")
      BY <1>2, <1>4, <2>1, <2>3 DEF Changes
    <3>2. UNCHANGED <<source, parser, meaning>> /\ pending'
          /\ token' = "INDENT" /\ indent2' = cut - Width1 /\ at' = Len(source)
          /\ ~cacheParseindent' /\ ~cacheDeindent'
      BY <1>2, <3>1 DEF Now, Going
    <3>3. pstate' = m.place /\ meaning' = meaning /\ source' = source
      BY <1>2, <3>2, ReadKeeps
    <3>4. CASE m.place = "items"
      <4>1. pstate' \in State \ {"mday", "minute", "body"}
            /\ pstate' # "emptylines"
        BY <3>3, <3>4 DEF State
      <4>. QED
        BY <2>1, <3>2, <4>1, LevelRefused
    <3>5. CASE m.place = "body"
      <4>1. indent2' # 0
        BY <1>4, <1>6, <2>3, <3>2
      <4>2. Doomed'
        BY <2>1, <3>2, <3>3, <3>5, <4>1 DEF Doomed
      <4>. QED
        BY <4>2 DEF Live
    <3>. QED
      BY <1>2, <3>4, <3>5
  <2>. QED
    BY <1>4, <1>6, <1>8, <2>2, <2>3
<1>. QED
  BY <1>7, <1>8

\* That below a description.
LEMMA DescEnd ==
    ASSUME NEW f, Going(f), NEW i, AtStart(f, i), f.mean[i].place = "desc",
           NEW l, NEW cut, Stand(f, i, l, cut), Opens(f, i, l, cut),
           cut <= l, i = f.n
    PROVE  Live(f)'
<1>1. PICK m : m = f.mean[i]
  OBVIOUS
<1>2. /\ pstate = "desc" /\ indent1 = Width1 /\ indent2 = Width2
      /\ Recorded(m) /\ CacheIs(Above(m))
      /\ m.verdict = "OK" /\ m.place = "desc"
  BY <1>1, StartPlaced DEF Placed
<1>3. meaning.verdict = IF cut \in {0, Width1} THEN "OK" ELSE "ERR_SYNTAX"
  BY <1>1, <1>2, EndedAt
<1>4. Width1 \in Nat /\ Width1 # 0 /\ Width2 \in Nat /\ Width2 # 0
  BY WidthAssumption
<1>5. IF cut = Width1 + Width2 THEN Takes(Len(source))
      ELSE Changes(Len(source), cut)
  BY <1>2, <1>4 DEF Opens
<1>6. cut \in Nat /\ Len(source) \in Nat
  BY DEF Stand
<1>7. CASE cut \in {0, Width1}
  <2>1. \/ Now(Len(source), 0, 0, TRUE, FALSE, "DEINDENT")
        \/ Now(Len(source), Width1, 0, FALSE, FALSE, "DEINDENT")
    <3>1. Changes(Len(source), cut)
      BY <1>4, <1>5, <1>7
    <3>. QED
      BY <1>2, <1>4, <1>7, <3>1 DEF Changes
  <2>2. UNCHANGED <<source, parser, meaning>>
    BY <2>1 DEF Now, Going
  <2>3. /\ Recorded(m)' /\ meaning' = meaning /\ source' = source
        /\ pstate' = pstate /\ CacheIs(Above(m))'
    BY <1>2, <2>2, ReadKeeps
  <2>4. Ending(f)'
    BY <1>1, <1>2, <1>3, <1>7, <2>1, <2>3 DEF Ending, Now, LevelsAre
  <2>. QED
    BY <2>4, EndingAt
<1>8. CASE cut = Width1 + Width2
  <2>1. Now(Len(source), Width1, 0, TRUE, FALSE, "DEINDENT")
    BY <1>2, <1>4, <1>5, <1>8 DEF Takes
  <2>2. UNCHANGED <<source, parser, meaning>>
    BY <2>1 DEF Now, Going
  <2>3. pstate' = "desc" /\ meaning' = meaning /\ source' = source
    BY <1>2, <2>2, ReadKeeps
  <2>4. meaning.verdict = "ERR_SYNTAX"
    BY <1>3, <1>4, <1>8
  <2>5. Doomed'
    BY <1>4, <2>1, <2>3, <2>4 DEF Doomed, Now
  <2>. QED
    BY <2>5 DEF Live
<1>9. CASE cut \notin {0, Width1, Width1 + Width2}
  <2>1. meaning.verdict = "ERR_SYNTAX" /\ Changes(Len(source), cut)
    BY <1>3, <1>5, <1>9
  <2>2. Now(Len(source), indent1, indent2, FALSE, FALSE, "END")
    BY <1>2, <1>4, <1>9, <2>1 DEF Changes
  <2>3. UNCHANGED <<source, parser, meaning>> /\ pending' /\ token' = "END"
    BY <2>2 DEF Now, Going
  <2>4. pstate' = "desc"
    BY <1>2, <2>3, ReadKeeps
  <2>5. pstate' \in State \ {"mday", "minute", "body"} /\ pstate' # "days"
    BY <2>4 DEF State
  <2>. QED
    BY <2>1, <2>3, <2>5, LevelRefused
<1>. QED
  BY <1>7, <1>8, <1>9

----------------------------------------------------------------------------
(* The first token of a line with characters behind its blanks.             *)

\* The line behind its l blanks.
Fronts(f, i, l, cut) ==
    LET ch == source[at + l + 1]
        kind == f.lines[i].kind
    IN  /\ l \in Nat /\ cut \in Nat /\ at \in Nat /\ Len(source) \in Nat
        /\ at + l < Len(source) /\ at = f.start[i] /\ cut = Width(f, i)
        /\ l < cut /\ ch \notin White
        /\ kind \in {"date", "work", "task", "desc"}
        /\ kind = "date" => l = 0 /\ ch \in Digit
        /\ kind \in {"work", "task"} => l = Width1
        /\ kind = "desc" => l = Width1 + Width2 /\ ch \notin Digit \union {"#"}

LEMMA FrontsAt ==
    ASSUME NEW f, NEW i, NEW l, NEW cut, Stand(f, i, l, cut), l < cut
    PROVE  Fronts(f, i, l, cut)
<1>1. /\ at + l < Len(source) /\ source[at + l + 1] = W(f, i)[l + 1]
      /\ source[at + l + 1] \notin White
      /\ f.lines[i].kind # "empty"
  BY StandChar
<1>2. PICK line, w : line = f.lines[i] /\ w = W(f, i)
  OBVIOUS
<1>3. LeadIs(line, w) /\ l = Lead(line)
  BY <1>2 DEF Stand
<1>4. PICK ch : ch = source[at + l + 1]
  OBVIOUS
<1>5. ch = w[Lead(line) + 1] /\ line.kind # "empty"
  BY <1>1, <1>2, <1>3, <1>4
<1>6. /\ line.kind \in {"date", "work", "task", "desc"}
      /\ line.kind = "date" => ch \in Digit
      /\ line.kind = "desc" => ch \notin Digit \union {"#"}
  BY <1>3, <1>5 DEF LeadIs
<1>7. /\ line.kind = "date" => l = 0
      /\ line.kind \in {"work", "task"} => l = Width1
      /\ line.kind = "desc" => l = Width1 + Width2
  BY <1>3 DEF Lead
<1>8. /\ l \in Nat /\ cut \in Nat /\ at \in Nat /\ Len(source) \in Nat
      /\ at = f.start[i] /\ cut = Width(f, i)
  BY DEF Stand
<1>. QED
  BY <1>1, <1>2, <1>4, <1>6, <1>7, <1>8 DEF Fronts

\* Below a date.
LEMMA DatedChar ==
    ASSUME NEW f, Going(f), NEW i, AtStart(f, i), f.mean[i].place = "dated",
           NEW l, NEW cut, Stand(f, i, l, cut), Opens(f, i, l, cut),
           l < cut
    PROVE  Live(f)'
<1>1. PICK m, line : m = f.mean[i] /\ line = f.lines[i]
  OBVIOUS
<1>2. /\ pstate = "emptylines" /\ indent1 = 0 /\ indent2 = 0 /\ Recorded(m)
      /\ Clock(m) /\ m.verdict = "OK" /\ m.place = "dated"
  BY <1>1, StartPlaced DEF Placed
<1>3. Fronts(f, i, l, cut)
  BY FrontsAt
<1>4. IF l = 0 THEN Takes(at + l) ELSE Changes(at + l, l)
  BY <1>2, <1>3 DEF Opens, Fronts
<1>5. Width1 \in Nat /\ Width1 # 0 /\ Width2 \in Nat /\ Width2 # 0
  BY WidthAssumption
<1>6. /\ PlaceAfter(m.place, line) = "misplaced" =>
            meaning.verdict = "ERR_SYNTAX"
      /\ PlaceAfter(m.place, line) # "misplaced" => InLine(f, i)
  BY <1>1, <1>2, Standing
<1>7. CASE line.kind = "date"
  <2>1. l = 0 /\ at + l < Len(source)
    BY <1>1, <1>3, <1>7 DEF Fronts
  <2>2. PICK b, ch : b = at + l /\ ch = source[b + 1]
    OBVIOUS
  <2>3. Now(b + 1, indent1, indent2, FALSE, ch = "\n", CharToken(ch))
    BY <1>4, <2>1, <2>2 DEF Takes
  <2>4. UNCHANGED <<source, parser, meaning>> /\ pending'
        /\ token' = CharToken(ch) /\ at' = b + 1
    BY <2>3 DEF Now, Going
  <2>5. pstate' = "emptylines" /\ source' = source
    BY <1>2, <2>4, ReadKeeps
  <2>6. Ch' = ch
    BY <2>2, <2>4, <2>5 DEF Ch
  <2>7. KindIs(Kind', ch)
    BY <2>4, <2>6, KindNext
  <2>8. ch # "\n"
    BY <1>3, <2>2 DEF Fronts, White
  <2>9. ~Expects(pstate', Kind')
    <3>1. Kind' \notin {"INDENT", "NEWLINE"}
      BY <2>7, <2>8 DEF KindIs
    <3>. QED
      BY <2>5, <3>1, Refuses
  <2>10. PlaceAfter(m.place, line) = "misplaced"
    BY <1>2, <1>7 DEF PlaceAfter
  <2>. QED
    BY <1>6, <2>4, <2>9, <2>10, DoomedAt
<1>8. CASE line.kind \in {"work", "task"}
  <2>1. l = Width1 /\ l # 0
    BY <1>1, <1>3, <1>5, <1>8 DEF Fronts
  <2>2. Now(at + l, l, 0, FALSE, FALSE, "INDENT")
    BY <1>2, <1>4, <2>1 DEF Changes
  <2>3. UNCHANGED <<source, parser, meaning>>
    BY <2>2 DEF Now, Going
  <2>4. /\ Recorded(m)' /\ Clock(m)' /\ meaning' = meaning
        /\ source' = source /\ pstate' = pstate
    BY <1>2, <2>3, ReadKeeps
  <2>5. PlaceAfter(m.place, line) # "misplaced"
    BY <1>2, <1>8 DEF PlaceAfter
  <2>6. InLine(f, i)'
    BY <1>6, <2>4, <2>5, InLineKept
  <2>7. Behind(f, i, Width1)'
    BY <1>3, <2>1, <2>2 DEF Behind, Fronts, Now
  <2>8. Leading(f, i)'
    BY <1>1, <1>2, <1>8, <2>1, <2>2, <2>4, <2>6, <2>7
       DEF Leading, Now, LevelsAre
  <2>. QED
    BY <2>8, LeadingAt
<1>9. CASE line.kind = "desc"
  <2>1. l = Width1 + Width2 /\ l # 0
    BY <1>1, <1>3, <1>5, <1>9 DEF Fronts
  <2>2. Now(at + l, l, 0, FALSE, FALSE, "INDENT")
    BY <1>2, <1>4, <2>1 DEF Changes
  <2>3. UNCHANGED <<source, parser, meaning>>
    BY <2>2 DEF Now, Going
  <2>4. meaning' = meaning /\ source' = source /\ pstate' = pstate
    BY <1>2, <2>3, ReadKeeps
  <2>5. PlaceAfter(m.place, line) = "misplaced"
    BY <1>2, <1>9 DEF PlaceAfter
  <2>6. PICK b, ch : b = at + l /\ ch = source[b + 1]
    OBVIOUS
  <2>7. /\ b < Len(source) /\ ch \notin Digit \union {"#"}
        /\ ch \notin White
    BY <1>1, <1>3, <1>9, <2>6 DEF Fronts
  <2>8. Class(ch) = "text"
    BY <2>7, Classified DEF White
  <2>9. Doomed'
    BY <1>2, <1>6, <2>2, <2>4, <2>5, <2>6, <2>7, <2>8 DEF Doomed, Now
  <2>. QED
    BY <2>9 DEF Live
<1>. QED
  BY <1>1, <1>3, <1>7, <1>8, <1>9 DEF Fronts

\* Below a work or a task.
LEMMA ItemsChar ==
    ASSUME NEW f, Going(f), NEW i, AtStart(f, i),
           f.mean[i].place \in {"items", "body"},
           NEW l, NEW cut, Stand(f, i, l, cut), Opens(f, i, l, cut),
           l < cut
    PROVE  Live(f)'
<1>1. PICK m, line : m = f.mean[i] /\ line = f.lines[i]
  OBVIOUS
<1>2. /\ pstate = m.place /\ indent1 = Width1 /\ indent2 = 0 /\ Recorded(m)
      /\ Clock(m) /\ m.verdict = "OK" /\ m.place \in {"items", "body"}
      /\ LevelsAre(Level(pstate))
  BY <1>1, StartPlaced DEF Placed
<1>3. Fronts(f, i, l, cut)
  BY FrontsAt
<1>4. Width1 \in Nat /\ Width1 # 0 /\ Width2 \in Nat /\ Width2 # 0
      /\ Width1 + 0 = Width1
  BY WidthAssumption
<1>5. IF l = Width1 THEN Takes(at + l) ELSE Changes(at + l, l)
  BY <1>2, <1>3, <1>4 DEF Opens, Fronts
<1>6. /\ PlaceAfter(m.place, line) = "misplaced" =>
            meaning.verdict = "ERR_SYNTAX"
      /\ PlaceAfter(m.place, line) # "misplaced" => InLine(f, i)
  BY <1>1, <1>2, Standing
<1>7. CASE line.kind = "date"
  <2>1. l = 0 /\ at \in Nat
    BY <1>1, <1>3, <1>7 DEF Fronts
  <2>2. Now(at + l, 0, 0, FALSE, FALSE, "DEINDENT")
    BY <1>2, <1>4, <1>5, <2>1 DEF Changes
  <2>3. UNCHANGED <<source, parser, meaning>>
    BY <2>2 DEF Now, Going
  <2>4. /\ Recorded(m)' /\ Clock(m)' /\ meaning' = meaning
        /\ source' = source /\ pstate' = pstate
    BY <1>2, <2>3, ReadKeeps
  <2>5. PlaceAfter(m.place, line) # "misplaced"
    BY <1>2, <1>7 DEF PlaceAfter
  <2>6. InLine(f, i)'
    BY <1>6, <2>4, <2>5, InLineKept
  <2>7. Behind(f, i, 0)'
    BY <1>3, <2>1, <2>2 DEF Behind, Fronts, Now
  <2>8. Leading(f, i)'
    BY <1>1, <1>2, <1>7, <2>2, <2>4, <2>6, <2>7
       DEF Leading, Now, LevelsAre
  <2>. QED
    BY <2>8, LeadingAt
<1>8. CASE line.kind \in {"work", "task"}
  <2>1. l = Width1
    BY <1>1, <1>3, <1>8 DEF Fronts
  <2>2. PICK b : b = f.start[i] + l
    OBVIOUS
  <2>3. b < Len(source) /\ b = at + l /\ l \in Nat /\ l <= Width(f, i)
        /\ l < Width(f, i)
    BY <1>3, <2>2 DEF Fronts
  <2>4. Now(b + 1, indent1, indent2, FALSE, source[b + 1] = "\n",
            CharToken(source[b + 1]))
    BY <1>5, <2>1, <2>3 DEF Takes
  <2>5. PlaceAfter(m.place, line) # "misplaced"
    BY <1>2, <1>8 DEF PlaceAfter
  <2>6. Stream(f, i, l)'
    BY <1>1, <1>2, <1>6, <2>2, <2>3, <2>4, <2>5, CharRead
  <2>7. UNCHANGED <<source, parser, meaning>> /\ pending'
    BY <2>4 DEF Now, Going
  <2>8. Clock(m)' /\ pstate' = pstate
    BY <1>2, <2>7, ReadKeeps
  <2>9. InItem(f, i, l)'
    BY <1>1, <1>2, <1>8, <2>1, <2>3, <2>7, <2>8 DEF InItem
  <2>. QED
    BY <2>6, <2>9, ReadingAt
<1>9. CASE line.kind = "desc"
  <2>1. l = Width1 + Width2 /\ l > Width1 /\ l # Width1 /\ l - Width1 = Width2
    BY <1>1, <1>3, <1>4, <1>9 DEF Fronts
  <2>2. Now(at + l, Width1, Width2, FALSE, FALSE, "INDENT")
    BY <1>2, <1>4, <1>5, <2>1 DEF Changes
  <2>3. UNCHANGED <<source, parser, meaning>> /\ pending' /\ token' = "INDENT"
    BY <2>2 DEF Now, Going
  <2>4. /\ Recorded(m)' /\ Clock(m)' /\ meaning' = meaning
        /\ source' = source /\ pstate' = pstate
    BY <1>2, <2>3, ReadKeeps
  <2>5. CASE m.place = "items"
    <3>1. PlaceAfter(m.place, line) = "misplaced"
      BY <1>9, <2>5 DEF PlaceAfter
    <3>2. pstate' \in State \ {"mday", "minute", "body"}
          /\ pstate' # "emptylines"
      BY <1>2, <2>4, <2>5 DEF State
    <3>. QED
      BY <1>6, <2>3, <3>1, <3>2, LevelRefused
  <2>6. CASE m.place = "body"
    <3>1. PlaceAfter(m.place, line) # "misplaced"
      BY <1>9, <2>6 DEF PlaceAfter
    <3>2. InLine(f, i)'
      BY <1>6, <2>4, <3>1, InLineKept
    <3>3. Behind(f, i, Width1 + Width2)'
      <4>1. at' = f.start[i] + l /\ l < Width(f, i)
        BY <1>3, <2>2 DEF Fronts, Now
      <4>2. PICK p : p = Width1 + Width2
        OBVIOUS
      <4>3. Behind(f, i, p)'
        BY <2>1, <4>1, <4>2 DEF Behind
      <4>. QED
        BY <4>2, <4>3
    <3>4. /\ pending' /\ token' = "INDENT" /\ pstate' = "body"
          /\ LevelsAre(2)' /\ ~cacheDeindent' /\ ~cacheParseindent'
      <4>1. /\ indent1' = Width1 /\ indent2' = Width2
            /\ pending' /\ token' = "INDENT"
            /\ ~cacheDeindent' /\ ~cacheParseindent'
        BY <2>2 DEF Now
      <4>2. LevelsAre(2)'
        BY <4>1 DEF LevelsAre
      <4>. QED
        BY <1>2, <2>4, <2>6, <4>1, <4>2
    <3>5. Leading(f, i)'
      BY <1>1, <1>9, <2>4, <2>6, <3>2, <3>3, <3>4 DEF Leading
    <3>. QED
      BY <3>5, LeadingAt
  <2>. QED
    BY <1>2, <2>5, <2>6
<1>. QED
  BY <1>1, <1>3, <1>7, <1>8, <1>9 DEF Fronts

\* Below a description.
LEMMA DescChar ==
    ASSUME NEW f, Going(f), NEW i, AtStart(f, i), f.mean[i].place = "desc",
           NEW l, NEW cut, Stand(f, i, l, cut), Opens(f, i, l, cut),
           l < cut
    PROVE  Live(f)'
<1>1. PICK m, line : m = f.mean[i] /\ line = f.lines[i]
  OBVIOUS
<1>2. /\ pstate = "desc" /\ indent1 = Width1 /\ indent2 = Width2
      /\ Recorded(m) /\ Clock(m) /\ CacheIs(Above(m))
      /\ m.verdict = "OK" /\ m.place = "desc"
      /\ LevelsAre(Level(pstate)) /\ MeaningOK(m)
  BY <1>1, StartPlaced DEF Placed
<1>3. Fronts(f, i, l, cut)
  BY FrontsAt
<1>4. Width1 \in Nat /\ Width1 # 0 /\ Width2 \in Nat /\ Width2 # 0
  BY WidthAssumption
<1>5. IF l = Width1 + Width2 THEN Takes(at + l) ELSE Changes(at + l, l)
  BY <1>2, <1>3, <1>4 DEF Opens, Fronts
<1>6. /\ PlaceAfter(m.place, line) # "misplaced"
      /\ line.kind = "date" /\ cut = 1 => i = f.n /\ meaning.verdict = "OK"
      /\ (line.kind = "date" => cut # 1) => InLine(f, i)
  <2>1. PlaceAfter(m.place, line) # "misplaced"
    BY <1>1, <1>2, <1>3 DEF PlaceAfter, Fronts
  <2>. QED
    BY <1>1, <1>2, <2>1, Standing
<1>7. CASE line.kind = "date"
  <2>1. l = 0 /\ at \in Nat /\ l # Width1 + Width2 /\ at + l = at
    BY <1>1, <1>3, <1>4, <1>7 DEF Fronts
  <2>2. Now(at + l, 0, 0, TRUE, FALSE, "DEINDENT")
    BY <1>2, <1>4, <1>5, <2>1 DEF Changes
  <2>3. UNCHANGED <<source, parser, meaning>>
    BY <2>2 DEF Now, Going
  <2>4. /\ Recorded(m)' /\ Clock(m)' /\ meaning' = meaning
        /\ source' = source /\ pstate' = pstate /\ CacheIs(Above(m))'
    BY <1>2, <2>3, ReadKeeps
  <2>5. CASE cut = 1
    <3>1. i = f.n /\ meaning.verdict = "OK"
      BY <1>6, <1>7, <2>5
    <3>2. at' = Len(source') - 1
      <4>1. at + cut = Len(source) /\ cut \in Nat /\ Len(source) \in Nat
        BY <3>1 DEF Stand
      <4>2. at' = at /\ source' = source
        BY <2>1, <2>2, <2>4 DEF Now
      <4>3. at = Len(source) - 1
        BY <2>1, <2>5, <4>1
      <4>. QED
        BY <4>2, <4>3
    <3>3. Ending(f)'
      BY <1>1, <1>2, <2>2, <2>4, <3>1, <3>2 DEF Ending, Now, LevelsAre
    <3>. QED
      BY <3>3, EndingAt
  <2>6. CASE cut # 1
    <3>1. InLine(f, i)'
      BY <1>6, <2>4, <2>6, InLineKept
    <3>2. Behind(f, i, 0)' /\ Width(f, i) > 1
      BY <1>3, <2>1, <2>2, <2>6 DEF Behind, Fronts, Now
    <3>3. Leading(f, i)'
      BY <1>1, <1>2, <1>7, <2>2, <2>4, <3>1, <3>2
         DEF Leading, Now, LevelsAre
    <3>. QED
      BY <3>3, LeadingAt
  <2>. QED
    BY <2>5, <2>6
<1>8. CASE line.kind \in {"work", "task"}
  <2>1. l = Width1 /\ l # Width1 + Width2
    BY <1>1, <1>3, <1>4, <1>8 DEF Fronts
  <2>2. Now(at + l, Width1, 0, FALSE, FALSE, "DEINDENT")
    BY <1>2, <1>4, <1>5, <2>1 DEF Changes
  <2>3. UNCHANGED <<source, parser, meaning>>
    BY <2>2 DEF Now, Going
  <2>4. /\ Recorded(m)' /\ Clock(m)' /\ meaning' = meaning
        /\ source' = source /\ pstate' = pstate /\ CacheIs(Above(m))'
    BY <1>2, <2>3, ReadKeeps
  <2>5. InLine(f, i)'
    BY <1>6, <1>8, <2>4, InLineKept
  <2>6. Behind(f, i, Width1)'
    <3>1. at' = f.start[i] + l /\ l < Width(f, i)
      BY <1>3, <2>2 DEF Fronts, Now
    <3>. QED
      BY <2>1, <3>1 DEF Behind
  <2>8. /\ pending' /\ token' = "DEINDENT" /\ pstate' = "desc"
        /\ LevelsAre(1)' /\ ~cacheDeindent' /\ ~cacheParseindent'
    <3>1. /\ indent1' = Width1 /\ indent2' = 0
          /\ pending' /\ token' = "DEINDENT"
          /\ ~cacheDeindent' /\ ~cacheParseindent'
      BY <2>2 DEF Now
    <3>2. LevelsAre(1)'
      BY <3>1 DEF LevelsAre
    <3>. QED
      BY <1>2, <2>4, <3>1, <3>2
  <2>7. Leading(f, i)'
    BY <1>1, <1>2, <1>8, <2>4, <2>5, <2>6, <2>8 DEF Leading
  <2>. QED
    BY <2>7, LeadingAt
<1>9. CASE line.kind = "desc"
  <2>1. l = Width1 + Width2
    BY <1>1, <1>3, <1>9 DEF Fronts
  <2>2. PICK b : b = f.start[i] + l
    OBVIOUS
  <2>3. b < Len(source) /\ b = at + l /\ l \in Nat /\ l <= Width(f, i)
        /\ l < Width(f, i)
    BY <1>3, <2>2 DEF Fronts
  <2>4. Now(b + 1, indent1, indent2, FALSE, source[b + 1] = "\n",
            CharToken(source[b + 1]))
    BY <1>5, <2>1, <2>3 DEF Takes
  <2>5. InLine(f, i)
    BY <1>6, <1>9
  <2>6. Stream(f, i, l)'
    BY <1>1, <1>2, <2>2, <2>3, <2>4, <2>5, CharRead
  <2>7. UNCHANGED <<source, parser, meaning>> /\ pending'
    BY <2>4 DEF Now, Going
  <2>8. /\ Clock(m)' /\ pstate' = pstate /\ UNCHANGED <<text, textpos>>
    BY <1>2, <2>7, ReadKeeps
  <2>9. Cached(Above(m), W(f, i), l, l)'
    <3>1. Len(Above(m)) \in Nat
      BY <1>2, AboveIs
    <3>2. Cached(Above(m), W(f, i), l, l)
      BY <1>2, <2>3, <3>1, CachedFrom
    <3>. QED
      BY <2>8, <3>2 DEF Cached
  <2>10. InDesc(f, i, l)'
    BY <1>1, <1>2, <1>9, <2>1, <2>3, <2>7, <2>8, <2>9 DEF InDesc
  <2>. QED
    BY <2>6, <2>10, ReadingAt
<1>. QED
  BY <1>1, <1>3, <1>7, <1>8, <1>9 DEF Fronts

----------------------------------------------------------------------------
(* The first token of the file.                                             *)

LEMMA TopRead ==
    ASSUME NEW f, Going(f), Read, NEW i, AtStart(f, i), i = 1
    PROVE  Live(f)'
<1>1. PICK m, line : m = f.mean[i] /\ line = f.lines[i]
  OBVIOUS
<1>2. /\ pstate = "days" /\ indent1 = 0 /\ indent2 = 0 /\ Recorded(m)
      /\ Clock(m) /\ m.verdict = "OK" /\ m.place = "top"
      /\ LevelsAre(Level(pstate)) /\ i \in 1..f.n /\ IsLine(line)
  BY <1>1, StartPlaced DEF Placed
<1>3. PICK l, cut : Stand(f, i, l, cut)
  BY StandsAt
<1>4. at = 0 /\ ~cacheDeindent /\ ~cacheParseindent
  <2>1. f.start[1] = 0
    BY DEF Going, IsFile
  <2>. QED
    BY <2>1 DEF AtStart
<1>5. Takes(0)
  BY <1>4, PlainRead DEF Going
<1>6. /\ l \in Nat /\ cut \in Nat /\ Len(source) \in Nat
      /\ 0 + cut <= Len(source) /\ cut = Width(f, i)
      /\ i < f.n \/ i = f.n
      /\ i = f.n => 0 + cut = Len(source)
      /\ i < f.n => 0 + cut + 1 <= Len(source)
  BY <1>3, <1>4 DEF Stand
<1>7. /\ i < f.n /\ PlaceAfter(m.place, line) = "misplaced"
            => meaning.verdict = "ERR_SYNTAX"
      /\ i = f.n => meaning.verdict = IF cut = 0 THEN "OK" ELSE "ERR_SYNTAX"
  <2>1. i = f.n => f.cut = cut
    BY <1>6 DEF Width
  <2>2. MayEnd(m.place, line, cut) <=> cut = 0
    BY <1>2 DEF MayEnd
  <2>. QED
    BY <1>1, <1>2, <2>1, <2>2, VerdictAt
<1>8. CASE Len(source) = 0
  <2>1. i = f.n /\ cut = 0 /\ ~(0 < Len(source))
    BY <1>6, <1>8
  <2>2. Now(0, 0, 0, FALSE, FALSE, "END")
    BY <1>2, <1>5, <1>8 DEF Takes
  <2>3. UNCHANGED <<source, parser, meaning>>
    BY <2>2 DEF Now, Going
  <2>4. /\ Recorded(m)' /\ meaning' = meaning /\ source' = source
        /\ pstate' = pstate
    BY <1>2, <2>3, ReadKeeps
  <2>5. Ending(f)'
    BY <1>1, <1>2, <1>7, <2>1, <2>2, <2>4 DEF Ending, Now
  <2>. QED
    BY <2>5, EndingAt
<1>9. CASE Len(source) # 0
  <2>1. PICK b, ch : b = 0 /\ ch = source[b + 1]
    OBVIOUS
  <2>2. b < Len(source)
    BY <1>6, <1>9, <2>1
  <2>3. Now(b + 1, indent1, indent2, FALSE, source[b + 1] = "\n",
            CharToken(source[b + 1]))
    BY <1>5, <2>1, <2>2 DEF Takes
  <2>4. UNCHANGED <<source, parser, meaning>> /\ pending' /\ at' = b + 1
        /\ token' = CharToken(ch)
    BY <2>1, <2>3 DEF Now, Going
  <2>5. /\ Recorded(m)' /\ Clock(m)' /\ meaning' = meaning
        /\ source' = source /\ pstate' = pstate
    BY <1>2, <2>4, ReadKeeps
  <2>6. KindIs(Kind', ch)
    <3>1. Ch' = ch
      BY <2>1, <2>4, <2>5 DEF Ch
    <3>. QED
      BY <2>4, <3>1, KindNext
  <2>7. CASE line.kind = "date" /\ cut # 0
    <3>1. PlaceAfter(m.place, line) # "misplaced"
      BY <1>2, <2>7 DEF PlaceAfter
    <3>2. InLine(f, i)
      BY <1>1, <1>2, <1>7, <2>7, <3>1 DEF InLine
    <3>3. 0 < Width(f, i) /\ 0 <= Width(f, i)
      BY <1>6, <2>7
    <3>4. b = f.start[i] + 0
      BY <1>4, <2>1 DEF AtStart
    <3>5. Stream(f, i, 0)'
      BY <1>1, <1>2, <2>2, <2>3, <3>2, <3>3, <3>4, CharRead
    <3>6. InDate(f, i, 0)'
      BY <1>1, <1>2, <2>5, <2>7, <3>3 DEF InDate
    <3>. QED
      BY <3>5, <3>6, ReadingAt
  <2>8. CASE ~(line.kind = "date" /\ cut # 0)
    <3>1. meaning.verdict = "ERR_SYNTAX"
      <4>1. CASE i < f.n
        <5>1. line.kind # "date"
          <6>1. CASE cut = 0
            <7>1. PICK n \in Nat : /\ n = Len(W(f, i))
                                   /\ line.kind = "date" => n > 1
              BY <1>1, <1>3 DEF Stand, LeadIs
            <7>2. n = 0
              BY <1>3, <4>1, <6>1, <7>1 DEF Stand
            <7>. QED
              BY <7>1, <7>2
          <6>. QED
            BY <2>8, <6>1
        <5>2. PlaceAfter(m.place, line) = "misplaced"
          BY <1>2, <5>1 DEF PlaceAfter
        <5>. QED
          BY <1>7, <4>1, <5>2
      <4>2. CASE i = f.n
        <5>1. cut # 0
          BY <1>6, <1>9, <4>2
        <5>. QED
          BY <1>7, <4>2, <5>1
      <4>. QED
        BY <1>6, <4>1, <4>2
    <3>2. ch \notin Digit
      <4>1. CASE cut = 0
        <5>1. i < f.n
          <6>1. i # f.n
            <7>1. i = f.n => cut = Len(source)
              BY <1>6
            <7>. QED
              BY <1>9, <4>1, <7>1
          <6>. QED
            BY <1>6, <6>1
        <5>2. source[at + cut + 1] = "\n"
          BY <1>3, <5>1 DEF Stand
        <5>3. at + cut + 1 = 1 /\ b + 1 = 1
          BY <1>4, <1>6, <2>1, <4>1
        <5>4. ch = "\n"
          BY <2>1, <5>2, <5>3
        <5>. QED
          BY <5>4 DEF Digit
      <4>2. CASE cut # 0
        <5>1. line.kind # "date"
          BY <2>8, <4>2
        <5>2. line.kind # "empty"
          <6>1. PICK n \in Nat : /\ n = Len(W(f, i)) /\ cut <= n
                                 /\ line.kind = "empty" => n = 0
            BY <1>1, <1>3 DEF Stand, LeadIs
          <6>. QED
            BY <1>6, <4>2, <6>1
        <5>3. l \in {Width1, Width1 + Width2}
          BY <1>1, <1>2, <1>3, <5>1, <5>2 DEF Stand, Lead, IsLine
        <5>4. 1 \in 1..l /\ 1 \in 1..cut
          BY <1>6, <4>2, <5>3, WidthAssumption
        <5>5. /\ \A j \in 1..l : W(f, i)[j] = " "
              /\ \A j \in 1..cut : source[at + j] = W(f, i)[j]
          BY <1>3 DEF Stand, LeadIs
        <5>6. source[at + 1] = " "
          BY <5>4, <5>5
        <5>7. at + 1 = b + 1
          BY <1>4, <2>1
        <5>8. ch = " "
          BY <2>1, <5>6, <5>7
        <5>. QED
          BY <5>8 DEF Digit
      <4>. QED
        BY <4>1, <4>2
    <3>3. Kind' \notin {"DIGIT", "END"}
      BY <2>6, <3>2 DEF KindIs
    <3>4. ~Expects(pstate', Kind')
      BY <1>2, <2>5, <3>3, Refuses
    <3>. QED
      BY <2>4, <2>5, <3>1, <3>4, DoomedAt
  <2>. QED
    BY <2>7, <2>8
<1>. QED
  BY <1>8, <1>9

\* The first token of any line.
LEMMA StartLive ==
    ASSUME NEW f, Going(f), Read, NEW i, AtStart(f, i)
    PROVE  Live(f)'
<1>1. PICK m : m = f.mean[i]
  OBVIOUS
<1>2. /\ i \in 1..f.n
      /\ m.place \in {"top", "dated", "items", "body", "desc"}
      /\ (i = 1) <=> m.place = "top"
  BY <1>1, StartPlaced DEF Placed
<1>3. CASE i = 1
  BY <1>3, TopRead
<1>4. CASE i # 1
  <2>1. PICK l, cut : Stand(f, i, l, cut)
    BY StandsAt
  <2>2. Opens(f, i, l, cut)
    BY <1>4, <2>1, Opened
  <2>3. CASE f.lines[i].kind = "empty" /\ i < f.n
    BY <1>4, <2>1, <2>2, <2>3, EmptyStart DEF Opens
  <2>4. CASE i = f.n /\ cut <= l
    <3>1. CASE m.place = "dated"
      BY <1>1, <2>1, <2>2, <2>4, <3>1, DatedEnd
    <3>2. CASE m.place \in {"items", "body"}
      BY <1>1, <2>1, <2>2, <2>4, <3>2, ItemsEnd
    <3>3. CASE m.place = "desc"
      BY <1>1, <2>1, <2>2, <2>4, <3>3, DescEnd
    <3>. QED
      BY <1>2, <1>4, <3>1, <3>2, <3>3
  <2>5. CASE l < cut
    <3>1. CASE m.place = "dated"
      BY <1>1, <2>1, <2>2, <2>5, <3>1, DatedChar
    <3>2. CASE m.place \in {"items", "body"}
      BY <1>1, <2>1, <2>2, <2>5, <3>2, ItemsChar
    <3>3. CASE m.place = "desc"
      BY <1>1, <2>1, <2>2, <2>5, <3>3, DescChar
    <3>. QED
      BY <1>2, <1>4, <3>1, <3>2, <3>3
  <2>. QED
    BY <2>2, <2>3, <2>4, <2>5 DEF Opens
<1>. QED
  BY <1>3, <1>4

----------------------------------------------------------------------------
(* The tokens that are read elsewhere.                                      *)

LEMMA LeadingRead ==
    ASSUME NEW f, Going(f), Read, NEW i, Leading(f, i)
    PROVE  Live(f)'
<1>1. ~pending
  BY DEF Read
<1>2. PICK m : m = f.mean[i]
  OBVIOUS
<1>3. /\ InLine(f, i) /\ Recorded(m) /\ Clock(m) /\ ~cacheParseindent
      /\ pstate = "items" /\ m.place = "desc" /\ f.lines[i].kind = "date"
      /\ Behind(f, i, 0) /\ Width(f, i) > 1 /\ LevelsAre(0) /\ cacheDeindent
  BY <1>1, <1>2 DEF Leading
<1>4. /\ i \in 1..f.n /\ f.start[i] \in Nat /\ Width(f, i) \in Nat
      /\ f.start[i] + Width(f, i) <= Len(source) /\ Len(source) \in Nat
  <2>1. i \in 1..f.n
    BY <1>3 DEF InLine
  <2>. QED
    BY <2>1, Lines, LexerTyped DEF Going, LineIn
<1>5. at = f.start[i] /\ at < Len(source)
  BY <1>3, <1>4 DEF Behind
<1>6. Now(at + 1, indent1, indent2, FALSE, FALSE, "DEINDENT")
  BY <1>3, <1>5, CachedRead DEF Going
<1>7. UNCHANGED <<source, parser, meaning>>
  BY <1>6 DEF Now, Going
<1>8. /\ Recorded(m)' /\ Clock(m)' /\ meaning' = meaning
      /\ source' = source /\ pstate' = pstate
  BY <1>3, <1>7, ReadKeeps
<1>9. InLine(f, i)'
  BY <1>3, <1>8, InLineKept
<1>10. Behind(f, i, 1)'
  BY <1>3, <1>5, <1>6 DEF Behind, Now
<1>11. LevelsAre(0)' /\ pending' /\ token' = "DEINDENT"
       /\ ~cacheDeindent' /\ ~cacheParseindent'
  BY <1>3, <1>6 DEF Now, LevelsAre
<1>12. Leading(f, i)'
  BY <1>2, <1>3, <1>8, <1>9, <1>10, <1>11 DEF Leading
<1>. QED
  BY <1>12, LeadingAt

\* The parser keeps its place when it looks at the next character.
LEMMA InKept ==
    ASSUME NEW f, NEW i, NEW k, UNCHANGED <<source, parser, meaning>>, pending'
    PROVE  /\ InDate(f, i, k) => InDate(f, i, k)'
           /\ InWork(f, i, k) => InWork(f, i, k)'
           /\ InTask(f, i, k) => InTask(f, i, k)'
           /\ InDesc(f, i, k) => InDesc(f, i, k)'
           /\ InItem(f, i, k) => InItem(f, i, k)'
<1>1. /\ UNCHANGED <<source, meaning, pstate, numbers, text, textpos,
                     textlen, tm, entries, ret>>
      /\ \A m : Clock(m) => Clock(m)'
  BY ReadKeeps
<1>2. InDate(f, i, k) => InDate(f, i, k)'
  BY <1>1 DEF InDate
<1>3. \A b, w, p, q : Cached(b, w, p, q) => Cached(b, w, p, q)'
  BY <1>1 DEF Cached
<1>4. InWork(f, i, k) => InWork(f, i, k)'
  BY <1>1, <1>3 DEF InWork
<1>5. InTask(f, i, k) => InTask(f, i, k)'
  BY <1>1, <1>3 DEF InTask
<1>6. InDesc(f, i, k) => InDesc(f, i, k)'
  BY <1>1, <1>3 DEF InDesc
<1>7. InItem(f, i, k) => InItem(f, i, k)'
  BY <1>1 DEF InItem
<1>. QED
  BY <1>2, <1>4, <1>5, <1>6, <1>7

\* The end of the file inside of a line.
LEMMA CutRead ==
    ASSUME NEW f, Going(f), Read, NEW i, NEW k, Reading(f, i, k),
           at = Len(source), k = Width(f, i), Takes(at),
           meaning.verdict = "ERR_SYNTAX"
    PROVE  Live(f)'
<1>1. ~pending /\ LevelsAre(Level(pstate))
  BY DEF Read, Reading, Stream
<1>2. PICK n \in Nat : n = Width(f, i)
  BY StreamTyped DEF Reading
<1>3. ~(k < Width(f, i))
  BY <1>2
<1>4. /\ InDate(f, i, k) => pstate \in {"year", "month0", "month", "mday0",
                                         "mday", "padding"}
      /\ InWork(f, i, k) => pstate \in {"hour", "minute0", "minute", "timed",
                                        "work", "worktext"}
      /\ InTask(f, i, k) => pstate \in {"id0", "id", "task", "tasktext"}
      /\ InDesc(f, i, k) => pstate = "desc"
      /\ ~InEmpty(f, i, k) /\ ~InItem(f, i, k)
  BY <1>1, <1>3 DEF InDate, InWork, InTask, InDesc, InEmpty, InItem
<1>5. ~(at < Len(source))
  BY LexerTyped DEF Going
<1>6. Width1 \in Nat /\ Width1 # 0 /\ Width2 \in Nat /\ Width2 # 0
  BY WidthAssumption
<1>7. CASE InDate(f, i, k)
  <2>1. indent1 = 0 /\ indent2 = 0
    <3>1. Level(pstate) = 0
      BY <1>4, <1>7 DEF Level
    <3>. QED
      BY <1>1, <3>1 DEF LevelsAre
  <2>2. Now(at, 0, 0, FALSE, FALSE, "END")
    BY <2>1 DEF Takes
  <2>3. UNCHANGED <<source, parser, meaning>> /\ pending' /\ token' = "END"
    BY <2>2 DEF Now, Going
  <2>4. pstate' = pstate /\ meaning' = meaning
    BY <2>3, ReadKeeps
  <2>5. CASE pstate = "mday"
    <3>1. Doomed'
      BY <2>3, <2>4, <2>5 DEF Doomed
    <3>. QED
      BY <3>1 DEF Live
  <2>6. CASE pstate # "mday"
    <3>1. pstate' \in State \ {"mday", "minute", "body"} /\ pstate' # "days"
      BY <1>4, <1>7, <2>4, <2>6 DEF State
    <3>. QED
      BY <2>3, <3>1, LevelRefused
  <2>. QED
    BY <2>5, <2>6
<1>8. CASE InWork(f, i, k) \/ InTask(f, i, k)
  <2>1. indent1 = Width1 /\ indent2 = 0
    <3>1. Level(pstate) = 1
      BY <1>4, <1>8 DEF Level
    <3>. QED
      BY <1>1, <3>1 DEF LevelsAre
  <2>2. Now(at, 0, 0, FALSE, FALSE, "DEINDENT")
    BY <1>6, <2>1 DEF Takes
  <2>3. UNCHANGED <<source, parser, meaning>> /\ pending'
        /\ token' = "DEINDENT"
    BY <2>2 DEF Now, Going
  <2>4. pstate' = pstate /\ meaning' = meaning
    BY <2>3, ReadKeeps
  <2>5. CASE pstate = "minute"
    <3>1. Doomed'
      BY <2>3, <2>4, <2>5 DEF Doomed
    <3>. QED
      BY <3>1 DEF Live
  <2>6. CASE pstate # "minute"
    <3>1. pstate' \in State \ {"mday", "minute", "body"}
          /\ pstate' \notin {"items", "desc"}
      BY <1>4, <1>8, <2>4, <2>6 DEF State
    <3>. QED
      BY <2>3, <3>1, LevelRefused
  <2>. QED
    BY <2>5, <2>6
<1>9. CASE InDesc(f, i, k)
  <2>1. pstate = "desc" /\ indent1 = Width1 /\ indent2 = Width2
    <3>1. pstate = "desc" /\ Level(pstate) = 2
      BY <1>4, <1>9 DEF Level
    <3>. QED
      BY <1>1, <3>1 DEF LevelsAre
  <2>2. Now(at, Width1, 0, TRUE, FALSE, "DEINDENT")
    BY <1>6, <2>1 DEF Takes
  <2>3. UNCHANGED <<source, parser, meaning>>
    BY <2>2 DEF Now, Going
  <2>4. pstate' = pstate /\ meaning' = meaning /\ source' = source
    BY <2>3, ReadKeeps
  <2>5. Doomed'
    BY <1>6, <2>1, <2>2, <2>4 DEF Doomed, Now
  <2>. QED
    BY <2>5 DEF Live
<1>. QED
  BY <1>4, <1>7, <1>8, <1>9 DEF Reading

LEMMA ReadingRead ==
    ASSUME NEW f, Going(f), Read, NEW i, NEW k, Reading(f, i, k)
    PROVE  Live(f)'
<1>1. Stream(f, i, k) /\ ~pending
  BY DEF Read, Reading
<1>2. /\ InLine(f, i) /\ Recorded(f.mean[i]) /\ LevelsAre(Level(pstate))
      /\ at = f.start[i] + k /\ ~cacheDeindent /\ ~cacheParseindent
  BY <1>1 DEF Stream
<1>3. /\ i \in 1..f.n /\ k \in Nat /\ k <= Width(f, i)
      /\ Width(f, i) \in Nat /\ f.start[i] \in Nat
  BY <1>1, StreamTyped
<1>4. Takes(at)
  BY <1>2, PlainRead DEF Going
<1>5. at <= Len(source) /\ Len(source) \in Nat /\ at \in Nat
  BY LexerTyped DEF Going
<1>6. CASE at < Len(source)
  <2>1. PICK b : b = f.start[i] + k
    OBVIOUS
  <2>2. b < Len(source) /\ b = at
    BY <1>2, <1>6, <2>1
  <2>3. Now(b + 1, indent1, indent2, FALSE, source[b + 1] = "\n",
            CharToken(source[b + 1]))
    BY <1>4, <2>2 DEF Takes
  <2>4. Stream(f, i, k)'
    BY <1>2, <1>3, <2>1, <2>2, <2>3, CharRead
  <2>5. UNCHANGED <<source, parser, meaning>> /\ pending'
    BY <2>3 DEF Now, Going
  <2>6. ~InEmpty(f, i, k)
    BY <1>1 DEF InEmpty
  <2>. QED
    BY <2>4, <2>5, <2>6, InKept, ReadingAt DEF Reading
<1>7. CASE at = Len(source)
  <2>1. i = f.n /\ k = Width(f, i)
    <3>1. PICK n \in Nat : n = f.n
      BY <1>3, Lines
    <3>2. PICK s \in Nat : s = f.start[i]
      BY <1>3
    <3>3. PICK w \in Nat : w = Width(f, i)
      BY <1>3
    <3>4. s + k = Len(source) /\ k <= w
      BY <1>2, <1>3, <1>7, <3>2, <3>3
    <3>5. s + w <= Len(source)
      BY <1>3, <3>2, <3>3, Lines DEF LineIn
    <3>6. i < f.n => s + w + 1 <= Len(source)
      <4>1. i < f.n => /\ f.start[i + 1] = f.start[i] + Len(W(f, i)) + 1
                       /\ f.start[i + 1] <= Len(source)
                       /\ Width(f, i) = Len(W(f, i))
        BY <1>3, Lines DEF LineIn
      <4>. QED
        BY <3>2, <3>3, <4>1
    <3>7. k = w /\ ~(i < f.n)
      BY <1>3, <1>5, <3>4, <3>5, <3>6
    <3>8. i \in 1..n
      BY <1>3, <3>1
    <3>. QED
      BY <3>1, <3>3, <3>7, <3>8
  <2>2. meaning.verdict = "ERR_SYNTAX"
    BY <1>2, <2>1 DEF InLine
  <2>. QED
    BY <1>4, <1>7, <2>1, <2>2, CutRead
<1>. QED
  BY <1>5, <1>6, <1>7

LEMMA EndingRead ==
    ASSUME NEW f, Going(f), Read, Ending(f)
    PROVE  Live(f)'
<1>1. PICK m : m = f.mean[f.n]
  OBVIOUS
<1>2. ~pending /\ Recorded(m) /\ ~cacheParseindent
      /\ meaning.verdict = "OK" /\ m.verdict = "OK"
  BY <1>1 DEF Read, Ending
<1>3. \/ /\ pstate = "items" /\ at = Len(source) /\ ~cacheDeindent
         /\ indent1 # 0 /\ indent2 = 0
      \/ /\ pstate = "days" /\ at = Len(source) /\ ~cacheDeindent
         /\ LevelsAre(0)
      \/ /\ pstate = "items" /\ cacheDeindent
         /\ at \in {Len(source) - 1, Len(source)} /\ LevelsAre(0)
  BY <1>2 DEF Ending
<1>4. at \in Nat /\ Len(source) \in Nat
  BY LexerTyped DEF Going
<1>5. CASE /\ pstate = "items" /\ at = Len(source) /\ ~cacheDeindent
           /\ indent1 # 0 /\ indent2 = 0
  <2>1. Takes(at) /\ ~(at < Len(source))
    BY <1>2, <1>4, <1>5, PlainRead DEF Going
  <2>2. Now(at, 0, 0, FALSE, FALSE, "DEINDENT")
    BY <1>5, <2>1 DEF Takes
  <2>3. UNCHANGED <<source, parser, meaning>>
    BY <2>2 DEF Now, Going
  <2>4. /\ Recorded(m)' /\ meaning' = meaning /\ source' = source
        /\ pstate' = pstate
    BY <1>2, <2>3, ReadKeeps
  <2>5. Ending(f)'
    BY <1>1, <1>2, <1>5, <2>2, <2>4 DEF Ending, Now, LevelsAre
  <2>. QED
    BY <2>5, EndingAt
<1>6. CASE /\ pstate = "days" /\ at = Len(source) /\ ~cacheDeindent
           /\ LevelsAre(0)
  <2>1. Takes(at) /\ ~(at < Len(source))
    BY <1>2, <1>4, <1>6, PlainRead DEF Going
  <2>2. Now(at, 0, 0, FALSE, FALSE, "END")
    <3>1. indent1 = 0 /\ indent2 = 0
      BY <1>6 DEF LevelsAre
    <3>. QED
      BY <1>6, <2>1, <3>1 DEF Takes
  <2>3. UNCHANGED <<source, parser, meaning>>
    BY <2>2 DEF Now, Going
  <2>4. /\ Recorded(m)' /\ meaning' = meaning /\ source' = source
        /\ pstate' = pstate
    BY <1>2, <2>3, ReadKeeps
  <2>5. Ending(f)'
    BY <1>1, <1>2, <1>6, <2>2, <2>4 DEF Ending, Now
  <2>. QED
    BY <2>5, EndingAt
<1>7. CASE /\ pstate = "items" /\ cacheDeindent
           /\ at \in {Len(source) - 1, Len(source)} /\ LevelsAre(0)
  <2>1. Now(IF at < Len(source) THEN at + 1 ELSE at, indent1, indent2,
            FALSE, FALSE, "DEINDENT")
    BY <1>2, <1>7, CachedRead DEF Going
  <2>2. (IF at < Len(source) THEN at + 1 ELSE at) = Len(source)
    BY <1>4, <1>7
  <2>3. UNCHANGED <<source, parser, meaning>>
    BY <2>1 DEF Now, Going
  <2>4. /\ Recorded(m)' /\ meaning' = meaning /\ source' = source
        /\ pstate' = pstate
    BY <1>2, <2>3, ReadKeeps
  <2>5. at' = Len(source') /\ ~cacheDeindent' /\ ~cacheParseindent'
        /\ pending' /\ token' = "DEINDENT" /\ LevelsAre(0)'
    BY <1>7, <2>1, <2>2, <2>4 DEF Now, LevelsAre
  <2>6. Ending(f)'
    BY <1>1, <1>2, <1>7, <2>4, <2>5 DEF Ending
  <2>. QED
    BY <2>6, EndingAt
<1>. QED
  BY <1>3, <1>5, <1>6, <1>7

LEMMA DoomedRead ==
    ASSUME NEW f, Going(f), Read, Doomed
    PROVE  Live(f)'
<1>1. ~pending /\ meaning.verdict = "ERR_SYNTAX"
  BY DEF Read, Doomed
<1>2. at \in Nat /\ Len(source) \in Nat
  BY LexerTyped DEF Going
<1>3. CASE /\ pstate = "items" /\ ~cacheParseindent /\ ~cacheDeindent
           /\ at < Len(source) /\ Class(source[at + 1]) = "text"
           /\ source[at + 1] \notin Digit \union {"#"}
  <2>1. PICK ch : ch = source[at + 1]
    OBVIOUS
  <2>2. Takes(at)
    BY <1>3, PlainRead DEF Going
  <2>3. Now(at + 1, indent1, indent2, FALSE, ch = "\n", CharToken(ch))
    BY <1>3, <2>1, <2>2 DEF Takes
  <2>4. UNCHANGED <<source, parser, meaning>> /\ pending'
        /\ at' = at + 1 /\ token' = CharToken(ch)
    BY <2>3 DEF Now, Going
  <2>5. meaning' = meaning /\ source' = source /\ pstate' = pstate
    BY <2>4, ReadKeeps
  <2>6. KindIs(Kind', ch)
    <3>1. Ch' = ch
      BY <2>1, <2>4, <2>5 DEF Ch
    <3>. QED
      BY <2>4, <3>1, KindNext
  <2>7. ch \notin Digit \union {"#", "\n"}
    BY <1>3, <2>1, Classified
  <2>8. Kind' \notin {"DIGIT", "HASH", "NEWLINE", "DEINDENT"}
    BY <2>6, <2>7 DEF KindIs
  <2>9. ~Expects(pstate', Kind')
    BY <1>3, <2>5, <2>8, Refuses
  <2>. QED
    BY <1>1, <2>4, <2>5, <2>9, DoomedAt
<1>4. CASE /\ pstate = "desc0" /\ ~cacheDeindent /\ indent2 # 0
           /\ at = Len(source) /\ ~cacheParseindent
  <2>1. Takes(at) /\ ~(at < Len(source))
    BY <1>2, <1>4, PlainRead DEF Going
  <2>2. Now(at, indent1, 0, TRUE, FALSE, "DEINDENT")
    BY <1>4, <2>1 DEF Takes
  <2>3. UNCHANGED <<source, parser, meaning>> /\ pending'
        /\ token' = "DEINDENT"
    BY <2>2 DEF Now, Going
  <2>4. meaning' = meaning /\ pstate' = pstate
    BY <2>3, ReadKeeps
  <2>5. pstate' \in State \ {"mday", "minute", "body"}
        /\ pstate' \notin {"items", "desc"}
    BY <1>4, <2>4 DEF State
  <2>. QED
    BY <1>1, <2>3, <2>5, LevelRefused
<1>5. CASE /\ pstate = "items" /\ cacheDeindent /\ indent1 # 0 /\ indent2 = 0
           /\ at = Len(source) /\ ~cacheParseindent
  <2>1. Now(IF at < Len(source) THEN at + 1 ELSE at, indent1, indent2,
            FALSE, FALSE, "DEINDENT")
    BY <1>5, CachedRead DEF Going
  <2>2. (IF at < Len(source) THEN at + 1 ELSE at) = Len(source)
    BY <1>2, <1>5
  <2>3. UNCHANGED <<source, parser, meaning>>
    BY <2>1 DEF Now, Going
  <2>4. meaning' = meaning /\ source' = source /\ pstate' = pstate
    BY <2>3, ReadKeeps
  <2>5. at' = Len(source') /\ ~cacheDeindent' /\ ~cacheParseindent'
        /\ pending' /\ token' = "DEINDENT" /\ indent1' # 0 /\ indent2' = 0
    BY <1>5, <2>1, <2>2, <2>4 DEF Now
  <2>6. Doomed'
    BY <1>1, <1>5, <2>4, <2>5 DEF Doomed
  <2>. QED
    BY <2>6 DEF Live
<1>6. CASE /\ pstate = "days" /\ ~cacheDeindent /\ indent1 # 0 /\ indent2 = 0
           /\ at = Len(source) /\ ~cacheParseindent
  <2>1. Takes(at) /\ ~(at < Len(source))
    BY <1>2, <1>6, PlainRead DEF Going
  <2>2. Now(at, 0, 0, FALSE, FALSE, "DEINDENT")
    BY <1>6, <2>1 DEF Takes
  <2>3. UNCHANGED <<source, parser, meaning>> /\ pending'
        /\ token' = "DEINDENT"
    BY <2>2 DEF Now, Going
  <2>4. meaning' = meaning /\ pstate' = pstate
    BY <2>3, ReadKeeps
  <2>5. pstate' \in State \ {"mday", "minute", "body"}
        /\ pstate' \notin {"items", "desc"}
    BY <1>6, <2>4 DEF State
  <2>. QED
    BY <1>1, <2>3, <2>5, LevelRefused
<1>. QED
  BY <1>1, <1>3, <1>4, <1>5, <1>6 DEF Doomed

LEMMA LiveRead ==
    ASSUME NEW f, Going(f), Read, Live(f)
    PROVE  Live(f)'
BY StartLive, LeadingRead, ReadingRead, EndingRead, DoomedRead
   DEF Live, Sound

----------------------------------------------------------------------------
(* Every document is read as it is meant.                                   *)

\* The entries there are, the last description aside.
SoFar == LET promised == meaning.entries
         IN  /\ Len(entries) <= Len(promised)
             /\ \A i \in 1..Len(entries) :
                   /\ Keeps(entries[i], promised[i])
                   /\ i < Len(entries) => entries[i].desc = promised[i].desc

\* There is a file the parser is somewhere in.
Reads(f) == /\ IsFile(f, source, meaning)
            /\ ret = "none" => Sound(f) \/ (Doomed /\ SoFar)

DocumentInv == /\ Holding
               /\ \E f : Reads(f)
               /\ ret # "none" => Faithful /\ Verdict

LEMMA KeepsAs ==
    ASSUME NEW e, NEW p, NEW q, Keeps(e, p), p.type = q.type,
           p.begin = q.begin, p.id = q.id, p.name = q.name,
           p.settled = q.settled, p.cat = q.cat
    PROVE  Keeps(e, q)
BY DEF Keeps

LEMMA MatchesSoFar ==
    ASSUME NEW m, NEW b, Matches(entries, m.entries, b),
           Foresees(m.entries, meaning.entries)
    PROVE  SoFar
<1>1. PICK ps, qs : ps = m.entries /\ qs = meaning.entries
  OBVIOUS
<1>2. Matches(entries, ps, b) /\ Foresees(ps, qs)
  BY <1>1
<1>3. Len(entries) = Len(ps) /\ Len(ps) <= Len(qs)
  BY <1>2 DEF Matches, Foresees
<1>4. ASSUME NEW j \in 1..Len(entries)
      PROVE  /\ Keeps(entries[j], qs[j])
             /\ j < Len(entries) => entries[j].desc = qs[j].desc
  <2>1. /\ Keeps(entries[j], ps[j])
        /\ j < Len(entries) => entries[j].desc = ps[j].desc
    BY <1>2 DEF Matches
  <2>2. /\ ps[j].type = qs[j].type /\ ps[j].begin = qs[j].begin
        /\ ps[j].id = qs[j].id /\ ps[j].name = qs[j].name
        /\ ps[j].settled = qs[j].settled /\ ps[j].cat = qs[j].cat
        /\ j < Len(ps) => ps[j].desc = qs[j].desc
    BY <1>2, <1>3 DEF Foresees
  <2>3. Keeps(entries[j], qs[j])
    BY <2>1, <2>2, KeepsAs
  <2>. QED
    BY <1>3, <2>1, <2>2, <2>3
<1>. QED
  BY <1>1, <1>3, <1>4 DEF SoFar

LEMMA SoundSoFar ==
    ASSUME NEW f, IsFile(f, source, meaning), Sound(f)
    PROVE  SoFar
<1>1. PICK i \in 1..f.n : Recorded(f.mean[i])
  <2>1. f.n \in 1..f.n
    BY DEF IsFile
  <2>2. ASSUME NEW i \in 1..f.n, AtStart(f, i) \/ Leading(f, i)
        PROVE  Recorded(f.mean[i])
    BY <2>2 DEF AtStart, Leading
  <2>3. ASSUME NEW i \in 1..f.n, NEW k, Reading(f, i, k)
        PROVE  Recorded(f.mean[i])
    BY <2>3 DEF Reading, Stream
  <2>4. Ending(f) => Recorded(f.mean[f.n])
    BY DEF Ending
  <2>. QED
    BY <2>1, <2>2, <2>3, <2>4 DEF Sound
<1>2. Foresees(f.mean[i].entries, meaning.entries)
  BY DEF IsFile, LineIn
<1>. QED
  BY <1>1, <1>2, MatchesSoFar DEF Recorded

LEMMA SoFarKept ==
    ASSUME SoFar, UNCHANGED <<entries, meaning>>
    PROVE  SoFar'
BY DEF SoFar

LEMMA SoFarFaithful ==
    ASSUME SoFar
    PROVE  ret # "OK" => Faithful
BY DEF SoFar, Faithful

LEMMA SoFarRefused ==
    ASSUME SoFar, UNCHANGED <<entries, meaning>>, ret' # "OK"
    PROVE  Faithful'
BY DEF SoFar, Faithful

\* The verdicts there are.
LEMMA VerdictsAre ==
    ASSUME NEW f, IsFile(f, source, meaning)
    PROVE  meaning.verdict \in {"OK", "ERR_SYNTAX", "ERR_INPUT"}
<1>1. f.n \in 1..f.n
  BY DEF IsFile
<1>2. MeaningOK(f.mean[f.n])
  BY <1>1 DEF IsFile, LineIn
<1>3. f.mean[f.n].verdict \in {"OK", "ERR_SYNTAX", "ERR_INPUT"}
  BY <1>2 DEF MeaningOK, Meanings
<1>. QED
  BY <1>3 DEF IsFile

LEMMA InvShows == DocumentInv => Faithful /\ Verdict
<1>1. ASSUME DocumentInv, ret = "none"
      PROVE  Faithful /\ Verdict
  <2>1. PICK f : Reads(f)
    BY <1>1 DEF DocumentInv
  <2>2. SoFar
    BY <1>1, <2>1, SoundSoFar DEF Reads
  <2>. QED
    BY <1>1, <2>2, SoFarFaithful DEF Verdict
<1>. QED
  BY <1>1 DEF DocumentInv

\* The parser begins at the first line.
LEMMA InitDocument == DocumentInit => DocumentInv
<1>. SUFFICES ASSUME DocumentInit
              PROVE  DocumentInv
  OBVIOUS
<1>1. Init
  BY DEF DocumentInit
<1>2. Holding
  <2>1. IInv /\ CacheInv
    BY <1>1, InitInv, InitCache
  <2>2. Sourced
    BY <1>1 DEF Init, Sourced, Classes
  <2>. QED
    BY <2>1, <2>2 DEF Holding
<1>3. PICK f : IsFile(f, source, meaning)
  BY FileFound
<1>4. /\ f.start[1] = 0 /\ f.mean[1] = Nothing /\ 1 \in 1..f.n
  BY <1>3 DEF IsFile
<1>5. /\ Nothing.verdict = "OK" /\ Nothing.place = "top" /\ Nothing.time = 0
      /\ Nothing.entries = <<>>
  BY DEF Nothing
<1>6. /\ ~pending /\ ~cacheDeindent /\ ~cacheParseindent /\ at = 0
      /\ indent1 = 0 /\ indent2 = 0 /\ pstate = "days" /\ entries = <<>>
      /\ tm = [day |-> 0, hour |-> 0, min |-> 0] /\ ret = "none"
  BY <1>1 DEF Init, Lex!Init
<1>7. Clock(Nothing)
  BY <1>5, <1>6 DEF Clock, Minutes
<1>8. Recorded(Nothing)
  BY <1>5, <1>6 DEF Recorded, Matches
<1>9. pstate = StateAt["top"] /\ LevelsAre(Level(pstate))
  <2>1. StateAt["top"] = "days"
    BY DEF StateAt
  <2>2. Level(pstate) = 0
    BY <1>6 DEF Level
  <2>. QED
    BY <1>6, <2>1, <2>2 DEF LevelsAre
<1>10. AtStart(f, 1)
  BY <1>4, <1>5, <1>6, <1>7, <1>8, <1>9 DEF AtStart
<1>11. Sound(f)
  BY <1>4, <1>10 DEF Sound
<1>. QED
  BY <1>2, <1>3, <1>6, <1>11 DEF DocumentInv, Reads

----------------------------------------------------------------------------
(* The steps.                                                               *)

LEMMA HoldingNext ==
    ASSUME Holding, [Next]_vars
    PROVE  Holding'
<1>1. IInv' /\ CacheInv'
  BY NextInv, NextCache DEF Holding
<1>2. UNCHANGED <<source, file>>
  BY DEF Next, vars, lexer, Read, Lex!yylex, Lex!ReturnCached, Lex!BlankLine,
     Lex!IndentLine, Lex!Indent1, Lex!Deindent1, Lex!Indent2,
     Lex!DeindentBoth, Lex!Deindent2, Lex!IndentError, Lex!ChangeIndent,
     Lex!CharToToken, Lex!NewLine, Lex!Other, Lex!EOFLevel2, Lex!EOFLevel1,
     Lex!EOFLevel0, Lex!AtEOF, OutOfMemory, Consume, Shift, FirstDigit,
     NextDigit, Date, Time, EndOfNumber, ItemWithoutText, FirstChar, NextChar,
     Item, Ref, EndOfText, RefError, NoBody, Body, Accept, SyntaxError
<1>3. Sourced'
  BY <1>2 DEF Holding, Sourced
<1>. QED
  BY <1>1, <1>3 DEF Holding

\* Nothing happens behind the verdict, and every step but a read takes the
\* token or leaves it.
LEMMA NextRuns ==
    ASSUME Next
    PROVE  /\ ret = "none"
           /\ ~pending => Read
           /\ OutOfMemory => ret' = "ERR_MEM" /\ UNCHANGED entries
           /\ UNCHANGED source
BY DEF Next, Read, OutOfMemory, Consume, Sees, Shift, FirstDigit, NextDigit,
   Date, Time, EndOfNumber, ItemWithoutText, FirstChar, NextChar, Item, Ref,
   EndOfText, RefError, NoBody, Body, Accept, SyntaxError

LEMMA StreamStays ==
    ASSUME UNCHANGED <<vars, meaning>>, NEW f, NEW i
    PROVE  /\ AtStart(f, i) => AtStart(f, i)'
           /\ Leading(f, i) => Leading(f, i)'
           /\ \A k : Reading(f, i, k) => Reading(f, i, k)'
<1>1. UNCHANGED <<source, file, at, indent1, indent2, cacheDeindent,
                  cacheParseindent, token, pending, pstate, numbers, text,
                  textpos, tm, entries, ret, meaning>>
  BY DEF vars, lexer, parser, cache
<1>2. \A m : /\ Clock(m) => Clock(m)'
             /\ Recorded(m) => Recorded(m)'
             /\ CacheIs(Above(m)) => CacheIs(Above(m))'
  BY <1>1 DEF Clock, Recorded, Matches, CacheIs, Minutes
<1>3. \A l : LevelsAre(l) => LevelsAre(l)'
  BY <1>1 DEF LevelsAre
<1>4. LevelsAre(Level(pstate)) => LevelsAre(Level(pstate))'
  BY <1>1 DEF LevelsAre, Level
<1>5. InLine(f, i) => InLine(f, i)'
  BY <1>1 DEF InLine
<1>6. AtStart(f, i) => AtStart(f, i)'
  BY <1>1, <1>2, <1>4 DEF AtStart
<1>7. Leading(f, i) => Leading(f, i)'
  BY <1>1, <1>2, <1>3, <1>5 DEF Leading, Behind
<1>8. \A b, w, p, k : Cached(b, w, p, k) => Cached(b, w, p, k)'
  BY <1>1 DEF Cached
<1>9. ASSUME NEW k, Reading(f, i, k)
      PROVE  Reading(f, i, k)'
  <2>1. Stream(f, i, k)'
    BY <1>1, <1>2, <1>4, <1>5, <1>9 DEF Reading, Stream
  <2>2. InDate(f, i, k) => InDate(f, i, k)'
    BY <1>1 DEF InDate
  <2>3. InWork(f, i, k) => InWork(f, i, k)'
    BY <1>1, <1>2, <1>8 DEF InWork
  <2>4. InTask(f, i, k) => InTask(f, i, k)'
    BY <1>1, <1>2, <1>8 DEF InTask
  <2>5. InDesc(f, i, k) => InDesc(f, i, k)'
    BY <1>1, <1>2, <1>8 DEF InDesc
  <2>6. InEmpty(f, i, k) => InEmpty(f, i, k)'
    BY <1>1, <1>2 DEF InEmpty
  <2>7. InItem(f, i, k) => InItem(f, i, k)'
    BY <1>1, <1>2 DEF InItem
  <2>. QED
    BY <1>9, <2>1, <2>2, <2>3, <2>4, <2>5, <2>6, <2>7 DEF Reading
<1>. QED
  BY <1>6, <1>7, <1>9

LEMMA StutterDocument ==
    ASSUME DocumentInv, UNCHANGED <<vars, meaning>>
    PROVE  DocumentInv'
<1>1. UNCHANGED <<source, file, at, indent1, indent2, cacheDeindent,
                  cacheParseindent, token, pending, pstate, numbers, text,
                  textpos, tm, entries, ret, meaning>>
  BY DEF vars, lexer, parser, cache
<1>2. Holding'
  BY HoldingNext DEF DocumentInv
<1>3. PICK f : Reads(f)
  BY DEF DocumentInv
<1>4. Reads(f)'
  <2>1. IsFile(f, source, meaning)'
    BY <1>1, <1>3 DEF Reads
  <2>2. Ending(f) => Ending(f)'
    <3>1. /\ Recorded(f.mean[f.n]) => Recorded(f.mean[f.n])'
          /\ CacheIs(Above(f.mean[f.n])) => CacheIs(Above(f.mean[f.n]))'
          /\ LevelsAre(0) => LevelsAre(0)'
          /\ LevelsAre(1) => LevelsAre(1)'
      BY <1>1 DEF Recorded, Matches, CacheIs, LevelsAre
    <3>. QED
      BY <1>1, <3>1 DEF Ending
  <2>3. Sound(f) => Sound(f)'
    <3>1. ASSUME NEW i \in 1..f.n, AtStart(f, i) \/ Leading(f, i)
          PROVE  Sound(f)'
      <4>1. AtStart(f, i)' \/ Leading(f, i)'
        BY <3>1, StreamStays
      <4>. QED
        BY <4>1 DEF Sound
    <3>2. ASSUME NEW i \in 1..f.n, NEW k \in 0..Width(f, i), Reading(f, i, k)
          PROVE  Sound(f)'
      <4>1. Reading(f, i, k)'
        BY <3>2, StreamStays
      <4>. QED
        BY <4>1, InReading
    <3>. QED
      BY <2>2, <3>1, <3>2 DEF Sound
  <2>4. Doomed => Doomed'
    <3>1. Expected' => Expected
      BY <1>1 DEF Expected, Kind, Ch
    <3>. QED
      BY <1>1, <3>1 DEF Doomed
  <2>5. SoFar => SoFar'
    BY <1>1, SoFarKept
  <2>. QED
    BY <1>1, <1>3, <2>1, <2>3, <2>4, <2>5 DEF Reads
<1>5. ret # "none" => Faithful /\ Verdict
  BY DEF DocumentInv
<1>6. ret' # "none" => Faithful' /\ Verdict'
  BY <1>1, <1>5 DEF Faithful, Verdict
<1>. QED
  BY <1>2, <1>4, <1>6 DEF DocumentInv

\* What a step of the parser comes to is what the invariant asks for.
LEMMA OutcomeFaithful ==
    ASSUME NEW f, IsFile(f, source, meaning), UNCHANGED <<source, meaning>>,
           SoFar, ret = "none", Outcome(f) \/ Accepts(f) \/ Redescribes
    PROVE  Reads(f)' /\ (ret' # "none" => Faithful' /\ Verdict')
<1>1. IsFile(f, source, meaning)'
  OBVIOUS
<1>2. meaning.verdict \in {"OK", "ERR_SYNTAX", "ERR_INPUT"}
  BY VerdictsAre
<1>3. CASE ret' = "none" /\ Sound(f)'
  BY <1>1, <1>3 DEF Reads
<1>4. CASE UNCHANGED <<entries, ret>> /\ Doomed'
  BY <1>1, <1>4, SoFarKept DEF Reads
<1>5. CASE UNCHANGED entries /\ ret' = meaning.verdict /\ ret' # "OK"
  <2>1. Faithful'
    BY <1>5, SoFarRefused
  <2>2. Verdict' /\ ret' # "none"
    BY <1>2, <1>5 DEF Verdict
  <2>. QED
    BY <1>1, <2>1, <2>2 DEF Reads
<1>6. CASE Accepts(f)
  <2>1. /\ ret' = "OK" /\ meaning.verdict = "OK" /\ entries' = entries
        /\ Matches(entries, meaning.entries, TRUE)
    <3>1. meaning.entries = f.mean[f.n].entries
      BY DEF IsFile
    <3>2. Matches(entries, f.mean[f.n].entries, pstate # "desc")
      BY <1>6 DEF Accepts, Recorded
    <3>3. (pstate # "desc") = TRUE
      BY <1>6 DEF Accepts
    <3>. QED
      BY <1>6, <3>1, <3>2, <3>3 DEF Accepts
  <2>2. PICK es, ps : es = entries /\ ps = meaning.entries
    OBVIOUS
  <2>3. /\ Len(es) = Len(ps)
        /\ \A j \in 1..Len(es) : Keeps(es[j], ps[j]) /\ es[j].desc = ps[j].desc
    BY <2>1, <2>2 DEF Matches
  <2>4. Len(es) <= Len(ps)
    <3>1. SoFar
      OBVIOUS
    <3>. QED
      BY <2>2, <3>1 DEF SoFar
  <2>5. Faithful'
    BY <2>1, <2>2, <2>3, <2>4 DEF Faithful
  <2>6. Verdict' /\ ret' # "none"
    BY <2>1 DEF Verdict
  <2>. QED
    BY <1>1, <2>5, <2>6 DEF Reads
<1>7. CASE Redescribes
  <2>1. PICK d : Described(entries, entries', d)
    BY <1>7 DEF Redescribes
  <2>2. PICK es, fs, ps : es = entries /\ fs = entries' /\ ps = meaning.entries
    OBVIOUS
  <2>3. /\ es \in Seq(MadeEntry) /\ Len(es) \in Nat /\ Len(fs) = Len(es)
        /\ \A j \in 1..Len(es) :
              fs[j] = IF j = Len(es) THEN [es[j] EXCEPT !.desc = d] ELSE es[j]
    BY <1>7, <2>1, <2>2, LenProperties DEF Redescribes, Described
  <2>4. /\ Len(es) <= Len(ps)
        /\ \A j \in 1..Len(es) :
              /\ Keeps(es[j], ps[j])
              /\ j < Len(es) => es[j].desc = ps[j].desc
    BY <2>2 DEF SoFar
  <2>5. ASSUME NEW j \in 1..Len(es)
        PROVE  /\ Keeps(fs[j], ps[j])
               /\ j < Len(es) => fs[j].desc = ps[j].desc
    <3>1. CASE j = Len(es)
      <4>1. es[j] \in MadeEntry
        BY <2>3, ElementOfSeq
      <4>2. PICK e : e = es[j]
        OBVIOUS
      <4>3. fs[j] = [e EXCEPT !.desc = d]
        BY <2>3, <3>1, <4>2
      <4>4. /\ fs[j].type = e.type /\ fs[j].begin = e.begin
            /\ fs[j].id = e.id /\ fs[j].name = e.name /\ fs[j].cat = e.cat
        BY <4>1, <4>2, <4>3 DEF MadeEntry
      <4>5. Keeps(e, ps[j])
        BY <2>4, <4>2
      <4>6. Keeps(fs[j], ps[j])
        BY <4>4, <4>5 DEF Keeps
      <4>7. ~(j < Len(es))
        BY <2>3, <3>1
      <4>. QED
        BY <4>6, <4>7
    <3>2. CASE j # Len(es)
      BY <2>3, <2>4, <3>2
    <3>. QED
      BY <3>1, <3>2
  <2>6. SoFar'
    BY <2>2, <2>3, <2>4, <2>5 DEF SoFar
  <2>. QED
    BY <1>1, <1>7, <2>6 DEF Reads, Redescribes
<1>. QED
  BY <1>3, <1>4, <1>5, <1>6, <1>7 DEF Outcome

LEMMA NextDocument ==
    ASSUME DocumentInv, DocumentNext
    PROVE  DocumentInv'
<1>1. Next /\ UNCHANGED meaning /\ UNCHANGED source /\ ret = "none"
  BY NextRuns DEF DocumentNext
<1>2. Holding /\ Holding'
  BY <1>1, HoldingNext DEF DocumentInv
<1>3. PICK f : Reads(f)
  BY DEF DocumentInv
<1>4. IsFile(f, source, meaning) /\ Going(f)
  BY <1>1, <1>2, <1>3 DEF Reads, Going
<1>5. SoFar /\ Live(f)
  BY <1>1, <1>3, SoundSoFar DEF Reads, Live
<1>6. IsFile(f, source, meaning)'
  BY <1>1, <1>4
<1>7. CASE OutOfMemory
  <2>1. ret' = "ERR_MEM" /\ UNCHANGED entries
    BY <1>1, <1>7, NextRuns
  <2>2. Faithful'
    BY <1>1, <1>5, <2>1, SoFarRefused
  <2>3. Verdict' /\ Reads(f)'
    BY <1>6, <2>1 DEF Verdict, Reads
  <2>. QED
    BY <1>2, <2>2, <2>3 DEF DocumentInv
<1>8. CASE ~OutOfMemory /\ pending
  <2>1. Turn
    BY <1>1, <1>8 DEF Turn
  <2>2. Outcome(f) \/ Accepts(f) \/ Redescribes
    BY <1>4, <1>5, <2>1, LiveTurn
  <2>3. Reads(f)' /\ (ret' # "none" => Faithful' /\ Verdict')
    BY <1>1, <1>4, <1>5, <2>2, OutcomeFaithful
  <2>. QED
    BY <1>2, <2>3 DEF DocumentInv
<1>9. CASE ~pending
  <2>1. Read
    BY <1>1, <1>9, NextRuns
  <2>2. Live(f)'
    BY <1>4, <1>5, <2>1, LiveRead
  <2>3. UNCHANGED <<entries, ret>>
    BY <2>1 DEF Read, parser
  <2>4. SoFar'
    BY <1>1, <1>5, <2>3, SoFarKept
  <2>5. Reads(f)' /\ ret' = "none"
    BY <1>1, <1>6, <2>2, <2>3, <2>4 DEF Reads, Live
  <2>. QED
    BY <1>2, <2>5 DEF DocumentInv
<1>. QED
  BY <1>7, <1>8, <1>9

LEMMA DocumentInductive == DocumentSpec => []DocumentInv
<1>1. DocumentInv /\ [DocumentNext]_<<vars, meaning>> => DocumentInv'
  BY NextDocument, StutterDocument
<1>. QED
  BY <1>1, InitDocument, PTL DEF DocumentSpec

\* Every file that is written line by line is read as it is meant.
THEOREM FaithfulCorrect == DocumentSpec => []Faithful
<1>1. DocumentInv => Faithful
  BY InvShows
<1>. QED
  BY <1>1, DocumentInductive, PTL

\* It is accepted when its lines stand where they may, and else refused.
THEOREM VerdictCorrect == DocumentSpec => []Verdict
<1>1. DocumentInv => Verdict
  BY InvShows
<1>. QED
  BY <1>1, DocumentInductive, PTL
=============================================================================
