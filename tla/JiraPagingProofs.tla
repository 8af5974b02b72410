--------------------------- MODULE JiraPagingProofs ---------------------------
(***************************************************************************)
(* What the page loops of module JiraPaging give, proved for lists of any  *)
(* length, pages of any size and any number of edits.                      *)
(*                                                                         *)
(* The inductive invariant says of a call in progress what it has read: on *)
(* a list nobody changed, exactly the entries before the next page; on one *)
(* others change, all of these but at most one for each change.            *)
(***************************************************************************)
EXTENDS JiraPaging, SequenceTheorems, FiniteSetTheorems, TLAPS

-----------------------------------------------------------------------------
(* The pages *)

(* A page holds the entries after start, and is only empty at the end. *)
PageIs(p, start) ==
    /\ p \in Seq(Items)
    /\ start + Len(p) <= Len(list) \/ Len(p) = 0
    /\ \A i \in 1..Len(p) : p[i] = list[start + i]
    /\ p = <<>> <=> start >= Len(list)

LEMMA PageShape ==
    ASSUME list \in Seq(Items), NEW start \in Nat, NEW size \in Nat \ {0}
    PROVE  /\ PageIs(Page(start, size), start)
           /\ Len(Page(start, size)) =
                  IF start >= Len(list) THEN 0
                  ELSE Least(size, Len(list) - start)
<1> DEFINE last == Least(start + size, Len(list))
           p    == Page(start, size)
<1>1. last \in Nat /\ last <= Len(list) /\ Len(list) \in Nat
    BY LenProperties DEF Least
<1>2. \A i \in start + 1..last : list[i] \in Items
    BY <1>1, ElementOfSeq
<1>3. /\ p \in Seq(Items)
      /\ Len(p) = IF start + 1 <= last THEN last - (start + 1) + 1 ELSE 0
      /\ \A i \in 1..last - (start + 1) + 1 : p[i] = list[start + 1 + i - 1]
    <2> HIDE DEF last
    <2> QED BY <1>1, <1>2, SubSeqProperties DEF Page, last
<1> QED
    <2>1. Len(p) = IF start >= Len(list) THEN 0
                   ELSE Least(size, Len(list) - start)
        BY <1>1, <1>3 DEF Least
    <2>2. start + Len(p) <= Len(list) \/ Len(p) = 0
        BY <2>1, <1>1 DEF Least
    <2>3. \A i \in 1..Len(p) : p[i] = list[start + i]
        BY <1>1, <1>3
    <2>4. p = <<>> <=> start >= Len(list)
        BY <2>1, <1>1, <1>3, EmptySeq DEF Least
    <2> HIDE DEF p
    <2> QED BY <2>1, <2>2, <2>3, <2>4, <1>3 DEF PageIs, p

(* A server that does not obey still puts something on the page. *)
LEMMA ServedShape ==
    ASSUME list \in Seq(Items), server \in Paging,
           NEW start \in Nat, NEW asked \in Nat \ {0}
    PROVE  PageIs(Served(start, asked), start)
<1>1. server.size \in Nat \ {0}
    BY PagingAssumption DEF Paging
<1>2. Least(asked, server.size) \in Nat \ {0}
    BY <1>1 DEF Least
<1> QED BY <1>1, <1>2, PageShape DEF Served

LEMMA MetadataShape ==
    ASSUME list \in Seq(Items), server \in Paging, NEW start \in Nat
    PROVE  PageIs(Page(start, server.size), start)
<1>1. server.size \in Nat \ {0}
    BY PagingAssumption DEF Paging
<1> QED BY <1>1, PageShape

(* What was read and the next page are again the first entries. *)
LEMMA NextPageJoins ==
    ASSUME list \in Seq(Items), NEW start \in 0..Len(list),
           NEW p, PageIs(p, start)
    PROVE  /\ start + Len(p) \in 0..Len(list)
           /\ SubSeq(list, 1, start) \o p = SubSeq(list, 1, start + Len(p))
<1> DEFINE n == start + Len(p)
           s == SubSeq(list, 1, start)
           t == SubSeq(list, 1, n)
<1>1. p \in Seq(Items) /\ Len(p) \in Nat /\ Len(list) \in Nat
    BY LenProperties DEF PageIs
<1>2. n \in 0..Len(list)
    BY <1>1 DEF PageIs
<1>3. /\ s \in Seq(Items) /\ Len(s) = start
      /\ \A i \in 1..start : s[i] = list[i]
    <2>1. \A i \in 1..start : list[i] \in Items
        BY <1>1, ElementOfSeq
    <2> QED BY <2>1, <1>1, SubSeqProperties
<1>4. /\ t \in Seq(Items) /\ Len(t) = n
      /\ \A i \in 1..n : t[i] = list[i]
    <2> HIDE DEF n
    <2>1. \A i \in 1..n : list[i] \in Items
        BY <1>1, <1>2, ElementOfSeq
    <2> QED BY <2>1, <1>1, <1>2, SubSeqProperties
<1>5. /\ s \o p \in Seq(Items) /\ Len(s \o p) = Len(s) + Len(p)
      /\ \A i \in 1..Len(s) + Len(p) :
             (s \o p)[i] = IF i <= Len(s) THEN s[i] ELSE p[i - Len(s)]
    <2> HIDE DEF s
    <2> QED BY <1>1, <1>3, ConcatProperties
<1>6. \A i \in 1..n : (s \o p)[i] = t[i]
    <2> SUFFICES ASSUME NEW i \in 1..n
                 PROVE  (s \o p)[i] = t[i]
        OBVIOUS
    <2> HIDE DEF s, t
    <2>1. CASE i <= start
        BY <2>1, <1>1, <1>3, <1>4, <1>5
    <2>2. CASE i > start
        <3>1. i - start \in 1..Len(p) /\ start + (i - start) = i
            BY <2>2, <1>1
        <3>2. /\ i <= n /\ ~(i <= start)
              /\ (s \o p)[i] = p[i - start]
            BY <2>2, <1>1, <1>3, <1>5
        <3>3. p[i - start] = list[i]
            BY <3>1 DEF PageIs
        <3> QED BY <3>2, <3>3, <1>4
    <2>3. i <= start \/ i > start
        BY <1>1
    <2> QED BY <2>1, <2>2, <2>3
<1> HIDE DEF s, t
<1>7. s \o p = t
    BY <1>3, <1>4, <1>5, <1>6, SeqEqual
<1> QED BY <1>2, <1>7 DEF s, t

(* The lists an edit can make of a list. *)
LEMMA RemoveShape ==
    ASSUME NEW s \in Seq(Items), NEW i \in 1..Len(s)
    PROVE  /\ RemoveAt(s, i) \in Seq(Items)
           /\ Len(RemoveAt(s, i)) = Len(s) - 1
           /\ \A j \in 1..Len(s) - 1 :
                  RemoveAt(s, i)[j] = IF j < i THEN s[j] ELSE s[j + 1]
<1> DEFINE a == SubSeq(s, 1, i - 1)
           b == SubSeq(s, i + 1, Len(s))
<1>1. Len(s) \in Nat /\ \A j \in 1..Len(s) : s[j] \in Items
    BY LenProperties, ElementOfSeq
<1>2. /\ a \in Seq(Items) /\ Len(a) = i - 1
      /\ \A j \in 1..i - 1 : a[j] = s[j]
    BY <1>1, SubSeqProperties
<1>3. /\ b \in Seq(Items) /\ Len(b) = Len(s) - i
      /\ \A j \in 1..Len(s) - i : b[j] = s[i + j]
    BY <1>1, SubSeqProperties
<1> HIDE DEF a, b
<1>4. /\ a \o b \in Seq(Items) /\ Len(a \o b) = Len(a) + Len(b)
      /\ \A j \in 1..Len(a) + Len(b) :
             (a \o b)[j] = IF j <= Len(a) THEN a[j] ELSE b[j - Len(a)]
    BY <1>2, <1>3, ConcatProperties
<1>5. ASSUME NEW j \in 1..Len(s) - 1
      PROVE  (a \o b)[j] = IF j < i THEN s[j] ELSE s[j + 1]
    <2>1. CASE j < i
        BY <2>1, <1>1, <1>2, <1>3, <1>4
    <2>2. CASE j >= i
        <3>1. j - (i - 1) \in 1..Len(s) - i /\ i + (j - (i - 1)) = j + 1
            BY <2>2, <1>1
        <3>2. /\ ~(j < i) /\ ~(j <= Len(a)) /\ j \in 1..Len(a) + Len(b)
              /\ j - Len(a) = j - (i - 1)
            BY <2>2, <1>1, <1>2, <1>3
        <3>3. (a \o b)[j] = b[j - (i - 1)]
            BY <3>2, <1>4
        <3>4. b[j - (i - 1)] = s[j + 1]
            BY <3>1, <1>3
        <3> QED BY <3>2, <3>3, <3>4
    <2>3. j < i \/ j >= i
        BY <1>1
    <2> QED BY <2>1, <2>2, <2>3
<1>6. RemoveAt(s, i) = a \o b
    BY DEF RemoveAt, a, b
<1>7. Len(a \o b) = Len(s) - 1
    BY <1>1, <1>2, <1>3, <1>4
<1> QED BY <1>4, <1>5, <1>6, <1>7

LEMMA InsertShape ==
    ASSUME NEW s \in Seq(Items), NEW i \in 1..Len(s) + 1, NEW x \in Items
    PROVE  /\ InsertAt(s, i, x) \in Seq(Items)
           /\ Len(InsertAt(s, i, x)) = Len(s) + 1
           /\ \A j \in 1..Len(s) + 1 :
                  InsertAt(s, i, x)[j] =
                      IF j < i THEN s[j] ELSE IF j = i THEN x ELSE s[j - 1]
<1> DEFINE a == SubSeq(s, 1, i - 1)
           b == SubSeq(s, i, Len(s))
           c == a \o <<x>>
<1>1. Len(s) \in Nat /\ \A j \in 1..Len(s) : s[j] \in Items
    BY LenProperties, ElementOfSeq
<1>2. /\ a \in Seq(Items) /\ Len(a) = i - 1
      /\ \A j \in 1..i - 1 : a[j] = s[j]
    BY <1>1, SubSeqProperties
<1>3. /\ b \in Seq(Items) /\ Len(b) = Len(s) - i + 1
      /\ \A j \in 1..Len(s) - i + 1 : b[j] = s[i + j - 1]
    BY <1>1, SubSeqProperties
<1>4. <<x>> \in Seq(Items) /\ Len(<<x>>) = 1 /\ <<x>>[1] = x
    OBVIOUS
<1> HIDE DEF a, b, c
<1>5. /\ c \in Seq(Items) /\ Len(c) = i
      /\ \A j \in 1..i : c[j] = IF j < i THEN s[j] ELSE x
    <2>1. /\ a \o <<x>> \in Seq(Items)
          /\ Len(a \o <<x>>) = Len(a) + Len(<<x>>)
          /\ \A j \in 1..Len(a) + Len(<<x>>) :
                 (a \o <<x>>)[j] =
                     IF j <= Len(a) THEN a[j] ELSE <<x>>[j - Len(a)]
        BY <1>2, <1>4, ConcatProperties
    <2>2. \A j \in 1..i : c[j] = IF j < i THEN a[j] ELSE <<x>>[j - (i - 1)]
        BY <2>1, <1>2, <1>4 DEF c
    <2> QED BY <2>1, <2>2, <1>2, <1>4 DEF c
<1>6. /\ c \o b \in Seq(Items) /\ Len(c \o b) = Len(c) + Len(b)
      /\ \A j \in 1..Len(c) + Len(b) :
             (c \o b)[j] = IF j <= Len(c) THEN c[j] ELSE b[j - Len(c)]
    BY <1>3, <1>5, ConcatProperties
<1>7. ASSUME NEW j \in 1..Len(s) + 1
      PROVE  (c \o b)[j] =
                 IF j < i THEN s[j] ELSE IF j = i THEN x ELSE s[j - 1]
    <2>1. CASE j <= i
        BY <2>1, <1>1, <1>3, <1>5, <1>6
    <2>2. CASE j > i
        <3>1. j - i \in 1..Len(s) - i + 1 /\ i + (j - i) - 1 = j - 1
            BY <2>2, <1>1
        <3>2. /\ ~(j < i) /\ j # i /\ ~(j <= Len(c))
              /\ j \in 1..Len(c) + Len(b) /\ j - Len(c) = j - i
            BY <2>2, <1>1, <1>3, <1>5
        <3>3. (c \o b)[j] = b[j - i]
            BY <3>2, <1>6
        <3>4. b[j - i] = s[j - 1]
            BY <3>1, <1>3
        <3> QED BY <3>2, <3>3, <3>4
    <2>3. j <= i \/ j > i
        BY <1>1
    <2> QED BY <2>1, <2>2, <2>3
<1>8. InsertAt(s, i, x) = c \o b
    BY DEF InsertAt, a, b, c
<1>9. Len(c \o b) = Len(s) + 1
    BY <1>1, <1>3, <1>5, <1>6
<1> QED BY <1>6, <1>7, <1>8, <1>9

-----------------------------------------------------------------------------
(* Types *)

Ranking == [at : {"rank"}, asked : Items, start : Nat,
            previous : Items \union {None}, found : Rank \union {None}]

Hinting == [at : {"search", "comments", "issues", "sprints"}, asked : Nat,
            start : Nat, read : Seq(Items)]

Boarding == [at : {"boards"}, asked : Limits, start : Nat, boards : Seq(Items)]

Typing == [at : {"types"}, asked : Items, start : Nat]

Fielding == [at : {"fields"}, asked : Items, start : Nat,
             fields : SUBSET Items]

LEMMA CallKinds ==
    ASSUME TypeOK
    PROVE  /\ call.at = "rank" => call \in Ranking
           /\ call.at = "boards" =>
                  call \in Boarding /\ Len(call.boards) < Limit(call.asked)
           /\ call.at \in {"search", "comments", "issues", "sprints"} =>
                  call \in Hinting
           /\ call.at = "types" => call \in Typing
           /\ call.at = "fields" => call \in Fielding
           /\ call.at = "idle" => call = Idle
BY DEF TypeOK, Call, Idle, Ranking, Hinting, Boarding, Typing, Fielding

LEMMA CallsTyped ==
    /\ Idle \in Call
    /\ Ranking \subseteq Call /\ Hinting \subseteq Call
    /\ Boarding \subseteq Call
    /\ Typing \subseteq Call /\ Fielding \subseteq Call
BY DEF Call, Ranking, Hinting, Boarding, Typing, Fielding

LEMMA LimitType ==
    \A limit \in Nat : Limit(limit) \in Nat \ {0}
BY PagingAssumption DEF Limit

LEMMA FreshShape ==
    ASSUME NEW n \in 0..MaxLength
    PROVE  /\ Fresh(n) \in Seq(Items) /\ Len(Fresh(n)) = n
           /\ Range(Fresh(n)) = 1..n
<1>1. n \in Nat /\ 1..n \subseteq Items
    BY PagingAssumption
<1>2. Fresh(n) \in Seq(Items) /\ Len(Fresh(n)) = n
    BY <1>1 DEF Fresh
<1>3. Range(Fresh(n)) = 1..n
    BY <1>1 DEF Fresh, Range
<1> QED BY <1>2, <1>3

(* A call reads a list as it finds it. *)
LEMMA ReadTypes ==
    ASSUME NEW n \in 0..MaxLength, Read(n)
    PROVE  /\ list' \in Seq(Items) /\ changes' = 0
           /\ kept' \subseteq Range(list')
BY FreshShape DEF Read

(* The steps of a call leave the list alone. *)
LEMMA SeenTypes ==
    ASSUME TypeOK, UNCHANGED seen
    PROVE  /\ list' = list /\ kept' = kept /\ changes' = changes
           /\ list' \in Seq(Items) /\ kept' \subseteq Range(list')
           /\ changes' \in Nat
BY DEF TypeOK, seen

LEMMA BeginTypes ==
    ASSUME TypeOK, Begin
    PROVE  TypeOK'
<1> USE DEF TypeOK
<1>1. PICK n \in 0..MaxLength :
          \/ \E key \in Items : getIssueRank(n, key)
          \/ \E limit \in Limits :
                 \/ listBoards(n, limit)
                 \/ \E tool \in {"search", "comments", "issues"} :
                        followHints(n, tool, limit)
          \/ followHints(n, "sprints", 0)
          \/ \E type \in Items : resolveCreateMetadata(n, type)
    BY DEF Begin
<1>2. Limits \subseteq Nat /\ <<>> \in Seq(Items) /\ Len(<<>>) = 0
    BY PagingAssumption
<1>3. Read(n) /\ server' = server /\ edits' = edits
    BY <1>1 DEF getIssueRank, listBoards, followHints, resolveCreateMetadata
<1>4. /\ list' \in Seq(Items) /\ changes' = 0
      /\ kept' \subseteq Range(list')
    BY <1>3, ReadTypes
<1>5. CASE \E key \in Items : getIssueRank(n, key)
    <2>1. call' \in Ranking
        BY <1>5 DEF getIssueRank, Ranking
    <2> QED BY <2>1, <1>3, <1>4, CallsTyped DEF Ranking
<1>6. CASE \E limit \in Limits : listBoards(n, limit)
    <2>1. call' \in Boarding /\ Len(call'.boards) < Limit(call'.asked)
        BY <1>6, <1>2, LimitType DEF listBoards, Boarding
    <2> QED BY <2>1, <1>3, <1>4, CallsTyped DEF Boarding
<1>7. CASE \/ \E limit \in Limits :
                  \E tool \in {"search", "comments", "issues"} :
                      followHints(n, tool, limit)
           \/ followHints(n, "sprints", 0)
    <2>1. \E limit \in Nat :
              \E tool \in {"search", "comments", "issues", "sprints"} :
                  followHints(n, tool, limit)
        BY <1>7, <1>2
    <2>2. PICK limit \in Nat :
              \E tool \in {"search", "comments", "issues", "sprints"} :
                  followHints(n, tool, limit)
        BY <2>1
    <2>3. PICK tool \in {"search", "comments", "issues", "sprints"} :
              followHints(n, tool, limit)
        BY <2>2
    <2>4. call' = [at |-> tool, asked |-> limit, start |-> 0, read |-> <<>>]
        BY <2>3 DEF followHints
    <2>5. call' \in Hinting
        BY <2>4, <1>2 DEF Hinting
    <2> QED BY <2>5, <1>3, <1>4, CallsTyped DEF Hinting
<1>8. CASE \E type \in Items : resolveCreateMetadata(n, type)
    <2>1. call' \in Typing
        BY <1>8 DEF resolveCreateMetadata, Typing
    <2> QED BY <2>1, <1>3, <1>4, CallsTyped DEF Typing
<1> QED BY <1>1, <1>5, <1>6, <1>7, <1>8

(* A call moves on to the next page: its position and what it has read. *)
LEMMA FoundMoves ==
    ASSUME NEW c \in Ranking, NEW n \in Nat, NEW v \in Rank \union {None}
    PROVE  LET next == [c EXCEPT !.start = @ + n, !.found = v]
           IN  /\ next \in Ranking
               /\ next.at = c.at
               /\ next.start = c.start + n
               /\ next.found = v
               /\ next.asked = c.asked /\ next.previous = c.previous
<1> DEFINE d == [c EXCEPT !.start = @ + n]
           e == [d EXCEPT !.found = v]
<1>1. [c EXCEPT !.start = @ + n, !.found = v] = e
    BY DEF Ranking
<1>2. /\ d \in Ranking /\ d.at = c.at /\ d.start = c.start + n
      /\ d.asked = c.asked /\ d.previous = c.previous
    BY DEF Ranking
<1> HIDE DEF d
<1>3. /\ e \in Ranking /\ e.at = d.at /\ e.start = d.start
      /\ e.found = v /\ e.asked = d.asked /\ e.previous = d.previous
    BY <1>2 DEF Ranking
<1> HIDE DEF e
<1> QED BY <1>1, <1>2, <1>3

LEMMA PreviousMoves ==
    ASSUME NEW c \in Ranking, NEW n \in Nat, NEW v \in Items \union {None}
    PROVE  LET next == [c EXCEPT !.start = @ + n, !.previous = v]
           IN  /\ next \in Ranking
               /\ next.at = c.at
               /\ next.start = c.start + n
               /\ next.previous = v
               /\ next.asked = c.asked /\ next.found = c.found
<1> DEFINE d == [c EXCEPT !.start = @ + n]
           e == [d EXCEPT !.previous = v]
<1>1. [c EXCEPT !.start = @ + n, !.previous = v] = e
    BY DEF Ranking
<1>2. /\ d \in Ranking /\ d.at = c.at /\ d.start = c.start + n
      /\ d.asked = c.asked /\ d.found = c.found
    BY DEF Ranking
<1> HIDE DEF d
<1>3. /\ e \in Ranking /\ e.at = d.at /\ e.start = d.start
      /\ e.previous = v /\ e.asked = d.asked /\ e.found = d.found
    BY <1>2 DEF Ranking
<1> HIDE DEF e
<1> QED BY <1>1, <1>2, <1>3

LEMMA ReadMoves ==
    ASSUME NEW c \in Hinting, NEW n \in Nat, NEW v \in Seq(Items)
    PROVE  LET next == [c EXCEPT !.start = @ + n, !.read = v]
           IN  /\ next \in Hinting
               /\ next.at = c.at
               /\ next.start = c.start + n
               /\ next.read = v
               /\ next.asked = c.asked
<1> DEFINE d == [c EXCEPT !.start = @ + n]
           e == [d EXCEPT !.read = v]
<1>1. [c EXCEPT !.start = @ + n, !.read = v] = e
    BY DEF Hinting
<1>2. /\ d \in Hinting /\ d.at = c.at /\ d.start = c.start + n
      /\ d.asked = c.asked
    BY DEF Hinting
<1> HIDE DEF d
<1>3. /\ e \in Hinting /\ e.at = d.at /\ e.start = d.start
      /\ e.read = v /\ e.asked = d.asked
    BY <1>2 DEF Hinting
<1> HIDE DEF e
<1> QED BY <1>1, <1>2, <1>3

LEMMA BoardsMove ==
    ASSUME NEW c \in Boarding, NEW n \in Nat, NEW v \in Seq(Items)
    PROVE  LET next == [c EXCEPT !.start = @ + n, !.boards = v]
           IN  /\ next \in Boarding
               /\ next.at = c.at
               /\ next.start = c.start + n
               /\ next.boards = v
               /\ next.asked = c.asked
<1> DEFINE d == [c EXCEPT !.start = @ + n]
           e == [d EXCEPT !.boards = v]
<1>1. [c EXCEPT !.start = @ + n, !.boards = v] = e
    BY DEF Boarding
<1>2. /\ d \in Boarding /\ d.at = c.at /\ d.start = c.start + n
      /\ d.asked = c.asked
    BY DEF Boarding
<1> HIDE DEF d
<1>3. /\ e \in Boarding /\ e.at = d.at /\ e.start = d.start
      /\ e.boards = v /\ e.asked = d.asked
    BY <1>2 DEF Boarding
<1> HIDE DEF e
<1> QED BY <1>1, <1>2, <1>3

LEMMA FieldsMove ==
    ASSUME NEW c \in Fielding, NEW n \in Nat, NEW v \in SUBSET Items
    PROVE  LET next == [c EXCEPT !.start = @ + n, !.fields = v]
           IN  /\ next \in Fielding
               /\ next.at = c.at
               /\ next.start = c.start + n
               /\ next.fields = v
               /\ next.asked = c.asked
<1> DEFINE d == [c EXCEPT !.start = @ + n]
           e == [d EXCEPT !.fields = v]
<1>1. [c EXCEPT !.start = @ + n, !.fields = v] = e
    BY DEF Fielding
<1>2. /\ d \in Fielding /\ d.at = c.at /\ d.start = c.start + n
      /\ d.asked = c.asked
    BY DEF Fielding
<1> HIDE DEF d
<1>3. /\ e \in Fielding /\ e.at = d.at /\ e.start = d.start
      /\ e.fields = v /\ e.asked = d.asked
    BY <1>2 DEF Fielding
<1> HIDE DEF e
<1> QED BY <1>1, <1>2, <1>3

(* The page of a board and what an issue found on it is told. *)
LEMMA RankPageShape ==
    ASSUME TypeOK, call.at = "rank"
    PROVE  /\ call \in Ranking
           /\ RankPage \in Seq(Items) /\ PageIs(RankPage, call.start)
           /\ Len(RankPage) = IF call.start >= Len(list) THEN 0
                              ELSE Least(PageSize, Len(list) - call.start)
<1>1. call \in Ranking
    BY CallKinds
<1>2. list \in Seq(Items) /\ call.start \in Nat /\ PageSize \in Nat \ {0}
    BY <1>1, PagingAssumption DEF TypeOK, Ranking
<1> QED BY <1>1, <1>2, PageShape DEF RankPage, PageIs

LEMMA RankAtTypes ==
    ASSUME TypeOK, call.at = "rank", NEW i \in 1..Len(RankPage)
    PROVE  /\ RankAt(i) \in Rank
           /\ RankAt(i).position = call.start + i
           /\ RankAt(i).previous =
                  IF i > 1 THEN RankPage[i - 1] ELSE call.previous
           /\ RankAt(i).next =
                  IF i < Len(RankPage) THEN RankPage[i + 1] ELSE None
<1>1. call.start \in Nat /\ call.previous \in Items \union {None}
    BY CallKinds DEF Ranking
<1>2. RankPage \in Seq(Items) /\ Len(RankPage) \in Nat
    BY RankPageShape, LenProperties
<1>3. i > 1 => RankPage[i - 1] \in Items
    BY <1>2, ElementOfSeq
<1>4. i < Len(RankPage) => RankPage[i + 1] \in Items
    BY <1>2, ElementOfSeq
<1>5. i \in Nat
    BY <1>2
<1> QED BY <1>1, <1>3, <1>4, <1>5 DEF RankAt, Rank

(* The two ways a rank goes on to the next page, as records. *)
LEMMA RankGoesOn ==
    ASSUME TypeOK, call.at = "rank", ~RankEnds
    PROVE  /\ \A i \in 1..Len(RankPage) :
                  LET next == [call EXCEPT !.start = @ + PageSize,
                                           !.found = RankAt(i)]
                  IN  /\ next \in Ranking
                      /\ next.at = "rank" /\ next.asked = call.asked
                      /\ next.start = call.start + PageSize
                      /\ next.found = RankAt(i)
           /\ LET next == [call EXCEPT !.start = @ + PageSize,
                                       !.previous = Last(RankPage)]
              IN  /\ next \in Ranking
                  /\ next.at = "rank" /\ next.asked = call.asked
                  /\ next.start = call.start + PageSize
                  /\ next.previous = Last(RankPage)
                  /\ next.found = call.found
           /\ Len(RankPage) = PageSize
           /\ Last(RankPage) = list[call.start + PageSize]
<1>1. call \in Ranking /\ PageSize \in Nat \ {0}
    BY CallKinds, PagingAssumption
<1>2. RankPage \in Seq(Items) /\ Len(RankPage) \in Nat
    BY RankPageShape, LenProperties
<1>3. Len(list) \in Nat /\ call.start \in Nat
    BY <1>1, LenProperties DEF TypeOK, Ranking
<1>4. Len(RankPage) = PageSize
    BY <1>1, <1>2, <1>3, RankPageShape DEF RankEnds, Least
<1>5. /\ Last(RankPage) \in Items
      /\ Last(RankPage) = list[call.start + PageSize]
    BY <1>1, <1>2, <1>4, RankPageShape, ElementOfSeq DEF Last, PageIs
<1>6. ASSUME NEW i \in 1..Len(RankPage)
      PROVE  RankAt(i) \in Rank \union {None}
    BY RankAtTypes
<1> HIDE DEF RankPage
<1>7. ASSUME NEW i \in 1..Len(RankPage)
      PROVE  LET next == [call EXCEPT !.start = @ + PageSize,
                                      !.found = RankAt(i)]
             IN  /\ next \in Ranking
                 /\ next.at = "rank" /\ next.asked = call.asked
                 /\ next.start = call.start + PageSize
                 /\ next.found = RankAt(i)
    BY <1>1, <1>6, FoundMoves DEF Ranking
<1>8. LET next == [call EXCEPT !.start = @ + PageSize,
                               !.previous = Last(RankPage)]
      IN  /\ next \in Ranking
          /\ next.at = "rank" /\ next.asked = call.asked
          /\ next.start = call.start + PageSize
          /\ next.previous = Last(RankPage)
          /\ next.found = call.found
    BY <1>1, <1>5, PreviousMoves DEF Ranking
<1> QED BY <1>4, <1>5, <1>7, <1>8

LEMMA RankTypes ==
    ASSUME TypeOK, rankNext \/ rankSearch
    PROVE  TypeOK'
<1>1. /\ UNCHANGED seen /\ server' = server /\ edits' = edits
      /\ call.at = "rank"
    BY DEF rankNext, rankSearch
<1>2. /\ list' \in Seq(Items) /\ server' \in Paging
      /\ kept' \subseteq Range(list') /\ {changes', edits'} \subseteq Nat
    BY <1>1, SeenTypes DEF TypeOK
<1>3. RankPage \in Seq(Items) /\ Len(RankPage) \in Nat
    BY <1>1, RankPageShape, LenProperties
<1>4. ASSUME NEW r \in Rank \union {None}, Answer(r)
      PROVE  TypeOK'
    <2>1. call' = [at |-> "answer", tool |-> "rank", asked |-> call.asked,
                   result |-> r]
        BY <1>1, <1>4 DEF Answer
    <2> QED BY <2>1, <1>2, <1>4 DEF TypeOK, AnswerOK
<1>5. ASSUME call' \in Ranking
      PROVE  TypeOK'
    BY <1>5, <1>2, CallsTyped DEF TypeOK, Ranking
<1>6. CASE rankNext
    <2> DEFINE first == IF RankPage = <<>> THEN None ELSE RankPage[1]
    <2>1. call.found \in Rank
        BY <1>1, <1>6, RankPageShape DEF rankNext, Ranking
    <2>2. first \in Items \union {None}
        BY <1>3, EmptySeq, ElementOfSeq
    <2> HIDE DEF first
    <2>3. [call.found EXCEPT !.next = first] \in Rank
        BY <2>1, <2>2 DEF Rank
    <2>4. Answer([call.found EXCEPT !.next = first])
        BY <1>6 DEF rankNext, first
    <2> QED BY <2>3, <2>4, <1>4
<1>7. CASE rankSearch
    <2>1. \/ \E i \in 1..Len(RankPage) : Answer(RankAt(i))
          \/ /\ ~RankEnds
             /\ \E i \in 1..Len(RankPage) :
                    call' = [call EXCEPT !.start = @ + PageSize,
                                         !.found = RankAt(i)]
          \/ Answer(None)
          \/ /\ ~RankEnds
             /\ call' = [call EXCEPT !.start = @ + PageSize,
                                     !.previous = Last(RankPage)]
        BY <1>7 DEF rankSearch
    <2>2. CASE \E i \in 1..Len(RankPage) : Answer(RankAt(i))
        BY <2>2, <1>1, <1>4, RankAtTypes
    <2>3. CASE Answer(None)
        BY <2>3, <1>4
    <2>4. CASE /\ ~RankEnds
               /\ \E i \in 1..Len(RankPage) :
                      call' = [call EXCEPT !.start = @ + PageSize,
                                           !.found = RankAt(i)]
        BY <2>4, <1>1, <1>5, RankGoesOn
    <2>5. CASE /\ ~RankEnds
               /\ call' = [call EXCEPT !.start = @ + PageSize,
                                       !.previous = Last(RankPage)]
        BY <2>5, <1>1, <1>5, RankGoesOn
    <2> QED BY <2>1, <2>2, <2>3, <2>4, <2>5
<1> QED BY <1>6, <1>7

(* How much of the boards is read, and how the call goes on. *)
LEMMA BoardsPageShape ==
    ASSUME TypeOK, call.at = "boards"
    PROVE  /\ call \in Boarding /\ Len(call.boards) < Limit(call.asked)
           /\ Limit(call.asked) \in Nat \ {0} /\ call.start \in Nat
           /\ call.boards \in Seq(Items) /\ Len(call.boards) \in Nat
           /\ BoardsPage \in Seq(Items) /\ PageIs(BoardsPage, call.start)
           /\ Len(BoardsPage) \in Nat
           /\ call.boards \o BoardsPage \in Seq(Items)
           /\ Len(call.boards \o BoardsPage) =
                  Len(call.boards) + Len(BoardsPage)
<1>1. /\ call \in Boarding /\ Len(call.boards) < Limit(call.asked)
      /\ call.boards \in Seq(Items) /\ Len(call.boards) \in Nat
      /\ call.start \in Nat /\ call.asked \in Nat
    BY CallKinds, PagingAssumption, LenProperties DEF Boarding
<1>2. Limit(call.asked) \in Nat \ {0} /\ PageSize \in Nat \ {0}
    BY <1>1, LimitType, PagingAssumption
<1> DEFINE asked == Least(Limit(call.asked) - Len(call.boards), PageSize)
<1>3. asked \in Nat \ {0}
    BY <1>1, <1>2 DEF Least
<1> HIDE DEF asked
<1>4. PageIs(Served(call.start, asked), call.start)
    BY <1>1, <1>3, ServedShape DEF TypeOK
<1>5. PageIs(BoardsPage, call.start)
    BY <1>4 DEF BoardsPage, asked
<1>6. BoardsPage \in Seq(Items) /\ Len(BoardsPage) \in Nat
    BY <1>5, LenProperties DEF PageIs
<1> QED BY <1>1, <1>2, <1>5, <1>6, ConcatProperties

LEMMA FirstPart ==
    ASSUME NEW s \in Seq(Items), NEW n \in 0..Len(s)
    PROVE  /\ SubSeq(s, 1, n) \in Seq(Items) /\ Len(SubSeq(s, 1, n)) = n
           /\ \A i \in 1..n : SubSeq(s, 1, n)[i] = s[i]
<1>1. Len(s) \in Nat /\ \A i \in 1..n : s[i] \in Items
    BY LenProperties, ElementOfSeq
<1> QED BY <1>1, SubSeqProperties

LEMMA BoardsTypes ==
    ASSUME TypeOK, boardsPage
    PROVE  TypeOK'
<1> DEFINE boards == call.boards \o BoardsPage
           limit  == Limit(call.asked)
<1>1. /\ UNCHANGED seen /\ server' = server /\ edits' = edits
      /\ call.at = "boards"
      /\ \/ Answer(SubSeq(boards, 1, Least(limit, Len(boards))))
         \/ /\ ~(Len(boards) >= limit)
            /\ call' = [call EXCEPT !.start = Advance(BoardsPage),
                                    !.boards = boards]
    BY DEF boardsPage
<1>2. /\ list' \in Seq(Items) /\ server' \in Paging
      /\ kept' \subseteq Range(list') /\ {changes', edits'} \subseteq Nat
    BY <1>1, SeenTypes DEF TypeOK
<1>3. /\ call \in Boarding /\ boards \in Seq(Items) /\ Len(boards) \in Nat
      /\ limit \in Nat \ {0} /\ Len(BoardsPage) \in Nat
    BY <1>1, BoardsPageShape
<1> HIDE DEF boards
<1>4. CASE Answer(SubSeq(boards, 1, Least(limit, Len(boards))))
    <2>1. SubSeq(boards, 1, Least(limit, Len(boards))) \in Seq(Items)
        <3>1. Least(limit, Len(boards)) \in 0..Len(boards)
            BY <1>3 DEF Least
        <3> QED BY <3>1, <1>3, FirstPart
    <2>2. /\ call'.at = "answer" /\ call'.tool = "boards"
          /\ call'.result = SubSeq(boards, 1, Least(limit, Len(boards)))
        BY <1>1, <1>4 DEF Answer
    <2> QED BY <2>1, <2>2, <1>2 DEF TypeOK, AnswerOK
<1>5. CASE /\ ~(Len(boards) >= limit)
           /\ call' = [call EXCEPT !.start = Advance(BoardsPage),
                                   !.boards = boards]
    <2>1. call' = [call EXCEPT !.start = @ + Len(BoardsPage),
                               !.boards = boards]
        BY <1>3, <1>5 DEF Advance, Boarding
    <2>2. /\ call' \in Boarding /\ call'.boards = boards
          /\ call'.asked = call.asked /\ call'.at = "boards"
        BY <2>1, <1>3, BoardsMove DEF Boarding
    <2>3. Len(call'.boards) < Limit(call'.asked)
        BY <2>2, <1>3, <1>5
    <2> QED BY <2>2, <2>3, <1>2, CallsTyped DEF TypeOK, Boarding
<1> QED BY <1>1, <1>4, <1>5

LEMMA HintedPageShape ==
    ASSUME TypeOK, call.at \in {"search", "comments"}
    PROVE  /\ call \in Hinting /\ call.start \in Nat
           /\ call.read \in Seq(Items) /\ Len(HintedPage) \in Nat
           /\ HintedPage \in Seq(Items) /\ PageIs(HintedPage, call.start)
           /\ call.read \o HintedPage \in Seq(Items)
<1>1. /\ call \in Hinting /\ call.start \in Nat /\ call.asked \in Nat
      /\ call.read \in Seq(Items)
    BY CallKinds DEF Hinting
<1>2. Limit(call.asked) \in Nat \ {0}
    BY <1>1, LimitType
<1>3. PageIs(HintedPage, call.start)
    BY <1>1, <1>2, ServedShape DEF TypeOK, HintedPage
<1>4. HintedPage \in Seq(Items) /\ Len(HintedPage) \in Nat
    BY <1>3, LenProperties DEF PageIs
<1> QED BY <1>1, <1>3, <1>4, ConcatProperties

LEMMA HintedTypes ==
    ASSUME TypeOK, hintedPage
    PROVE  TypeOK'
<1> DEFINE read == call.read \o HintedPage
<1>1. /\ UNCHANGED seen /\ server' = server /\ edits' = edits
      /\ call.at \in {"search", "comments"}
      /\ \/ call' = [call EXCEPT !.start = Advance(HintedPage),
                                 !.read = read]
         \/ Answer(read)
    BY DEF hintedPage
<1>2. /\ list' \in Seq(Items) /\ server' \in Paging
      /\ kept' \subseteq Range(list') /\ {changes', edits'} \subseteq Nat
    BY <1>1, SeenTypes DEF TypeOK
<1>3. /\ call \in Hinting /\ read \in Seq(Items) /\ Len(HintedPage) \in Nat
    BY <1>1, HintedPageShape
<1> HIDE DEF read
<1>4. CASE Answer(read)
    <2>1. /\ call'.at = "answer" /\ call'.tool \in {"search", "comments"}
          /\ call'.result = read
        BY <1>1, <1>4 DEF Answer
    <2> QED BY <2>1, <1>2, <1>3 DEF TypeOK, AnswerOK
<1>5. CASE call' = [call EXCEPT !.start = Advance(HintedPage), !.read = read]
    <2>1. call' = [call EXCEPT !.start = @ + Len(HintedPage), !.read = read]
        BY <1>3, <1>5 DEF Advance, Hinting
    <2>2. /\ call' \in Hinting /\ call'.at = call.at
        BY <2>1, <1>3, ReadMoves DEF Hinting
    <2> QED BY <2>2, <1>1, <1>2, CallsTyped DEF TypeOK
<1> QED BY <1>1, <1>4, <1>5

(* The first page alone. *)
LEMMA FirstPageShape ==
    ASSUME TypeOK, call.at \in {"issues", "sprints"}
    PROVE  /\ call \in Hinting /\ Limit(call.asked) \in Nat \ {0}
           /\ Total \in Nat
           /\ PageIs(Served(0, Limit(call.asked)), 0)
           /\ PageIs(Served(0, DefaultLimit), 0)
<1>1. call \in Hinting /\ call.asked \in Nat
    BY CallKinds DEF Hinting
<1>2. Limit(call.asked) \in Nat \ {0} /\ DefaultLimit \in Nat \ {0}
    BY <1>1, LimitType, PagingAssumption
<1>3. Total \in Nat
    BY LenProperties DEF Total, TypeOK
<1> QED BY <1>1, <1>2, <1>3, ServedShape DEF TypeOK

LEMMA FirstPageTypes ==
    ASSUME TypeOK, issuesPage \/ sprintsPage
    PROVE  TypeOK'
<1> DEFINE page == Served(0, Limit(call.asked))
           more == page # <<>> /\ Len(page) < Total
<1>1. /\ UNCHANGED seen /\ server' = server /\ edits' = edits
      /\ call.at \in {"issues", "sprints"}
    BY DEF issuesPage, sprintsPage
<1>2. /\ list' \in Seq(Items) /\ server' \in Paging
      /\ kept' \subseteq Range(list') /\ {changes', edits'} \subseteq Nat
    BY <1>1, SeenTypes DEF TypeOK
<1>3. /\ call \in Hinting /\ Total \in Nat /\ page \in Seq(Items)
      /\ Served(0, DefaultLimit) \in Seq(Items)
    BY <1>1, FirstPageShape DEF PageIs
<1>4. CASE issuesPage
    <2>1. /\ call.at = "issues"
          /\ \/ call' = [call EXCEPT !.asked = Total]
             \/ Answer([issues |-> page, more |-> more])
        BY <1>4 DEF issuesPage
    <2> DEFINE result == [issues |-> page, more |-> more]
    <2>2. more \in BOOLEAN
        OBVIOUS
    <2> HIDE DEF page, more
    <2>3. result \in [issues : Seq(Items), more : BOOLEAN]
        BY <1>3, <2>2
    <2> HIDE DEF result
    <2>4. CASE Answer([issues |-> page, more |-> more])
        <3>1. /\ call'.at = "answer" /\ call'.tool = "issues"
              /\ call'.result = result
            BY <2>1, <2>4 DEF Answer, result
        <3> QED BY <3>1, <2>3, <1>2 DEF TypeOK, AnswerOK
    <2>5. CASE call' = [call EXCEPT !.asked = Total]
        <3>1. call' \in Hinting /\ call'.at = "issues"
            BY <2>1, <2>5, <1>3 DEF Hinting
        <3> QED BY <3>1, <1>2, CallsTyped DEF TypeOK
    <2> QED BY <2>1, <2>4, <2>5
<1>5. CASE sprintsPage
    <2>1. /\ call'.at = "answer" /\ call'.tool = "sprints"
          /\ call'.result = Served(0, DefaultLimit)
        BY <1>5 DEF sprintsPage, Answer
    <2> QED BY <2>1, <1>2, <1>3 DEF TypeOK, AnswerOK
<1> QED BY <1>1, <1>4, <1>5 DEF issuesPage, sprintsPage

LEMMA MetadataPageShape ==
    ASSUME TypeOK, call.at \in {"types", "fields"}
    PROVE  /\ call.at = "types" => call \in Typing
           /\ call.at = "fields" => call \in Fielding
           /\ call.start \in Nat /\ Len(MetadataPage) \in Nat
           /\ PageIs(MetadataPage, call.start)
           /\ Range(MetadataPage) \subseteq Items
<1>1. /\ call.at = "types" => call \in Typing
      /\ call.at = "fields" => call \in Fielding
      /\ call.start \in Nat
    BY CallKinds DEF Typing, Fielding
<1>2. PageIs(MetadataPage, call.start)
    BY <1>1, MetadataShape DEF TypeOK, MetadataPage
<1>3. MetadataPage \in Seq(Items)
    BY <1>2 DEF PageIs
<1> QED BY <1>1, <1>2, <1>3, LenProperties, RangeOfSeq

LEMMA MetadataTypes ==
    ASSUME TypeOK, typesPage \/ fieldsPage
    PROVE  TypeOK'
<1>1. /\ server' = server /\ edits' = edits
      /\ call.at \in {"types", "fields"}
    BY DEF typesPage, fieldsPage
<1>2. /\ call.at = "types" => call \in Typing
      /\ call.at = "fields" => call \in Fielding
      /\ Len(MetadataPage) \in Nat /\ Range(MetadataPage) \subseteq Items
    BY <1>1, MetadataPageShape
<1>3. server' \in Paging /\ edits' \in Nat
    BY <1>1 DEF TypeOK
<1>4. CASE typesPage /\ \E n \in 0..MaxLength : Read(n)
                     /\ call' = [at |-> "fields", asked |-> call.asked,
                                 start |-> 0, fields |-> {}]
    <2>1. /\ list' \in Seq(Items) /\ changes' = 0
          /\ kept' \subseteq Range(list')
        BY <1>4, ReadTypes
    <2>2. call' \in Fielding
        BY <1>2, <1>4 DEF typesPage, Typing, Fielding
    <2> QED BY <2>1, <2>2, <1>3, CallsTyped DEF TypeOK, Fielding
<1>5. CASE typesPage /\ UNCHANGED seen
    <2>1. /\ list' \in Seq(Items) /\ kept' \subseteq Range(list')
          /\ changes' \in Nat
        BY <1>5, SeenTypes
    <2>2. CASE Answer(None)
        BY <2>1, <2>2, <1>3, <1>5 DEF TypeOK, AnswerOK, Answer, typesPage
    <2>3. CASE call' = [call EXCEPT !.start = @ + Len(MetadataPage)]
        <3>1. call' \in Typing
            BY <2>3, <1>2, <1>5 DEF typesPage, Typing
        <3> QED BY <3>1, <2>1, <1>3, CallsTyped DEF TypeOK, Typing
    <2>4. CASE call' = [at |-> "fields", asked |-> call.asked,
                        start |-> 0, fields |-> {}]
        <3>1. call' \in Fielding
            BY <2>4, <1>2, <1>5 DEF typesPage, Typing, Fielding
        <3> QED BY <3>1, <2>1, <1>3, CallsTyped DEF TypeOK, Fielding
    <2> QED BY <2>2, <2>3, <2>4, <1>5 DEF typesPage
<1>6. CASE fieldsPage
    <2> DEFINE fields == call.fields \union Range(MetadataPage)
    <2>1. /\ call \in Fielding /\ UNCHANGED seen
          /\ \/ Answer(fields)
             \/ call' = [call EXCEPT !.start = @ + Len(MetadataPage),
                                     !.fields = fields]
        BY <1>2, <1>6 DEF fieldsPage
    <2>2. /\ list' \in Seq(Items) /\ kept' \subseteq Range(list')
          /\ changes' \in Nat
        BY <2>1, SeenTypes
    <2>3. fields \in SUBSET Items
        BY <1>2, <2>1 DEF Fielding
    <2> HIDE DEF fields
    <2>4. CASE Answer(fields)
        <3>1. /\ call'.at = "answer" /\ call'.tool = "fields"
              /\ call'.result = fields
            BY <2>4, <1>6 DEF Answer, fieldsPage
        <3> QED BY <3>1, <2>2, <2>3, <1>3 DEF TypeOK, AnswerOK
    <2>5. CASE call' = [call EXCEPT !.start = @ + Len(MetadataPage),
                                    !.fields = fields]
        <3>1. call' \in Fielding
            BY <2>5, <2>1, <2>3, <1>2, FieldsMove
        <3> QED BY <3>1, <2>2, <1>3, CallsTyped DEF TypeOK, Fielding
    <2> QED BY <2>1, <2>4, <2>5
<1>7. typesPage => \/ UNCHANGED seen
                   \/ /\ \E n \in 0..MaxLength : Read(n)
                      /\ call' = [at |-> "fields", asked |-> call.asked,
                                  start |-> 0, fields |-> {}]
    BY DEF typesPage
<1> QED BY <1>4, <1>5, <1>6, <1>7

LEMMA EditTypes ==
    ASSUME TypeOK, Edit
    PROVE  TypeOK'
<1>1. list' \in Seq(Items)
    <2>1. list \in Seq(Items)
        BY DEF TypeOK
    <2>2. CASE \E i \in 1..Len(list) : list' = RemoveAt(list, i)
        BY <2>1, <2>2, RemoveShape
    <2>3. CASE \E i \in 1..Len(list) + 1, x \in Items \ Range(list) :
                   list' = InsertAt(list, i, x)
        BY <2>1, <2>3, InsertShape
    <2> QED BY <2>2, <2>3 DEF Edit
<1>2. /\ kept' \subseteq Range(list') /\ server' = server /\ call' = call
      /\ changes' = changes + 1 /\ edits' = edits + 1
      /\ call.at # "answer"
    BY DEF Edit
<1> QED BY <1>1, <1>2 DEF TypeOK

LEMMA TypesStart == Init => TypeOK
<1> SUFFICES ASSUME Init PROVE TypeOK
    OBVIOUS
<1>1. list \in Seq(Items) /\ Range(list) = {}
    BY DEF Init, Range
<1>2. call \in Call /\ call.at = "idle"
    BY CallsTyped DEF Init, Idle
<1> QED BY <1>1, <1>2 DEF Init, TypeOK

LEMMA StopTypes ==
    ASSUME TypeOK, deliver \/ Fail
    PROVE  TypeOK'
<1>1. /\ call' = Idle /\ UNCHANGED seen /\ server' = server
      /\ edits' = edits
    BY DEF deliver, Fail
<1>2. call'.at = "idle" /\ call' \in Call
    BY <1>1, CallsTyped DEF Idle
<1> QED BY <1>1, <1>2, SeenTypes DEF TypeOK

LEMMA StepTypes == TypeOK /\ [Next]_vars => TypeOK'
<1> SUFFICES ASSUME TypeOK, [Next]_vars
             PROVE  TypeOK'
    OBVIOUS
<1>1. CASE Begin
    BY <1>1, BeginTypes
<1>2. CASE rankNext \/ rankSearch
    BY <1>2, RankTypes
<1>3. CASE boardsPage
    BY <1>3, BoardsTypes
<1>4. CASE typesPage \/ fieldsPage
    BY <1>4, MetadataTypes
<1>5. CASE hintedPage
    BY <1>5, HintedTypes
<1>6. CASE issuesPage \/ sprintsPage
    BY <1>6, FirstPageTypes
<1>7. CASE deliver \/ Fail
    BY <1>7, StopTypes
<1>8. CASE Edit
    BY <1>8, EditTypes
<1>9. CASE UNCHANGED vars
    <2>1. AnswerOK' <=> AnswerOK
        BY <1>9 DEF vars, AnswerOK
    <2> QED BY <1>9, <2>1 DEF vars, TypeOK
<1> QED BY <1>1, <1>2, <1>3, <1>4, <1>5, <1>6, <1>7, <1>8, <1>9
        DEF Next, Step

(* Every call has the fields of its kind, whatever the server and the      *)
(* editors do, and no boards are asked for beyond the limit (ListBoards    *)
(* asks for maxResults - len(boards)).                                     *)
THEOREM TypesCorrect == Spec => []TypeOK
<1>1. QED BY TypesStart, StepTypes, PTL DEF Spec

-----------------------------------------------------------------------------
(* What a call in progress has read *)

(* On a board nobody changed, the pages before hold no sign of the issue,  *)
(* or it was the last entry of them.                                       *)
RankSoFar ==
    call.at = "rank" /\ changes = 0 =>
        /\ call.start <= Len(list)
        /\ IF call.found = None
           THEN /\ \A j \in 1..call.start : list[j] # call.asked
                /\ call.previous = IF call.start = 0 THEN None
                                   ELSE list[call.start]
           ELSE /\ call.start > 0 /\ call.found.position = call.start
                /\ list[call.start] = call.asked
                /\ call.found.previous = IF call.start = 1 THEN None
                                         ELSE list[call.start - 1]

(* On a list nobody changed, what was read are its first entries. *)
ReadSoFar ==
    changes = 0 =>
        /\ call.at = "boards" =>
               /\ call.start <= Len(list)
               /\ call.boards = SubSeq(list, 1, call.start)
        /\ call.at \in {"search", "comments"} =>
               /\ call.start <= Len(list)
               /\ call.read = SubSeq(list, 1, call.start)

(* The same of the pages of the create metadata. *)
MetadataSoFar ==
    changes = 0 =>
        /\ call.at = "types" =>
               /\ call.start <= Len(list)
               /\ \A j \in 1..call.start : list[j] # call.asked
        /\ call.at = "fields" =>
               /\ call.start <= Len(list)
               /\ \A j \in 1..call.start : list[j] \in call.fields
               /\ call.fields \subseteq Range(list)

(* Of the entries k of a list l, those in its first n that were not read.  *)
Gap(k, l, n, read) ==
    {x \in k : x \notin read /\ \E i \in 1..Len(l) : i <= n /\ l[i] = x}

(* Entries that were there all along, behind the next page, and not read. *)
Missed(read) == Gap(kept, list, call.start, read)

(* On a list that changes, at most one of them for each change. *)
MissedSoFar ==
    /\ call.at = "boards" => Cardinality(Missed(Range(call.boards))) <= changes
    /\ call.at \in {"search", "comments"} =>
           Cardinality(Missed(Range(call.read))) <= changes
    /\ call.at = "fields" => Cardinality(Missed(call.fields)) <= changes

(* The two ways each page goes on: an answer, or the next page. *)
LEMMA BoardsGo ==
    ASSUME TypeOK, boardsPage
    PROVE  LET boards == call.boards \o BoardsPage
               limit  == Limit(call.asked)
           IN  /\ call.at = "boards" /\ UNCHANGED seen
               /\ call'.asked = call.asked
               /\ \/ /\ BoardsEnd \/ Len(boards) >= limit
                     /\ call'.at = "answer" /\ call'.tool = "boards"
                     /\ call'.result =
                            SubSeq(boards, 1, Least(limit, Len(boards)))
                  \/ /\ call'.at = "boards"
                     /\ call'.start = call.start + Len(BoardsPage)
                     /\ call'.boards = boards
<1> DEFINE boards == call.boards \o BoardsPage
           limit  == Limit(call.asked)
<1>1. /\ call.at = "boards" /\ UNCHANGED seen
      /\ call \in Boarding /\ boards \in Seq(Items)
      /\ Len(BoardsPage) \in Nat
    BY BoardsPageShape DEF boardsPage
<1>2. CASE /\ BoardsEnd \/ Len(boards) >= limit
           /\ Answer(SubSeq(boards, 1, Least(limit, Len(boards))))
    BY <1>1, <1>2 DEF Answer
<1>3. CASE call' = [call EXCEPT !.start = Advance(BoardsPage),
                                !.boards = boards]
    <2> HIDE DEF boards
    <2>1. call' = [call EXCEPT !.start = @ + Len(BoardsPage),
                               !.boards = boards]
        BY <1>1, <1>3 DEF Advance, Boarding
    <2>2. /\ call'.at = "boards" /\ call'.asked = call.asked
          /\ call'.start = call.start + Len(BoardsPage)
          /\ call'.boards = boards
        BY <2>1, <1>1, BoardsMove
    <2> QED BY <2>2, <1>1 DEF boards
<1> QED BY <1>1, <1>2, <1>3 DEF boardsPage

LEMMA HintedGo ==
    ASSUME TypeOK, hintedPage
    PROVE  LET read == call.read \o HintedPage
           IN  /\ call.at \in {"search", "comments"} /\ UNCHANGED seen
               /\ \/ /\ ~Hint(HintedPage)
                     /\ call'.at = "answer" /\ call'.tool = call.at
                     /\ call'.result = read
                  \/ /\ call'.at = call.at
                     /\ call'.start = call.start + Len(HintedPage)
                     /\ call'.read = read
<1> DEFINE read == call.read \o HintedPage
<1>1. /\ call.at \in {"search", "comments"} /\ UNCHANGED seen
      /\ call \in Hinting /\ read \in Seq(Items)
      /\ Len(HintedPage) \in Nat
    BY HintedPageShape DEF hintedPage
<1>2. CASE ~Hint(HintedPage) /\ Answer(read)
    BY <1>1, <1>2 DEF Answer
<1>3. CASE call' = [call EXCEPT !.start = Advance(HintedPage), !.read = read]
    <2> HIDE DEF read
    <2>1. call' = [call EXCEPT !.start = @ + Len(HintedPage), !.read = read]
        BY <1>1, <1>3 DEF Advance, Hinting
    <2>2. /\ call'.at = call.at
          /\ call'.start = call.start + Len(HintedPage)
          /\ call'.read = read
        BY <2>1, <1>1, ReadMoves
    <2> QED BY <2>2, <1>1 DEF read
<1> QED BY <1>1, <1>2, <1>3 DEF hintedPage

LEMMA IssuesGo ==
    ASSUME TypeOK, issuesPage \/ sprintsPage
    PROVE  /\ UNCHANGED seen
           /\ \/ call.at = "issues" /\ call'.at = "issues"
              \/ call'.at = "answer" /\ call'.tool \in {"issues", "sprints"}
<1>1. call \in Hinting
    BY FirstPageShape DEF issuesPage, sprintsPage
<1>2. [call EXCEPT !.asked = Total].at = call.at
    BY <1>1 DEF Hinting
<1>3. CASE sprintsPage
    BY <1>3 DEF sprintsPage, Answer
<1>4. CASE issuesPage /\ call' = [call EXCEPT !.asked = Total]
    <2>1. call.at = "issues" /\ UNCHANGED seen
        BY <1>4 DEF issuesPage
    <2>2. call'.at = "issues"
        BY <2>1, <1>2, <1>4
    <2> QED BY <2>1, <2>2
<1>5. CASE issuesPage /\ ~(call' = [call EXCEPT !.asked = Total])
    BY <1>5 DEF issuesPage, Answer
<1> QED BY <1>3, <1>4, <1>5

LEMMA TypesGo ==
    ASSUME TypeOK, typesPage
    PROVE  /\ call.at = "types"
           /\ \/ /\ call'.at = "fields" /\ call'.start = 0
                 /\ call'.fields = {} /\ call'.asked = call.asked
                 /\ \E n \in 0..MaxLength : Read(n)
              \/ /\ UNCHANGED seen /\ call'.asked = call.asked
                 /\ call.asked \notin Range(MetadataPage)
                 /\ \/ /\ MetadataEnds(MetadataPage)
                       /\ call'.at = "answer" /\ call'.tool = "types"
                       /\ call'.result = None
                    \/ /\ call'.at = "types"
                       /\ call'.start = call.start + Len(MetadataPage)
<1>1. call.at = "types" /\ call \in Typing
    BY CallKinds DEF typesPage
<1>2. CASE call' = [call EXCEPT !.start = @ + Len(MetadataPage)]
    <2>1. /\ call'.at = "types" /\ call'.asked = call.asked
          /\ call'.start = call.start + Len(MetadataPage)
        BY <1>1, <1>2 DEF Typing
    <2>2. ~(call' = [at |-> "fields", asked |-> call.asked, start |-> 0,
                     fields |-> {}])
        BY <2>1
    <2> QED BY <1>1, <2>1, <2>2 DEF typesPage
<1>3. CASE ~(call' = [call EXCEPT !.start = @ + Len(MetadataPage)])
    BY <1>1, <1>3 DEF typesPage, Answer
<1> QED BY <1>2, <1>3

LEMMA FieldsGo ==
    ASSUME TypeOK, fieldsPage
    PROVE  LET fields == call.fields \union Range(MetadataPage)
           IN  /\ call.at = "fields" /\ UNCHANGED seen
               /\ \/ /\ MetadataEnds(MetadataPage)
                     /\ call'.at = "answer" /\ call'.tool = "fields"
                     /\ call'.result = fields
                  \/ /\ call'.at = "fields"
                     /\ call'.start = call.start + Len(MetadataPage)
                     /\ call'.fields = fields
<1> DEFINE fields == call.fields \union Range(MetadataPage)
<1>1. /\ call.at = "fields" /\ UNCHANGED seen /\ call \in Fielding
      /\ Len(MetadataPage) \in Nat
    BY MetadataPageShape DEF fieldsPage
<1>2. fields \in SUBSET Items
    BY <1>1, MetadataPageShape DEF Fielding
<1>3. CASE MetadataEnds(MetadataPage) /\ Answer(fields)
    BY <1>1, <1>3 DEF Answer
<1>4. CASE call' = [call EXCEPT !.start = @ + Len(MetadataPage),
                                !.fields = fields]
    <2> HIDE DEF fields
    <2>1. /\ call'.at = "fields"
          /\ call'.start = call.start + Len(MetadataPage)
          /\ call'.fields = fields
        BY <1>1, <1>2, <1>4, FieldsMove
    <2> QED BY <2>1, <1>1 DEF fields
<1> QED BY <1>1, <1>3, <1>4 DEF fieldsPage

LEMMA RankGo ==
    ASSUME TypeOK, rankSearch \/ rankNext
    PROVE  /\ call.at = "rank"
           /\ \/ call'.at = "rank"
              \/ call'.at = "answer" /\ call'.tool = "rank"
<1>1. call.at = "rank"
    BY DEF rankSearch, rankNext
<1>2. CASE rankNext
    <2>1. \E r : Answer(r)
        BY <1>2 DEF rankNext
    <2> QED BY <2>1, <1>1 DEF Answer
<1>3. CASE rankSearch
    <2>1. \/ \E i \in 1..Len(RankPage) : Answer(RankAt(i))
          \/ Answer(None)
          \/ /\ ~RankEnds
             /\ \/ \E i \in 1..Len(RankPage) :
                       call' = [call EXCEPT !.start = @ + PageSize,
                                            !.found = RankAt(i)]
                \/ call' = [call EXCEPT !.start = @ + PageSize,
                                        !.previous = Last(RankPage)]
        BY <1>3 DEF rankSearch
    <2>2. CASE \/ \E i \in 1..Len(RankPage) : Answer(RankAt(i))
               \/ Answer(None)
        <3>1. \E r : Answer(r)
            BY <2>2
        <3> QED BY <3>1, <1>1 DEF Answer
    <2>3. CASE /\ ~RankEnds
               /\ \/ \E i \in 1..Len(RankPage) :
                         call' = [call EXCEPT !.start = @ + PageSize,
                                              !.found = RankAt(i)]
                  \/ call' = [call EXCEPT !.start = @ + PageSize,
                                          !.previous = Last(RankPage)]
        BY <2>3, <1>1, RankGoesOn
    <2> QED BY <2>1, <2>2, <2>3
<1> QED BY <1>1, <1>2, <1>3

LEMMA BeginGo ==
    ASSUME TypeOK, Begin
    PROVE  /\ \E n \in 0..MaxLength : Read(n)
           /\ call'.at \in {"rank", "boards", "search", "comments", "issues",
                            "sprints", "types"}
           /\ call'.start = 0
           /\ call'.at = "rank" => call'.previous = None /\ call'.found = None
           /\ call'.at = "boards" => call'.boards = <<>>
           /\ call'.at \in {"search", "comments"} => call'.read = <<>>
BY DEF Begin, getIssueRank, listBoards, followHints, resolveCreateMetadata

LEMMA StopGo == deliver \/ Fail => call'.at = "idle"
BY DEF deliver, Fail, Idle

LEMMA EditGo ==
    ASSUME TypeOK, Edit
    PROVE  /\ call' = call /\ call.at # "answer" /\ changes' = changes + 1
           /\ changes' # 0 /\ changes \in Nat
BY DEF TypeOK, Edit

-----------------------------------------------------------------------------
(* Rank *)

RankInv == TypeOK /\ RankSoFar /\ RankExact

LEMMA RankStart == Init => RankSoFar /\ RankExact
BY DEF Init, Idle, RankSoFar, RankExact, Answers, Answered

(* The steps that are no page of a rank. *)
LEMMA RankAside ==
    ASSUME TypeOK, Next, ~rankSearch, ~rankNext
    PROVE  RankSoFar' /\ RankExact'
<1>1. CASE Begin
    <2>1. /\ call'.at # "answer"
          /\ call'.at = "rank" => /\ call'.start = 0 /\ call'.found = None
                                  /\ call'.previous = None
        BY <1>1, BeginGo
    <2>2. Len(list)' \in Nat
        BY StepTypes, LenProperties DEF TypeOK
    <2> QED BY <2>1, <2>2 DEF RankSoFar, RankExact, Answers, Answered
<1>2. ASSUME call'.at # "rank", call'.at = "answer" => call'.tool # "rank"
      PROVE  RankSoFar' /\ RankExact'
    BY <1>2 DEF RankSoFar, RankExact, Answers, Answered
<1>3. CASE boardsPage
    BY <1>2, <1>3, BoardsGo
<1>4. CASE typesPage \/ fieldsPage
    BY <1>2, <1>4, TypesGo, FieldsGo
<1>5. CASE hintedPage
    BY <1>2, <1>5, HintedGo
<1>6. CASE issuesPage \/ sprintsPage
    BY <1>2, <1>6, IssuesGo
<1>7. CASE deliver \/ Fail
    BY <1>2, <1>7, StopGo
<1>8. CASE Edit
    BY <1>8, EditGo DEF RankSoFar, RankExact, Answers, Answered
<1> QED BY <1>1, <1>3, <1>4, <1>5, <1>6, <1>7, <1>8 DEF Next, Step

(* A page ends the board only when it holds its last entry. *)
LEMMA RankEndsAtLast ==
    ASSUME TypeOK, call.at = "rank", call.start <= Len(list)
    PROVE  /\ RankEnds => call.start + Len(RankPage) = Len(list)
           /\ ~RankEnds => /\ Len(RankPage) = PageSize
                           /\ call.start + PageSize <= Len(list)
<1>1. /\ Len(list) \in Nat /\ call.start \in Nat /\ PageSize \in Nat \ {0}
      /\ Len(RankPage) \in Nat
    BY CallKinds, LenProperties, PagingAssumption, RankPageShape
       DEF TypeOK, Ranking
<1>2. Len(RankPage) = IF call.start >= Len(list) THEN 0
                      ELSE Least(PageSize, Len(list) - call.start)
    BY RankPageShape
<1>3. Total \in {0, Len(list)}
    BY DEF Total
<1> HIDE DEF RankPage
<1> QED BY <1>1, <1>2, <1>3 DEF RankEnds, Least

(* Where an entry of the page stands in the list. *)
LEMMA RankAtPlace ==
    ASSUME TypeOK, RankSoFar, call.at = "rank", call.found = None,
           changes = 0, NEW i \in 1..Len(RankPage), RankPage[i] = call.asked
    PROVE  LET n == call.start + i
               r == RankAt(i)
           IN  /\ n \in 1..Len(list) /\ list[n] = call.asked
               /\ r.position = n
               /\ r.previous = IF n = 1 THEN None ELSE list[n - 1]
               /\ r.next = IF i < Len(RankPage) THEN list[n + 1] ELSE None
<1> DEFINE n == call.start + i
           r == RankAt(i)
<1>1. /\ Len(list) \in Nat /\ call.start \in Nat /\ i \in Nat \ {0}
      /\ Len(RankPage) \in Nat
    BY CallKinds, LenProperties, RankPageShape DEF TypeOK, Ranking
<1>2. /\ call.start + Len(RankPage) <= Len(list)
      /\ \A j \in 1..Len(RankPage) : RankPage[j] = list[call.start + j]
    BY <1>1, RankPageShape DEF PageIs
<1>3. /\ call.start <= Len(list)
      /\ call.previous = IF call.start = 0 THEN None ELSE list[call.start]
    BY DEF RankSoFar
<1>4. n \in 1..Len(list) /\ list[n] = call.asked
    BY <1>1, <1>2
<1>5. /\ r.position = n
      /\ r.previous = IF i > 1 THEN RankPage[i - 1] ELSE call.previous
      /\ r.next = IF i < Len(RankPage) THEN RankPage[i + 1] ELSE None
    BY RankAtTypes
<1>6. r.previous = IF n = 1 THEN None ELSE list[n - 1]
    <2>1. CASE i > 1
        <3>1. i - 1 \in 1..Len(RankPage) /\ n # 1
              /\ call.start + (i - 1) = n - 1
            BY <2>1, <1>1
        <3>2. RankPage[i - 1] = list[n - 1]
            BY <3>1, <1>2
        <3> HIDE DEF r, n
        <3> QED BY <2>1, <3>1, <3>2, <1>5
    <2>2. CASE i = 1
        <3>1. n - 1 = call.start /\ (n = 1 <=> call.start = 0) /\ ~(i > 1)
            BY <2>2, <1>1
        <3> HIDE DEF r, n
        <3> QED BY <3>1, <1>3, <1>5
    <2> QED BY <2>1, <2>2, <1>1
<1>7. r.next = IF i < Len(RankPage) THEN list[n + 1] ELSE None
    <2>1. CASE i < Len(RankPage)
        <3>1. i + 1 \in 1..Len(RankPage)
            <4> HIDE DEF r, n
            <4> QED BY <2>1, <1>1
        <3>2. call.start + (i + 1) = n + 1
            BY <1>1
        <3>3. RankPage[i + 1] = list[n + 1]
            BY <3>1, <3>2, <1>2
        <3> HIDE DEF r
        <3> QED BY <2>1, <3>3, <1>5
    <2>2. CASE ~(i < Len(RankPage))
        BY <2>2, <1>5
    <2> QED BY <2>1, <2>2
<1> QED BY <1>4, <1>5, <1>6, <1>7

LEMMA RankSearched ==
    ASSUME RankInv, rankSearch
    PROVE  RankSoFar' /\ RankExact'
<1>1. /\ TypeOK /\ RankSoFar /\ call.at = "rank" /\ call.found = None
      /\ list' = list /\ changes' = changes
    BY DEF RankInv, rankSearch, seen
<1> SUFFICES ASSUME changes = 0
             PROVE  RankSoFar' /\ RankExact'
    BY <1>1 DEF RankSoFar, RankExact, Answers
<1>2. /\ Len(list) \in Nat /\ call.start \in Nat /\ PageSize \in Nat \ {0}
      /\ Len(RankPage) \in Nat /\ call.start <= Len(list)
    BY <1>1, CallKinds, LenProperties, PagingAssumption, RankPageShape
       DEF TypeOK, Ranking, RankSoFar
<1>3. /\ RankEnds => call.start + Len(RankPage) = Len(list)
      /\ ~RankEnds => /\ Len(RankPage) = PageSize
                      /\ call.start + PageSize <= Len(list)
    BY <1>1, <1>2, RankEndsAtLast
<1>4. CASE \E i \in 1..Len(RankPage) : RankPage[i] = call.asked
                                       /\ Answer(RankAt(i))
                                       /\ (i < Len(RankPage) \/ RankEnds)
    <2>1. PICK i \in 1..Len(RankPage) : /\ RankPage[i] = call.asked
                                        /\ Answer(RankAt(i))
                                        /\ i < Len(RankPage) \/ RankEnds
        BY <1>4
    <2> DEFINE n == call.start + i
               r == RankAt(i)
    <2>2. /\ n \in 1..Len(list) /\ list[n] = call.asked
          /\ r.position = n
          /\ r.previous = IF n = 1 THEN None ELSE list[n - 1]
          /\ r.next = IF i < Len(RankPage) THEN list[n + 1] ELSE None
        BY <1>1, <2>1, RankAtPlace
    <2>3. i < Len(RankPage) <=> n # Len(list)
        <3>1. call.start + Len(RankPage) <= Len(list)
            BY <1>1, <1>2, RankPageShape DEF PageIs
        <3> QED BY <3>1, <2>1, <1>2, <1>3
    <2>4. r \in Rank /\ r # None
        BY <1>1, RankAtTypes, PagingAssumption
    <2>5. /\ call'.at = "answer" /\ call'.result = r
          /\ call'.asked = call.asked
        BY <2>1 DEF Answer
    <2> HIDE DEF n, r
    <2>6. RankSoFar'
        BY <2>5 DEF RankSoFar
    <2>7. RankExact'
        BY <1>1, <2>2, <2>3, <2>4, <2>5 DEF RankExact
    <2> QED BY <2>6, <2>7
<1>5. CASE ~RankEnds /\ \E i \in 1..Len(RankPage) :
               /\ RankPage[i] = call.asked /\ ~(i < Len(RankPage))
               /\ call' = [call EXCEPT !.start = @ + PageSize,
                                       !.found = RankAt(i)]
    <2>1. PICK i \in 1..Len(RankPage) :
              /\ RankPage[i] = call.asked /\ ~(i < Len(RankPage))
              /\ call' = [call EXCEPT !.start = @ + PageSize,
                                      !.found = RankAt(i)]
        BY <1>5
    <2> DEFINE n == call.start + i
               r == RankAt(i)
    <2>2. /\ n \in 1..Len(list) /\ list[n] = call.asked
          /\ r.position = n
          /\ r.previous = IF n = 1 THEN None ELSE list[n - 1]
        BY <1>1, <2>1, RankAtPlace
    <2>3. r # None
        BY <1>1, RankAtTypes, PagingAssumption
    <2>4. /\ call'.at = "rank" /\ call'.asked = call.asked
          /\ call'.start = call.start + PageSize /\ call'.found = r
        BY <1>1, <1>5, <2>1, RankGoesOn
    <2>5. call'.start = n /\ n > 0 /\ n <= Len(list)
        BY <1>2, <1>3, <1>5, <2>1, <2>2, <2>4
    <2> HIDE DEF n, r
    <2>6. RankSoFar'
        BY <1>1, <2>2, <2>3, <2>4, <2>5 DEF RankSoFar
    <2>7. RankExact'
        BY <2>4 DEF RankExact, Answers, Answered
    <2> QED BY <2>6, <2>7
<1>6. CASE call.asked \notin Range(RankPage)
    <2>1. \A j \in 1..call.start + Len(RankPage) : list[j] # call.asked
        <3> SUFFICES ASSUME NEW j \in 1..call.start + Len(RankPage),
                            list[j] = call.asked
                     PROVE  FALSE
            OBVIOUS
        <3>1. ~(j \in 1..call.start)
            BY <1>1 DEF RankSoFar
        <3>2. /\ j - call.start \in 1..Len(RankPage)
              /\ call.start + (j - call.start) = j
            BY <3>1, <1>2
        <3>3. RankPage[j - call.start] = list[j]
            BY <3>2, <1>1, RankPageShape DEF PageIs
        <3> QED BY <3>2, <3>3, <1>1, <1>6, RankPageShape, RangeEquality
    <2>2. CASE RankEnds /\ Answer(None)
        <3>1. list \in Seq(Items)
            BY <1>1 DEF TypeOK
        <3>2. call.asked \notin Range(list)
            BY <2>1, <2>2, <1>3, <3>1, RangeEquality
        <3>3. /\ call'.at = "answer" /\ call'.result = None
              /\ call'.asked = call.asked
            BY <2>2 DEF Answer
        <3>4. RankSoFar'
            BY <3>3 DEF RankSoFar
        <3>5. RankExact'
            BY <3>2, <3>3, <1>1 DEF RankExact
        <3> QED BY <3>4, <3>5
    <2>3. CASE ~RankEnds /\ call' = [call EXCEPT !.start = @ + PageSize,
                                                 !.previous = Last(RankPage)]
        <3>1. /\ call'.at = "rank" /\ call'.asked = call.asked
              /\ call'.start = call.start + PageSize
              /\ call'.previous = Last(RankPage) /\ call'.found = None
              /\ Last(RankPage) = list[call.start + PageSize]
            BY <1>1, <2>3, RankGoesOn
        <3>2. /\ call'.start = call.start + Len(RankPage)
              /\ call'.start <= Len(list) /\ call'.start # 0
              /\ call'.previous = list[call'.start]
            BY <3>1, <2>3, <1>2, <1>3
        <3>3. RankSoFar'
            BY <3>1, <3>2, <2>1, <1>1 DEF RankSoFar
        <3>4. RankExact'
            BY <3>1 DEF RankExact, Answers, Answered
        <3> QED BY <3>3, <3>4
    <2>4. ~(\E i \in 1..Len(RankPage) : RankPage[i] = call.asked)
        BY <1>1, <1>6, RankPageShape, RangeEquality
    <2> QED BY <2>2, <2>3, <2>4, <1>1 DEF rankSearch
<1> QED BY <1>4, <1>5, <1>6 DEF rankSearch

LEMMA RankNexted ==
    ASSUME RankInv, rankNext
    PROVE  RankSoFar' /\ RankExact'
<1>1. /\ TypeOK /\ RankSoFar /\ call.at = "rank" /\ call.found # None
      /\ list' = list /\ changes' = changes
    BY DEF RankInv, rankNext, seen
<1> SUFFICES ASSUME changes = 0
             PROVE  RankSoFar' /\ RankExact'
    BY <1>1 DEF RankSoFar, RankExact, Answers
<1> DEFINE first == IF RankPage = <<>> THEN None ELSE RankPage[1]
           r     == [call.found EXCEPT !.next = first]
           n     == call.start
<1>2. /\ n \in 1..Len(list) /\ list[n] = call.asked
      /\ call.found \in Rank /\ call.found.position = n
      /\ call.found.previous = IF n = 1 THEN None ELSE list[n - 1]
    BY <1>1, CallKinds, LenProperties DEF RankSoFar, Ranking, TypeOK
<1>3. RankPage \in Seq(Items) /\ PageIs(RankPage, n)
    BY <1>1, RankPageShape
<1>4. first = IF n = Len(list) THEN None ELSE list[n + 1]
    <2>1. Len(list) \in Nat
        BY <1>1, LenProperties DEF TypeOK
    <2>2. RankPage = <<>> <=> n = Len(list)
        BY <1>2, <1>3, <2>1 DEF PageIs
    <2>3. RankPage # <<>> => RankPage[1] = list[n + 1]
        BY <1>3, EmptySeq DEF PageIs
    <2> QED BY <2>2, <2>3
<1>5. first \in Items \union {None}
    BY <1>3, EmptySeq, ElementOfSeq
<1> HIDE DEF first, n
<1>6. /\ r \in Rank /\ r.position = call.found.position
      /\ r.previous = call.found.previous /\ r.next = first
    BY <1>2, <1>5 DEF Rank
<1>7. /\ call'.at = "answer" /\ call'.result = r
      /\ call'.asked = call.asked
    BY DEF rankNext, Answer, first
<1> HIDE DEF r
<1>8. r # None
    BY <1>6, PagingAssumption
<1>9. RankSoFar'
    BY <1>7 DEF RankSoFar
<1>10. RankExact'
    BY <1>1, <1>2, <1>4, <1>6, <1>7, <1>8 DEF RankExact
<1> QED BY <1>9, <1>10

(* GetIssueRank tells the place of an issue on a board nobody changes,     *)
(* also when it is the first or the last of a page and a neighbour has to  *)
(* be taken from another one; "not found" only when it is not there.       *)
THEOREM RankRight == Spec => []RankExact
<1>1. Init => RankInv
    BY TypesStart, RankStart DEF RankInv
<1>2. RankInv /\ [Next]_vars => RankInv'
    <2> SUFFICES ASSUME RankInv, [Next]_vars
                 PROVE  RankInv'
        OBVIOUS
    <2>1. TypeOK'
        BY StepTypes DEF RankInv
    <2>2. CASE rankSearch
        BY <2>1, <2>2, RankSearched DEF RankInv
    <2>3. CASE rankNext
        BY <2>1, <2>3, RankNexted DEF RankInv
    <2>4. CASE Next /\ ~rankSearch /\ ~rankNext
        BY <2>1, <2>4, RankAside DEF RankInv
    <2>5. CASE UNCHANGED vars
        BY <2>1, <2>5
           DEF vars, RankInv, RankSoFar, RankExact, Answers, Answered
    <2> QED BY <2>2, <2>3, <2>4, <2>5
<1>3. RankInv => RankExact
    BY DEF RankInv
<1> QED BY <1>1, <1>2, <1>3, PTL DEF Spec

-----------------------------------------------------------------------------
(* Create metadata *)

MetadataInv == TypeOK /\ MetadataSoFar /\ MetadataComplete

LEMMA MetadataStart == Init => MetadataSoFar /\ MetadataComplete
BY DEF Init, Idle, MetadataSoFar, MetadataComplete, Answers, Answered

LEMMA MetadataAside ==
    ASSUME TypeOK, Next, ~typesPage, ~fieldsPage
    PROVE  MetadataSoFar' /\ MetadataComplete'
<1>1. CASE Begin
    <2>1. /\ call'.at # "answer" /\ call'.at # "fields"
          /\ call'.at = "types" => call'.start = 0
        BY <1>1, BeginGo
    <2>2. Len(list)' \in Nat
        BY StepTypes, LenProperties DEF TypeOK
    <2> QED BY <2>1, <2>2
            DEF MetadataSoFar, MetadataComplete, Answers, Answered
<1>2. ASSUME call'.at \notin {"types", "fields"},
             call'.at = "answer" => call'.tool \notin {"types", "fields"}
      PROVE  MetadataSoFar' /\ MetadataComplete'
    BY <1>2 DEF MetadataSoFar, MetadataComplete, Answers, Answered
<1>3. CASE boardsPage
    BY <1>2, <1>3, BoardsGo
<1>4. CASE rankSearch \/ rankNext
    BY <1>2, <1>4, RankGo
<1>5. CASE hintedPage
    BY <1>2, <1>5, HintedGo
<1>6. CASE issuesPage \/ sprintsPage
    BY <1>2, <1>6, IssuesGo
<1>7. CASE deliver \/ Fail
    BY <1>2, <1>7, StopGo
<1>8. CASE Edit
    BY <1>8, EditGo DEF MetadataSoFar, MetadataComplete, Answers, Answered
<1> QED BY <1>1, <1>3, <1>4, <1>5, <1>6, <1>7, <1>8 DEF Next, Step

(* What a page of metadata adds to what was before it. *)
LEMMA MetadataSeen ==
    ASSUME TypeOK, call.at \in {"types", "fields"}, call.start <= Len(list)
    PROVE  LET n == call.start + Len(MetadataPage)
           IN  /\ n <= Len(list) /\ Len(list) \in Nat
               /\ MetadataEnds(MetadataPage) => n = Len(list)
               /\ \A j \in 1..n : \/ j \in 1..call.start
                                  \/ list[j] \in Range(MetadataPage)
               /\ Range(MetadataPage) \subseteq Range(list)
<1> DEFINE n == call.start + Len(MetadataPage)
<1>1. /\ call.start \in Nat /\ Len(MetadataPage) \in Nat
      /\ Len(list) \in Nat /\ list \in Seq(Items)
      /\ MetadataPage \in Seq(Items) /\ PageIs(MetadataPage, call.start)
    BY MetadataPageShape, LenProperties DEF TypeOK, PageIs
<1>2. /\ n <= Len(list)
      /\ MetadataPage = <<>> <=> call.start >= Len(list)
      /\ \A i \in 1..Len(MetadataPage) :
             MetadataPage[i] = list[call.start + i]
    BY <1>1 DEF PageIs
<1>3. MetadataEnds(MetadataPage) => n = Len(list)
    BY <1>1, <1>2 DEF MetadataEnds
<1>4. ASSUME NEW j \in 1..n, ~(j \in 1..call.start)
      PROVE  list[j] \in Range(MetadataPage)
    <2>1. /\ j - call.start \in 1..Len(MetadataPage)
          /\ call.start + (j - call.start) = j
        BY <1>1, <1>4
    <2>2. MetadataPage[j - call.start] = list[j]
        BY <2>1, <1>2
    <2> QED BY <2>1, <2>2, <1>1, RangeEquality
<1>5. Range(MetadataPage) \subseteq Range(list)
    <2> SUFFICES ASSUME NEW i \in 1..Len(MetadataPage)
                 PROVE  MetadataPage[i] \in Range(list)
        BY <1>1, RangeEquality
    <2>1. call.start + i \in 1..Len(list)
        BY <1>1, <1>2
    <2> QED BY <2>1, <1>1, <1>2, RangeEquality
<1> QED BY <1>1, <1>2, <1>3, <1>4, <1>5

LEMMA TypesSearched ==
    ASSUME MetadataInv, typesPage
    PROVE  MetadataSoFar' /\ MetadataComplete'
<1>1. TypeOK /\ MetadataSoFar /\ call.at = "types"
    BY DEF MetadataInv, typesPage
<1>2. Len(list)' \in Nat
    BY <1>1, StepTypes, LenProperties DEF TypeOK, Next, Step
<1>3. CASE call'.at = "fields" /\ call'.start = 0 /\ call'.fields = {}
    BY <1>2, <1>3 DEF MetadataSoFar, MetadataComplete, Answers, Answered
<1>4. CASE UNCHANGED seen /\ call.asked \notin Range(MetadataPage)
    <2>1. list' = list /\ changes' = changes /\ call'.asked = call.asked
        BY <1>1, <1>4, TypesGo DEF seen
    <2> SUFFICES ASSUME changes = 0, call'.at # "fields"
                 PROVE  MetadataSoFar' /\ MetadataComplete'
        BY <2>1, <1>3, <1>1, TypesGo
           DEF MetadataSoFar, MetadataComplete, Answers
    <2> DEFINE n == call.start + Len(MetadataPage)
    <2>2. /\ call.start <= Len(list)
          /\ \A j \in 1..call.start : list[j] # call.asked
        BY <1>1 DEF MetadataSoFar
    <2>3. /\ n <= Len(list)
          /\ MetadataEnds(MetadataPage) => n = Len(list)
          /\ \A j \in 1..n : \/ j \in 1..call.start
                             \/ list[j] \in Range(MetadataPage)
        BY <1>1, <2>2, MetadataSeen
    <2>4. \A j \in 1..n : list[j] # call.asked
        BY <1>4, <2>2, <2>3
    <2>5. CASE /\ MetadataEnds(MetadataPage)
               /\ call'.at = "answer" /\ call'.tool = "types"
        <3>1. call.asked \notin Range(list)
            BY <2>3, <2>4, <2>5, <1>1, RangeEquality DEF TypeOK
        <3> QED BY <3>1, <2>1, <2>5
                DEF MetadataSoFar, MetadataComplete, Answers, Answered
    <2>6. CASE call'.at = "types" /\ call'.start = n
        BY <2>1, <2>3, <2>4, <2>6
           DEF MetadataSoFar, MetadataComplete, Answers, Answered
    <2> QED BY <2>5, <2>6, <1>1, TypesGo
<1> QED BY <1>1, <1>3, <1>4, TypesGo

LEMMA FieldsSearched ==
    ASSUME MetadataInv, fieldsPage
    PROVE  MetadataSoFar' /\ MetadataComplete'
<1>1. /\ TypeOK /\ MetadataSoFar /\ call.at = "fields"
      /\ list' = list /\ changes' = changes
    BY DEF MetadataInv, fieldsPage, seen
<1> SUFFICES ASSUME changes = 0
             PROVE  MetadataSoFar' /\ MetadataComplete'
    BY <1>1 DEF MetadataSoFar, MetadataComplete, Answers
<1> DEFINE n      == call.start + Len(MetadataPage)
           fields == call.fields \union Range(MetadataPage)
<1>2. /\ call.start <= Len(list)
      /\ \A j \in 1..call.start : list[j] \in call.fields
      /\ call.fields \subseteq Range(list)
    BY <1>1 DEF MetadataSoFar
<1>3. /\ n <= Len(list)
      /\ MetadataEnds(MetadataPage) => n = Len(list)
      /\ \A j \in 1..n : \/ j \in 1..call.start
                         \/ list[j] \in Range(MetadataPage)
      /\ Range(MetadataPage) \subseteq Range(list)
    BY <1>1, <1>2, MetadataSeen
<1>4. /\ \A j \in 1..n : list[j] \in fields
      /\ fields \subseteq Range(list)
    BY <1>2, <1>3
<1>5. CASE /\ MetadataEnds(MetadataPage)
           /\ call'.at = "answer" /\ call'.tool = "fields"
           /\ call'.result = fields
    <2>1. fields = Range(list)
        <3>1. Range(list) = {list[j] : j \in 1..Len(list)}
            BY <1>1, RangeEquality DEF TypeOK
        <3> QED BY <3>1, <1>3, <1>4, <1>5
    <2> QED BY <2>1, <1>1, <1>5
            DEF MetadataSoFar, MetadataComplete, Answers, Answered
<1>6. CASE call'.at = "fields" /\ call'.start = n /\ call'.fields = fields
    <2> HIDE DEF n, fields
    <2> QED BY <1>1, <1>3, <1>4, <1>6
            DEF MetadataSoFar, MetadataComplete, Answers, Answered
<1> QED BY <1>1, <1>5, <1>6, FieldsGo

(* ResolveCreateMetadata collects every field of the issue type, over as   *)
(* many pages as it takes, and calls a type unknown only when the project  *)
(* does not have it; on metadata nobody changes meanwhile.                 *)
THEOREM MetadataWhole == Spec => []MetadataComplete
<1>1. Init => MetadataInv
    BY TypesStart, MetadataStart DEF MetadataInv
<1>2. MetadataInv /\ [Next]_vars => MetadataInv'
    <2> SUFFICES ASSUME MetadataInv, [Next]_vars
                 PROVE  MetadataInv'
        OBVIOUS
    <2>1. TypeOK'
        BY StepTypes DEF MetadataInv
    <2>2. CASE typesPage
        BY <2>1, <2>2, TypesSearched DEF MetadataInv
    <2>3. CASE fieldsPage
        BY <2>1, <2>3, FieldsSearched DEF MetadataInv
    <2>4. CASE Next /\ ~typesPage /\ ~fieldsPage
        BY <2>1, <2>4, MetadataAside DEF MetadataInv
    <2>5. CASE UNCHANGED vars
        BY <2>1, <2>5
           DEF vars, MetadataInv, MetadataSoFar, MetadataComplete, Answers,
               Answered
    <2> QED BY <2>2, <2>3, <2>4, <2>5
<1>3. MetadataInv => MetadataComplete
    BY DEF MetadataInv
<1> QED BY <1>1, <1>2, <1>3, PTL DEF Spec

-----------------------------------------------------------------------------
(* Pages of a list nobody changes *)

GatherInv == TypeOK /\ ReadSoFar /\ Gathered

LEMMA GatherStart == Init => ReadSoFar /\ Gathered
BY DEF Init, Idle, ReadSoFar, Gathered, Answers, Answered

Gatherers == {"boards", "search", "comments", "sprints", "issues"}

LEMMA GatherAside ==
    ASSUME TypeOK, Next, ~boardsPage, ~hintedPage, ~issuesPage, ~sprintsPage
    PROVE  ReadSoFar' /\ Gathered'
<1>1. CASE Begin
    <2>1. /\ call'.at # "answer" /\ call'.start = 0
          /\ call'.at = "boards" => call'.boards = <<>>
          /\ call'.at \in {"search", "comments"} => call'.read = <<>>
        BY <1>1, BeginGo
    <2>2. Len(list)' \in Nat
        BY StepTypes, LenProperties DEF TypeOK
    <2>3. SubSeq(list', 1, call'.start) = <<>>
        BY <2>1, SubSeqEmpty
    <2>4. call'.start <= Len(list')
        BY <2>1, <2>2
    <2>5. /\ call'.at = "boards" => call'.boards = SubSeq(list', 1, call'.start)
          /\ call'.at \in {"search", "comments"} =>
                 call'.read = SubSeq(list', 1, call'.start)
        BY <2>1, <2>3
    <2>6. ReadSoFar'
        BY <2>4, <2>5 DEF ReadSoFar
    <2>7. Gathered'
        BY <2>1 DEF Gathered, Answers, Answered
    <2> QED BY <2>6, <2>7
<1>2. ASSUME call'.at \notin Gatherers,
             call'.at = "answer" => call'.tool \notin Gatherers
      PROVE  ReadSoFar' /\ Gathered'
    BY <1>2 DEF ReadSoFar, Gathered, Answers, Answered, Gatherers
<1>3. CASE typesPage
    BY <1>2, <1>3, TypesGo DEF Gatherers
<1>4. CASE rankSearch \/ rankNext
    BY <1>2, <1>4, RankGo DEF Gatherers
<1>5. CASE fieldsPage
    BY <1>2, <1>5, FieldsGo DEF Gatherers
<1>6. CASE deliver \/ Fail
    BY <1>2, <1>6, StopGo DEF Gatherers
<1>7. CASE Edit
    BY <1>7, EditGo DEF ReadSoFar, Gathered, Answers, Answered
<1> QED BY <1>1, <1>3, <1>4, <1>5, <1>6, <1>7 DEF Next, Step

LEMMA FirstPagePrefix ==
    ASSUME list \in Seq(Items), NEW p, PageIs(p, 0)
    PROVE  /\ IsPrefix(p, list) /\ p \in Seq(Items)
           /\ p # list <=> p # <<>> /\ Len(p) < Len(list)
<1>1. /\ p \in Seq(Items) /\ Len(p) \in Nat /\ Len(list) \in Nat
      /\ Len(p) <= Len(list)
      /\ \A i \in 1..Len(p) : p[i] = list[i]
      /\ p = <<>> <=> Len(list) = 0
    <2>1. p \in Seq(Items)
        BY DEF PageIs
    <2>2. Len(p) \in Nat /\ Len(list) \in Nat
        BY <2>1, LenProperties
    <2> QED BY <2>1, <2>2 DEF PageIs
<1>2. /\ SubSeq(list, 1, Len(p)) \in Seq(Items)
      /\ Len(SubSeq(list, 1, Len(p))) = Len(p)
      /\ \A i \in 1..Len(p) : SubSeq(list, 1, Len(p))[i] = list[i]
    BY <1>1, FirstPart
<1>3. p = SubSeq(list, 1, Len(p))
    <2> DEFINE q == SubSeq(list, 1, Len(p))
    <2>1. /\ q \in Seq(Items) /\ Len(p) = Len(q)
          /\ \A i \in 1..Len(p) : p[i] = q[i]
        BY <1>1, <1>2
    <2> HIDE DEF q
    <2>2. p = q
        BY <1>1, <2>1, SeqEqual
    <2> QED BY <2>2 DEF q
<1>4. SubSeq(p, 1, Len(p)) = p
    BY <1>1, SubSeqFull
<1>5. IsPrefix(p, list)
    BY <1>1, <1>3, <1>4 DEF IsPrefix
<1>6. Len(p) = Len(list) => p = list
    BY <1>1, SeqEqual
<1>7. p # list <=> p # <<>> /\ Len(p) < Len(list)
    <2>1. p = <<>> => p = list
        BY <1>1, EmptySeq
    <2>2. Len(p) # Len(list) => p # list
        OBVIOUS
    <2> QED BY <1>1, <1>6, <2>1, <2>2
<1> QED BY <1>1, <1>5, <1>7

(* A list read from its beginning, and one page more. *)
LEMMA ReadJoins ==
    ASSUME list \in Seq(Items), NEW start \in Nat, start <= Len(list),
           NEW read, read = SubSeq(list, 1, start),
           NEW p, PageIs(p, start)
    PROVE  /\ start + Len(p) \in 0..Len(list)
           /\ read \o p = SubSeq(list, 1, start + Len(p))
           /\ p = <<>> => start + Len(p) = Len(list)
           /\ start + Len(p) = Len(list) => read \o p = list
<1>1. Len(list) \in Nat /\ start \in 0..Len(list)
    BY LenProperties
<1>2. /\ start + Len(p) \in 0..Len(list)
      /\ read \o p = SubSeq(list, 1, start + Len(p))
    BY <1>1, NextPageJoins
<1>3. p = <<>> => start + Len(p) = Len(list)
    BY <1>1 DEF PageIs
<1>4. start + Len(p) = Len(list) => read \o p = list
    BY <1>2, SubSeqFull
<1> QED BY <1>2, <1>3, <1>4

LEMMA BoardsGathered ==
    ASSUME GatherInv, boardsPage
    PROVE  ReadSoFar' /\ Gathered'
<1>1. /\ TypeOK /\ ReadSoFar /\ call.at = "boards" /\ list \in Seq(Items)
      /\ list' = list /\ changes' = changes /\ call'.asked = call.asked
    BY BoardsGo DEF GatherInv, TypeOK, seen
<1> SUFFICES ASSUME changes = 0
             PROVE  ReadSoFar' /\ Gathered'
    BY <1>1 DEF ReadSoFar, Gathered, Answers
<1> DEFINE boards == call.boards \o BoardsPage
           limit  == Limit(call.asked)
           n      == call.start + Len(BoardsPage)
<1>2. /\ call.start \in Nat /\ Len(BoardsPage) \in Nat
      /\ limit \in Nat \ {0} /\ PageIs(BoardsPage, call.start)
    BY <1>1, BoardsPageShape
<1>3. call.start <= Len(list) /\ call.boards = SubSeq(list, 1, call.start)
    BY <1>1 DEF ReadSoFar
<1>4. /\ n \in 0..Len(list) /\ boards = SubSeq(list, 1, n)
      /\ BoardsPage = <<>> => n = Len(list)
    <2>1. /\ list \in Seq(Items) /\ call.start \in Nat
          /\ PageIs(BoardsPage, call.start)
        BY <1>1, <1>2
    <2> QED BY <2>1, <1>3, ReadJoins
<1>5. Len(list) \in Nat /\ boards \in Seq(Items) /\ Len(boards) = n
    BY <1>1, <1>4, LenProperties, FirstPart
<1>6. BoardsEnd => n = Len(list)
    BY <1>4, <1>5 DEF BoardsEnd, IsLast
<1> HIDE DEF boards, n, limit
<1>7. CASE /\ BoardsEnd \/ Len(boards) >= limit
           /\ call'.at = "answer" /\ call'.tool = "boards"
           /\ call'.result = SubSeq(boards, 1, Least(limit, Len(boards)))
    <2> DEFINE m == Least(limit, Len(boards))
    <2>1. m = Least(limit, Len(list)) /\ m \in 0..n
        BY <1>2, <1>4, <1>5, <1>6, <1>7 DEF Least
    <2> HIDE DEF m
    <2>2. SubSeq(boards, 1, m) = SubSeq(list, 1, m)
        <3>1. /\ SubSeq(boards, 1, m) \in Seq(Items)
              /\ Len(SubSeq(boards, 1, m)) = m
              /\ \A i \in 1..m : SubSeq(boards, 1, m)[i] = boards[i]
            BY <1>5, <2>1, FirstPart
        <3>2. m \in 0..Len(list)
            BY <1>4, <1>5, <2>1
        <3>3. /\ SubSeq(list, 1, m) \in Seq(Items)
              /\ Len(SubSeq(list, 1, m)) = m
              /\ \A i \in 1..m : SubSeq(list, 1, m)[i] = list[i]
            BY <1>1, <3>2, FirstPart
        <3>4. \A i \in 1..n : boards[i] = list[i]
            BY <1>1, <1>4, FirstPart
        <3>5. \A i \in 1..m : SubSeq(boards, 1, m)[i] = SubSeq(list, 1, m)[i]
            BY <3>1, <3>3, <3>4, <2>1, <1>4
        <3> QED BY <3>1, <3>3, <3>5, SeqEqual
    <2>3. call'.result = SubSeq(list, 1, Least(limit, Len(list)))
        BY <1>7, <2>1, <2>2 DEF m
    <2>4. Gathered'
        BY <1>1, <1>7, <2>3 DEF Gathered, Answers, Answered, limit
    <2>5. ReadSoFar'
        BY <1>7 DEF ReadSoFar
    <2> QED BY <2>4, <2>5
<1>8. CASE call'.at = "boards" /\ call'.start = n /\ call'.boards = boards
    <2>1. Gathered'
        BY <1>8 DEF Gathered, Answers, Answered
    <2>2. ReadSoFar'
        BY <1>1, <1>4, <1>5, <1>8 DEF ReadSoFar
    <2> QED BY <2>1, <2>2
<1> QED BY <1>1, <1>7, <1>8, BoardsGo DEF boards, limit, n

LEMMA HintsGathered ==
    ASSUME GatherInv, hintedPage
    PROVE  ReadSoFar' /\ Gathered'
<1>1. /\ TypeOK /\ ReadSoFar /\ call.at \in {"search", "comments"}
      /\ list \in Seq(Items) /\ list' = list /\ changes' = changes
    BY HintedGo DEF GatherInv, TypeOK, seen
<1> SUFFICES ASSUME changes = 0
             PROVE  ReadSoFar' /\ Gathered'
    BY <1>1 DEF ReadSoFar, Gathered, Answers
<1> DEFINE read == call.read \o HintedPage
           n    == call.start + Len(HintedPage)
<1>2. /\ call.start \in Nat /\ Len(HintedPage) \in Nat
      /\ PageIs(HintedPage, call.start)
    BY <1>1, HintedPageShape
<1>3. call.start <= Len(list) /\ call.read = SubSeq(list, 1, call.start)
    BY <1>1 DEF ReadSoFar
<1>4. /\ n \in 0..Len(list) /\ read = SubSeq(list, 1, n)
      /\ HintedPage = <<>> => n = Len(list)
      /\ n = Len(list) => read = list
    BY <1>1, <1>2, <1>3, ReadJoins
<1>5. Len(list) \in Nat
    BY <1>1, LenProperties
<1>6. ~Hint(HintedPage) => read = list
    BY <1>2, <1>4, <1>5 DEF Hint
<1> HIDE DEF read, n
<1>7. CASE /\ ~Hint(HintedPage)
           /\ call'.at = "answer" /\ call'.tool = call.at
           /\ call'.result = read
    BY <1>1, <1>6, <1>7 DEF ReadSoFar, Gathered, Answers, Answered
<1>8. CASE call'.at = call.at /\ call'.start = n /\ call'.read = read
    BY <1>1, <1>4, <1>5, <1>8 DEF ReadSoFar, Gathered, Answers, Answered
<1> QED BY <1>1, <1>7, <1>8, HintedGo DEF read, n

LEMMA FirstPageGathered ==
    ASSUME TypeOK, issuesPage \/ sprintsPage
    PROVE  ReadSoFar' /\ Gathered'
<1>1. /\ UNCHANGED seen
      /\ \/ call.at = "issues" /\ call'.at = "issues"
         \/ call'.at = "answer" /\ call'.tool \in {"issues", "sprints"}
    BY IssuesGo
<1>2. ReadSoFar'
    BY <1>1 DEF ReadSoFar
<1>3. /\ list \in Seq(Items) /\ list' = list
      /\ server' = server
    BY <1>1 DEF TypeOK, seen, issuesPage, sprintsPage
<1> DEFINE page == Served(0, Limit(call.asked))
           more == page # <<>> /\ Len(page) < Total
<1>4. /\ PageIs(page, 0) /\ PageIs(Served(0, DefaultLimit), 0)
    BY FirstPageShape DEF issuesPage, sprintsPage
<1>5. CASE sprintsPage
    <2>1. /\ call'.at = "answer" /\ call'.tool = "sprints"
          /\ call'.result = Served(0, DefaultLimit)
        BY <1>5 DEF sprintsPage, Answer
    <2>2. IsPrefix(call'.result, list)
        BY <1>3, <1>4, <2>1, FirstPagePrefix
    <2>3. Gathered'
        BY <1>3, <2>1, <2>2 DEF Gathered, Answers, Answered
    <2> QED BY <1>2, <2>3
<1>6. CASE issuesPage /\ Answer([issues |-> page, more |-> more])
    <2>1. call.at = "issues"
        BY <1>6 DEF issuesPage
    <2>2. IsPrefix(page, list)
        BY <1>3, <1>4, FirstPagePrefix
    <2>3. server.marks => (more <=> page # list)
        BY <1>3, <1>4, FirstPagePrefix DEF Total
    <2> HIDE DEF page, more
    <2>4. /\ call'.at = "answer" /\ call'.tool = "issues"
          /\ call'.result.issues = page /\ call'.result.more = more
        BY <1>6, <2>1 DEF Answer
    <2>5. Gathered'
        BY <1>3, <2>2, <2>3, <2>4 DEF Gathered, Answers, Answered
    <2> QED BY <1>2, <2>5
<1>7. CASE issuesPage /\ call' = [call EXCEPT !.asked = Total]
    <2>1. call \in Hinting /\ call.at = "issues"
        BY <1>7, FirstPageShape DEF issuesPage
    <2>2. call'.at = "issues"
        BY <2>1, <1>7 DEF Hinting
    <2>3. Gathered'
        BY <2>2 DEF Gathered, Answers, Answered
    <2> QED BY <1>2, <2>3
<1> QED BY <1>5, <1>6, <1>7 DEF issuesPage, sprintsPage

LEMMA GatherStep == GatherInv /\ [Next]_vars => GatherInv'
<1> SUFFICES ASSUME GatherInv, [Next]_vars
             PROVE  GatherInv'
    OBVIOUS
<1>1. TypeOK'
    BY StepTypes DEF GatherInv
<1>2. CASE boardsPage
    BY <1>1, <1>2, BoardsGathered DEF GatherInv
<1>3. CASE hintedPage
    BY <1>1, <1>3, HintsGathered DEF GatherInv
<1>4. CASE issuesPage \/ sprintsPage
    BY <1>1, <1>4, FirstPageGathered DEF GatherInv
<1>5. CASE Next /\ ~boardsPage /\ ~hintedPage /\ ~issuesPage /\ ~sprintsPage
    BY <1>1, <1>5, GatherAside DEF GatherInv
<1>6. CASE UNCHANGED vars
    BY <1>1, <1>6
       DEF vars, GatherInv, ReadSoFar, Gathered, Answers, Answered
<1> QED BY <1>2, <1>3, <1>4, <1>5, <1>6

-----------------------------------------------------------------------------
(* Pages of a list others change *)

LEMMA EntriesFinite ==
    ASSUME NEW l \in Seq(Items), NEW k, k \subseteq Range(l)
    PROVE  IsFiniteSet(k)
<1>1. Len(l) \in Nat /\ DOMAIN l = 1..Len(l)
    BY LenProperties
<1>2. IsFiniteSet(1..Len(l))
    BY <1>1, FS_Interval
<1>3. l \in Surjection(1..Len(l), Range(l))
    <2>1. l \in [1..Len(l) -> Range(l)]
        BY <1>1, LenProperties DEF Range
    <2>2. \A y \in Range(l) : \E x \in 1..Len(l) : l[x] = y
        BY <1>1 DEF Range
    <2> QED BY <2>1, <2>2 DEF Surjection
<1>4. IsFiniteSet(Range(l))
    BY <1>2, <1>3, FS_Surjection
<1> QED BY <1>4, FS_Subset

LEMMA GapFinite ==
    ASSUME NEW l \in Seq(Items), NEW k, k \subseteq Range(l), NEW n, NEW read
    PROVE  /\ IsFiniteSet(Gap(k, l, n, read))
           /\ Cardinality(Gap(k, l, n, read)) \in Nat
<1>1. Gap(k, l, n, read) \subseteq k
    BY DEF Gap
<1>2. IsFiniteSet(Gap(k, l, n, read))
    BY <1>1, EntriesFinite, FS_Subset
<1> QED BY <1>2, FS_CardinalityType

(* Nothing is missed before the first page, *)
LEMMA GapAtStart ==
    ASSUME NEW l \in Seq(Items), NEW k, NEW read
    PROVE  Cardinality(Gap(k, l, 0, read)) = 0
<1>1. Gap(k, l, 0, read) = {}
    BY LenProperties DEF Gap
<1> QED BY <1>1, FS_EmptySet

(* nothing more when the next page is read, *)
LEMMA GapAfterPage ==
    ASSUME NEW l \in Seq(Items), NEW k, k \subseteq Range(l), NEW n \in Nat,
           NEW read, NEW p \in Seq(Items),
           \A i \in 1..Len(p) : p[i] = l[n + i]
    PROVE  Cardinality(Gap(k, l, n + Len(p), read \union Range(p)))
               <= Cardinality(Gap(k, l, n, read))
<1>1. Len(l) \in Nat /\ Len(p) \in Nat
    BY LenProperties
<1>2. ASSUME NEW x \in k, x \notin read \union Range(p),
             NEW i \in 1..Len(l), i <= n + Len(p), l[i] = x
      PROVE  i <= n
    <2> SUFFICES ASSUME ~(i <= n) PROVE FALSE
        OBVIOUS
    <2>1. i - n \in 1..Len(p) /\ n + (i - n) = i
        BY <1>1, <1>2
    <2>2. p[i - n] = x
        BY <2>1, <1>2
    <2> QED BY <2>1, <2>2, <1>2, RangeEquality
<1>3. Gap(k, l, n + Len(p), read \union Range(p)) \subseteq Gap(k, l, n, read)
    BY <1>2 DEF Gap
<1> QED BY <1>3, GapFinite, FS_Subset

(* and at the end of the list these are all that is missing. *)
LEMMA GapAtEnd ==
    ASSUME NEW l \in Seq(Items), NEW k, k \subseteq Range(l), NEW n \in Nat,
           n >= Len(l), NEW read
    PROVE  Gap(k, l, n, read) = k \ read
<1>1. Len(l) \in Nat /\ Range(l) = {l[i] : i \in 1..Len(l)}
    BY LenProperties, RangeEquality
<1>2. \A x \in k : \E i \in 1..Len(l) : i <= n /\ l[i] = x
    BY <1>1
<1> QED BY <1>2 DEF Gap

(* A removed entry lets one other slip behind the next page, *)
LEMMA GapAfterRemoval ==
    ASSUME NEW l \in Seq(Items), NEW k, k \subseteq Range(l), NEW n \in Nat,
           NEW read, NEW i \in 1..Len(l), NEW m, m = RemoveAt(l, i)
    PROVE  Cardinality(Gap(k \intersect Range(m), m, n, read))
               <= Cardinality(Gap(k, l, n, read)) + 1
<1> DEFINE before == Gap(k, l, n, read)
           after  == Gap(k \intersect Range(m), m, n, read)
<1>1. /\ Len(l) \in Nat /\ Len(m) = Len(l) - 1
      /\ \A j \in 1..Len(l) - 1 : m[j] = IF j < i THEN l[j] ELSE l[j + 1]
    BY LenProperties, RemoveShape
<1>2. ASSUME NEW x \in after, x # l[n + 1]
      PROVE  x \in before
    <2>1. /\ x \in k /\ x \notin read
          /\ \E j \in 1..Len(m) : j <= n /\ m[j] = x
        BY DEF Gap
    <2>2. PICK j \in 1..Len(l) - 1 : j <= n /\ m[j] = x
        BY <1>1, <2>1
    <2>3. \E h \in 1..Len(l) : h <= n /\ l[h] = x
        <3>1. CASE j < i
            BY <3>1, <1>1, <2>2
        <3>2. CASE ~(j < i)
            <4>1. l[j + 1] = x
                BY <3>2, <1>1, <2>2
            <4>2. j # n
                BY <4>1, <1>2
            <4>3. j + 1 \in 1..Len(l) /\ j + 1 <= n
                BY <4>2, <1>1, <2>2
            <4> QED BY <4>1, <4>3
        <3> QED BY <3>1, <3>2
    <2> QED BY <2>1, <2>3 DEF Gap
<1>3. after \subseteq before \union {l[n + 1]}
    BY <1>2
<1> HIDE DEF after
<1>4. /\ IsFiniteSet(before) /\ Cardinality(before) \in Nat
    BY GapFinite
<1> HIDE DEF before
<1>5. /\ IsFiniteSet(before \union {l[n + 1]})
      /\ Cardinality(before \union {l[n + 1]}) <= Cardinality(before) + 1
    <2> DEFINE one == l[n + 1]
    <2> HIDE DEF one
    <2>1. /\ IsFiniteSet(before \union {one})
          /\ Cardinality(before \union {one}) =
                 IF one \in before THEN Cardinality(before)
                 ELSE Cardinality(before) + 1
        BY <1>4, FS_AddElement
    <2>2. /\ IsFiniteSet(before \union {one})
          /\ Cardinality(before \union {one}) <= Cardinality(before) + 1
        BY <1>4, <2>1
    <2> QED BY <2>2 DEF one
<1>6. /\ Cardinality(after) <= Cardinality(before \union {l[n + 1]})
      /\ Cardinality(after) \in Nat
      /\ Cardinality(before \union {l[n + 1]}) \in Nat
    BY <1>3, <1>5, FS_Subset, FS_CardinalityType
<1> QED BY <1>4, <1>5, <1>6 DEF before, after

(* an added one none. *)
LEMMA GapAfterAddition ==
    ASSUME NEW l \in Seq(Items), NEW k, k \subseteq Range(l), NEW n \in Nat,
           NEW read, NEW i \in 1..Len(l) + 1, NEW e \in Items \ Range(l),
           NEW m, m = InsertAt(l, i, e)
    PROVE  Cardinality(Gap(k \intersect Range(m), m, n, read))
               <= Cardinality(Gap(k, l, n, read)) + 1
<1> DEFINE before == Gap(k, l, n, read)
           after  == Gap(k \intersect Range(m), m, n, read)
<1>1. /\ Len(l) \in Nat /\ Len(m) = Len(l) + 1
      /\ \A j \in 1..Len(l) + 1 :
             m[j] = IF j < i THEN l[j] ELSE IF j = i THEN e ELSE l[j - 1]
    <2>1. e \in Items
        OBVIOUS
    <2>2. /\ Len(InsertAt(l, i, e)) = Len(l) + 1
          /\ \A j \in 1..Len(l) + 1 :
                 InsertAt(l, i, e)[j] =
                     IF j < i THEN l[j] ELSE IF j = i THEN e ELSE l[j - 1]
        BY <2>1, InsertShape
    <2>3. Len(l) \in Nat
        BY LenProperties
    <2> QED BY <2>2, <2>3
<1>2. ASSUME NEW x \in after
      PROVE  x \in before
    <2>1. /\ x \in k /\ x \notin read /\ x # e
          /\ \E j \in 1..Len(m) : j <= n /\ m[j] = x
        BY DEF Gap
    <2>2. PICK j \in 1..Len(l) + 1 : j <= n /\ m[j] = x
        BY <1>1, <2>1
    <2>3. \E h \in 1..Len(l) : h <= n /\ l[h] = x
        <3>1. CASE j < i
            BY <3>1, <1>1, <2>2
        <3>2. CASE ~(j < i)
            <4>1. j # i
                BY <3>2, <1>1, <2>1, <2>2
            <4>2. l[j - 1] = x
                BY <3>2, <4>1, <1>1, <2>2
            <4>3. j - 1 \in 1..Len(l) /\ j - 1 <= n
                BY <3>2, <4>1, <1>1, <2>2
            <4> QED BY <4>2, <4>3
        <3> QED BY <3>1, <3>2
    <2> QED BY <2>1, <2>3 DEF Gap
<1>3. after \subseteq before
    BY <1>2
<1>4. /\ IsFiniteSet(before) /\ Cardinality(before) \in Nat
    BY GapFinite
<1> HIDE DEF after, before
<1>5. Cardinality(after) <= Cardinality(before) /\ Cardinality(after) \in Nat
    BY <1>3, <1>4, FS_Subset, FS_CardinalityType
<1> QED BY <1>4, <1>5 DEF before, after

DriftInv == TypeOK /\ MissedSoFar /\ Drifted

LEMMA DriftStart == Init => MissedSoFar /\ Drifted
BY DEF Init, Idle, MissedSoFar, Drifted, Answered

LEMMA DriftAside ==
    ASSUME TypeOK, Next, ~boardsPage, ~hintedPage, ~fieldsPage, ~Edit
    PROVE  MissedSoFar' /\ Drifted'
<1>1. list' \in Seq(Items) /\ changes' \in Nat
    BY StepTypes DEF TypeOK
<1>2. ASSUME call'.start = 0 PROVE MissedSoFar'
    <2>1. \A read : Cardinality(Gap(kept', list', 0, read)) = 0
        BY <1>1, GapAtStart
    <2> QED BY <1>1, <1>2, <2>1 DEF MissedSoFar, Missed
<1>3. CASE Begin
    <2>1. call'.at # "answer" /\ call'.start = 0
        BY <1>3, BeginGo
    <2> QED BY <1>2, <2>1 DEF Drifted, Answered
<1>4. ASSUME call'.at \notin {"boards", "search", "comments", "fields"},
             call'.at = "answer" =>
                 call'.tool \notin {"boards", "search", "comments", "fields"}
      PROVE  MissedSoFar' /\ Drifted'
    BY <1>4 DEF MissedSoFar, Drifted, Answered
<1>5. CASE typesPage
    <2>1. CASE call'.at = "fields" /\ call'.start = 0
        BY <1>2, <2>1 DEF Drifted, Answered
    <2> QED BY <1>4, <1>5, <2>1, TypesGo
<1>6. CASE rankSearch \/ rankNext
    BY <1>4, <1>6, RankGo
<1>7. CASE issuesPage \/ sprintsPage
    BY <1>4, <1>7, IssuesGo
<1>8. CASE deliver \/ Fail
    BY <1>4, <1>8, StopGo
<1> QED BY <1>3, <1>5, <1>6, <1>7, <1>8 DEF Next, Step

LEMMA EditMisses ==
    ASSUME TypeOK, Edit, call.start \in Nat
    PROVE  \A read : Cardinality(Gap(kept, list, call.start, read)) <= changes
                     => Cardinality(Gap(kept', list', call'.start, read))
                            <= changes'
<1> SUFFICES ASSUME NEW read,
                    Cardinality(Gap(kept, list, call.start, read)) <= changes
             PROVE  Cardinality(Gap(kept', list', call'.start, read))
                        <= changes'
    OBVIOUS
<1>1. /\ list \in Seq(Items) /\ kept \subseteq Range(list)
      /\ changes \in Nat
    BY DEF TypeOK
<1>2. /\ kept' = kept \intersect Range(list') /\ call' = call
      /\ changes' = changes + 1
      /\ \/ \E i \in 1..Len(list) : list' = RemoveAt(list, i)
         \/ \E i \in 1..Len(list) + 1, x \in Items \ Range(list) :
                list' = InsertAt(list, i, x)
    BY DEF Edit
<1>3. Cardinality(Gap(kept \intersect Range(list'), list', call.start, read))
          <= Cardinality(Gap(kept, list, call.start, read)) + 1
    BY <1>1, <1>2, GapAfterRemoval, GapAfterAddition
<1>4. list' \in Seq(Items) /\ kept' \subseteq Range(list')
    BY EditTypes DEF TypeOK
<1>5. /\ Cardinality(Gap(kept, list, call.start, read)) \in Nat
      /\ Cardinality(Gap(kept', list', call.start, read)) \in Nat
    BY <1>1, <1>4, GapFinite
<1> QED BY <1>1, <1>2, <1>3, <1>5

LEMMA DriftEdited ==
    ASSUME DriftInv, Edit
    PROVE  MissedSoFar' /\ Drifted'
<1>1. TypeOK /\ MissedSoFar /\ call' = call /\ call.at # "answer"
    BY DEF DriftInv, Edit
<1>2. call.at \in {"boards", "search", "comments", "fields"} =>
          call.start \in Nat
    BY <1>1, CallKinds DEF Boarding, Hinting, Fielding
<1>3. MissedSoFar'
    BY <1>1, <1>2, EditMisses DEF MissedSoFar, Missed
<1>4. Drifted'
    BY <1>1 DEF Drifted, Answered
<1> QED BY <1>3, <1>4

(* A page more, on whatever list there is now. *)
LEMMA PageMisses ==
    ASSUME TypeOK, call.start \in Nat, NEW p, PageIs(p, call.start), NEW read,
           Cardinality(Gap(kept, list, call.start, read)) <= changes
    PROVE  LET n    == call.start + Len(p)
               more == read \union Range(p)
           IN  /\ Cardinality(Gap(kept, list, n, more)) <= changes
               /\ p = <<>> \/ n >= Len(list) =>
                      Cardinality(kept \ more) <= changes
<1> DEFINE n    == call.start + Len(p)
           more == read \union Range(p)
<1>1. /\ list \in Seq(Items) /\ kept \subseteq Range(list)
      /\ changes \in Nat
    BY DEF TypeOK
<1>2. /\ p \in Seq(Items) /\ \A i \in 1..Len(p) : p[i] = list[call.start + i]
    BY DEF PageIs
<1>3. n \in Nat /\ Len(list) \in Nat /\ Len(p) \in Nat
    BY <1>1, <1>2, LenProperties
<1>4. Cardinality(Gap(kept, list, n, more))
          <= Cardinality(Gap(kept, list, call.start, read))
    BY <1>1, <1>2, GapAfterPage
<1>5. /\ Cardinality(Gap(kept, list, n, more)) \in Nat
      /\ Cardinality(Gap(kept, list, call.start, read)) \in Nat
    BY <1>1, GapFinite
<1>6. p = <<>> => n >= Len(list)
    BY <1>3 DEF PageIs
<1> HIDE DEF n, more
<1>7. n >= Len(list) => Gap(kept, list, n, more) = kept \ more
    BY <1>1, <1>3, GapAtEnd
<1>8. Cardinality(Gap(kept, list, n, more)) <= changes
    BY <1>1, <1>4, <1>5
<1> QED BY <1>6, <1>7, <1>8 DEF n, more

LEMMA HintsDrift ==
    ASSUME DriftInv, hintedPage
    PROVE  MissedSoFar' /\ Drifted'
<1>1. /\ TypeOK /\ MissedSoFar /\ call.at \in {"search", "comments"}
      /\ list' = list /\ kept' = kept /\ changes' = changes
    BY HintedGo DEF DriftInv, seen
<1> DEFINE read == call.read \o HintedPage
           n    == call.start + Len(HintedPage)
<1>2. /\ call.start \in Nat /\ PageIs(HintedPage, call.start)
      /\ call.read \in Seq(Items) /\ HintedPage \in Seq(Items)
      /\ Len(HintedPage) \in Nat /\ Len(list) \in Nat
    BY <1>1, HintedPageShape, LenProperties DEF TypeOK
<1>3. Range(read) = Range(call.read) \union Range(HintedPage)
    BY <1>2, RangeConcatenation
<1>4. /\ Cardinality(Gap(kept, list, n, Range(read))) <= changes
      /\ HintedPage = <<>> \/ n >= Len(list) =>
             Cardinality(kept \ Range(read)) <= changes
    <2>1. Cardinality(Gap(kept, list, call.start, Range(call.read))) <= changes
        BY <1>1 DEF MissedSoFar, Missed
    <2> QED BY <1>1, <1>2, <1>3, <2>1, PageMisses
<1>5. ~Hint(HintedPage) => HintedPage = <<>> \/ n >= Len(list)
    BY <1>2 DEF Hint
<1> HIDE DEF read, n
<1>6. CASE /\ ~Hint(HintedPage)
           /\ call'.at = "answer" /\ call'.tool = call.at
           /\ call'.result = read
    BY <1>1, <1>4, <1>5, <1>6 DEF MissedSoFar, Drifted, Answered
<1>7. CASE call'.at = call.at /\ call'.start = n /\ call'.read = read
    BY <1>1, <1>4, <1>7 DEF MissedSoFar, Missed, Drifted, Answered
<1> QED BY <1>1, <1>6, <1>7, HintedGo DEF read, n

LEMMA FieldsDrift ==
    ASSUME DriftInv, fieldsPage
    PROVE  MissedSoFar' /\ Drifted'
<1>1. /\ TypeOK /\ MissedSoFar /\ call.at = "fields"
      /\ list' = list /\ kept' = kept /\ changes' = changes
    BY FieldsGo DEF DriftInv, seen
<1> DEFINE fields == call.fields \union Range(MetadataPage)
           n      == call.start + Len(MetadataPage)
<1>2. /\ call.start \in Nat /\ PageIs(MetadataPage, call.start)
    BY <1>1, MetadataPageShape
<1>3. /\ Cardinality(Gap(kept, list, n, fields)) <= changes
      /\ MetadataPage = <<>> \/ n >= Len(list) =>
             Cardinality(kept \ fields) <= changes
    <2>1. Cardinality(Gap(kept, list, call.start, call.fields)) <= changes
        BY <1>1 DEF MissedSoFar, Missed
    <2> QED BY <1>1, <1>2, <2>1, PageMisses
<1>4. MetadataEnds(MetadataPage) => MetadataPage = <<>> \/ n >= Len(list)
    BY DEF MetadataEnds
<1> HIDE DEF fields, n
<1>5. CASE /\ MetadataEnds(MetadataPage)
           /\ call'.at = "answer" /\ call'.tool = "fields"
           /\ call'.result = fields
    BY <1>1, <1>3, <1>4, <1>5 DEF MissedSoFar, Drifted, Answered
<1>6. CASE call'.at = "fields" /\ call'.start = n /\ call'.fields = fields
    BY <1>1, <1>3, <1>6 DEF MissedSoFar, Missed, Drifted, Answered
<1> QED BY <1>1, <1>5, <1>6, FieldsGo DEF fields, n

LEMMA BoardsDrift ==
    ASSUME DriftInv, boardsPage
    PROVE  MissedSoFar' /\ Drifted'
<1>1. /\ TypeOK /\ MissedSoFar /\ call.at = "boards"
      /\ list' = list /\ kept' = kept /\ changes' = changes
      /\ call'.asked = call.asked
    BY BoardsGo DEF DriftInv, seen
<1> DEFINE boards == call.boards \o BoardsPage
           limit  == Limit(call.asked)
           n      == call.start + Len(BoardsPage)
<1>2. /\ call.start \in Nat /\ PageIs(BoardsPage, call.start)
      /\ call.boards \in Seq(Items) /\ BoardsPage \in Seq(Items)
      /\ boards \in Seq(Items) /\ Len(boards) \in Nat
      /\ limit \in Nat \ {0}
    BY <1>1, BoardsPageShape, LenProperties
<1>3. Range(boards) = Range(call.boards) \union Range(BoardsPage)
    BY <1>2, RangeConcatenation
<1>4. /\ Cardinality(Gap(kept, list, n, Range(boards))) <= changes
      /\ BoardsPage = <<>> \/ n >= Len(list) =>
             Cardinality(kept \ Range(boards)) <= changes
    <2>1. Cardinality(Gap(kept, list, call.start, Range(call.boards)))
              <= changes
        BY <1>1 DEF MissedSoFar, Missed
    <2> QED BY <1>1, <1>2, <1>3, <2>1, PageMisses
<1>5. BoardsEnd => BoardsPage = <<>> \/ n >= Len(list)
    BY DEF BoardsEnd, IsLast
<1> HIDE DEF boards, n, limit
<1>6. CASE /\ BoardsEnd \/ Len(boards) >= limit
           /\ call'.at = "answer" /\ call'.tool = "boards"
           /\ call'.result = SubSeq(boards, 1, Least(limit, Len(boards)))
    <2> DEFINE result == SubSeq(boards, 1, Least(limit, Len(boards)))
    <2>1. Least(limit, Len(boards)) \in 0..Len(boards)
        BY <1>2 DEF Least
    <2>2. Len(result) = Least(limit, Len(boards))
        BY <1>2, <2>1, FirstPart
    <2>3. ASSUME Len(result) < limit
          PROVE  result = boards /\ BoardsEnd
        <3>1. Least(limit, Len(boards)) = Len(boards) /\ Len(boards) < limit
            <4> HIDE DEF result
            <4> QED BY <1>2, <2>2, <2>3 DEF Least
        <3>2. result = boards
            BY <1>2, <3>1, SubSeqFull
        <3> QED BY <1>2, <1>6, <3>1, <3>2
    <2> HIDE DEF result
    <2>4. call'.result = result
        BY <1>6 DEF result
    <2>5. Drifted'
        BY <1>1, <1>4, <1>5, <1>6, <2>3, <2>4 DEF Drifted, Answered, limit
    <2>6. MissedSoFar'
        BY <1>6 DEF MissedSoFar
    <2> QED BY <2>5, <2>6
<1>7. CASE call'.at = "boards" /\ call'.start = n /\ call'.boards = boards
    BY <1>1, <1>4, <1>7 DEF MissedSoFar, Missed, Drifted, Answered
<1> QED BY <1>1, <1>6, <1>7, BoardsGo DEF boards, limit, n

LEMMA DriftStep == DriftInv /\ [Next]_vars => DriftInv'
<1> SUFFICES ASSUME DriftInv, [Next]_vars
             PROVE  DriftInv'
    OBVIOUS
<1>1. TypeOK'
    BY StepTypes DEF DriftInv
<1>2. CASE boardsPage
    BY <1>1, <1>2, BoardsDrift DEF DriftInv
<1>3. CASE hintedPage
    BY <1>1, <1>3, HintsDrift DEF DriftInv
<1>4. CASE fieldsPage
    BY <1>1, <1>4, FieldsDrift DEF DriftInv
<1>5. CASE Edit
    BY <1>1, <1>5, DriftEdited DEF DriftInv
<1>6. CASE Next /\ ~boardsPage /\ ~hintedPage /\ ~fieldsPage /\ ~Edit
    BY <1>1, <1>6, DriftAside DEF DriftInv
<1>7. CASE UNCHANGED vars
    BY <1>1, <1>7
       DEF vars, DriftInv, MissedSoFar, Missed, Drifted, Answered
<1> QED BY <1>2, <1>3, <1>4, <1>5, <1>6, <1>7

(* ListBoards and whoever follows the hints of a search or of comments     *)
(* have every entry once, in order, up to the limit, and who reads issues  *)
(* is told whether there are more; when other users edit the list between  *)
(* two pages, each of their edits hides at most one entry that was there   *)
(* all along.                                                              *)
THEOREM PagesAddUp == Spec => []PagesExact
<1>1. Init => GatherInv /\ DriftInv
    BY TypesStart, GatherStart, DriftStart DEF GatherInv, DriftInv
<1>2. GatherInv /\ DriftInv => PagesExact
    BY DEF GatherInv, DriftInv, PagesExact
<1> QED BY <1>1, <1>2, GatherStep, DriftStep, PTL DEF Spec

=============================================================================
