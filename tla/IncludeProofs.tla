---------------------------- MODULE IncludeProofs -----------------------------
(***************************************************************************)
(* Proof, for every set of files and every way they include each other,     *)
(* that the calls of open_file put the lines of every file where            *)
(* AssemblerProperties says they belong.                                    *)
(***************************************************************************)
EXTENDS AssemblerProofs

-----------------------------------------------------------------------------
(* The calls of open_file. *)

\* The items of f before this one, and this one, have been read.
PassedIn(s, files, f, i) ==
  /\ f \in files /\ i \in DOMAIN ItemsIn(f)
  /\ \A d \in 1..Len(s) : s[d].file = f => i < Position(s[d]).item

\* A call of open_file has read its file up to its position; it was made, by way
\* of other calls perhaps, by those below it, and no two read the same file.
FrameAt(s, files, d) ==
  /\ s[d].file \in files
  /\ Len(s[d].rest) <= Len(ItemsIn(s[d].file))
  /\ \A m \in 1..Len(s[d].rest) :
       s[d].rest[m] = ItemsIn(s[d].file)[Position(s[d]).item - 1 + m]
  /\ \A c \in 1..(d - 1) : s[c].file # s[d].file /\ s[d].file \in Reached(s[c].file)

FramesOK(s, files) == \A d \in 1..Len(s) : FrameAt(s, files, d)

\* The lines read are those of the items passed.
Sites == [file : Files, item : Nat]

LineFrom(s, files, line, site) ==
  /\ PassedIn(s, files, site.file, site.item) /\ LineAt(site.file, site.item)
  /\ line = ItemsIn(site.file)[site.item].line

LinesOK(s, files, read, sites) ==
  /\ sites \in Seq(Sites) /\ Len(read) = Len(sites)
  /\ \A k \in 1..Len(sites) : LineFrom(s, files, read[k], sites[k])
  /\ \A f \in Files : \A j \in DOMAIN ItemsIn(f) :
       PassedIn(s, files, f, j) /\ LineAt(f, j) =>
         \E k \in 1..Len(sites) : sites[k] = [file |-> f, item |-> j]
  /\ \A k, l \in 1..Len(sites) :
       k < l /\ sites[k].file = sites[l].file => sites[k].item < sites[l].item

\* A file has been entered exactly if it is the source or was named by an item
\* passed.
FilesOK(s, files) ==
  /\ files \subseteq Reached(Main)
  /\ \A f \in Files : \A i \in DOMAIN ItemsIn(f) :
       PassedIn(s, files, f, i) /\ ItemsIn(f)[i].kind = "include" =>
         RealPath[ItemsIn(f)[i].path] \in files
  /\ \A g \in files \ {Main} : \E h \in files : \E i \in DOMAIN ItemsIn(h) :
       PassedIn(s, files, h, i) /\ Names(h, i, g)

\* A file named before a line that was read is not being read any more; and what
\* has been read since the first line of a file that is still being read is what it
\* leads to.
OrderOK(s, files, sites) ==
  /\ \A k, l \in 1..Len(sites) :
       LET f == sites[k].file   g == sites[l].file IN
       \A i \in DOMAIN ItemsIn(f) : Names(f, i, g) =>
         /\ i < sites[k].item => l < k \/ f \in Reached(g)
         /\ l < k /\ sites[k].item < i =>
              \/ g = Main
              \/ \E h \in files : \E j \in DOMAIN ItemsIn(h) : Names(h, j, g) /\ (h # f \/ j # i)
  /\ \A k \in 1..Len(sites) : \A i \in DOMAIN ItemsIn(sites[k].file) : \A d \in 1..Len(s) :
       i < sites[k].item /\ Names(sites[k].file, i, s[d].file) =>
         sites[k].file \in Reached(s[d].file)
  /\ \A k, m, l \in 1..Len(sites) :
       k < m /\ m < l /\ sites[k].file = sites[l].file => sites[m].file \in Reached(sites[k].file)
  /\ \A k, m \in 1..Len(sites) : \A d \in 1..Len(s) :
       k < m /\ s[d].file = sites[k].file => sites[m].file \in Reached(s[d].file)

Expansion(s, files, read, sites) ==
  FramesOK(s, files) /\ LinesOK(s, files, read, sites) /\ FilesOK(s, files) /\ OrderOK(s, files, sites)

ExpansionInv ==
  stage # "failed" =>
    /\ Expansion(stack, included, lines, origins)
    /\ stage = "open" => included = {} /\ stack = <<>> /\ origins = <<>>
    /\ stage # "open" => Main \in included
    /\ Expanded => stack = <<>>

-----------------------------------------------------------------------------
(* Files that lead to files. *)

LEMMA ReachedSelf == ASSUME NEW f \in Files PROVE f \in Reached(f)
BY DEF Reached

LEMMA ReachedFiles == ASSUME NEW f, NEW g \in Reached(f) PROVE g \in Files
BY DEF Reached

LEMMA ReachedFrom ==
  ASSUME NEW f, NEW g \in Reached(f), NEW h \in Reached(g)
  PROVE  h \in Reached(f)
BY DEF Reached

LEMMA ReachedNext ==
  ASSUME NEW f, NEW g \in Reached(f), NEW i \in DOMAIN ItemsIn(g),
         ItemsIn(g)[i].kind = "include", RealPath[ItemsIn(g)[i].path] \in Files
  PROVE  RealPath[ItemsIn(g)[i].path] \in Reached(f)
<1> DEFINE h == RealPath[ItemsIn(g)[i].path]
<1>1. ASSUME NEW files \in SUBSET Files, f \in files, Closed(files) PROVE h \in files
  <2>1. g \in files
    BY <1>1 DEF Reached
  <2> QED BY <1>1, <2>1 DEF Closed
<1> QED BY <1>1 DEF Reached

LEMMA ReachedLeast ==
  ASSUME NEW files \in SUBSET Files, Closed(files), NEW f \in files
  PROVE  Reached(f) \subseteq files
BY DEF Reached

-----------------------------------------------------------------------------
(* What a call has read. *)

\* The items of the files are what a source holds.
LEMMA ItemsAreItems ==
  ASSUME RunTypes, NEW f \in Files
  PROVE  /\ ItemsIn(f) \in Seq(Items) /\ Len(ItemsIn(f)) \in Nat
         /\ DOMAIN ItemsIn(f) = 1..Len(ItemsIn(f))
<1>1. original[f] \in {Absent} \cup SourceFiles
  BY DEF RunTypes
<1>2. ItemsIn(f) \in Seq(Items)
  <2>1. CASE original[f] = Absent
    <3>1. original[f].items = <<>>
      BY <2>1 DEF Absent, Contents
    <3> QED BY <3>1 DEF ItemsIn
  <2>2. CASE original[f] \in SourceFiles
    BY <2>2 DEF SourceFiles, ItemsIn
  <2> QED BY <1>1, <2>1, <2>2
<1> QED BY <1>2

\* The next item of the innermost call.
Here == Position(Top).item

LEMMA TopIsHere ==
  ASSUME RunTypes, FramesOK(stack, included), stack # <<>>
  PROVE  LET t == Top.file IN
         /\ Len(stack) \in Nat \ {0} /\ Top = stack[Len(stack)] /\ Top \in Frames
         /\ t \in Files /\ t \in included
         /\ Here \in 1..(Len(ItemsIn(t)) + 1)
         /\ Top.rest = <<>> <=> Here = Len(ItemsIn(t)) + 1
         /\ Top.rest # <<>> => Here \in DOMAIN ItemsIn(t) /\ Item = ItemsIn(t)[Here]
<1> DEFINE t == Top.file   n == Len(stack)   size == Len(ItemsIn(t))   unread == Len(Top.rest)
<1>1. /\ n \in Nat \ {0} /\ Top = stack[n] /\ Top \in Frames
  BY DEF RunTypes, Top, Last
<1>2. t \in Files /\ Top.rest \in Seq(Items) /\ unread \in Nat
  BY <1>1 DEF Frames
<1>3. FrameAt(stack, included, n)
  BY <1>1 DEF FramesOK
<1>4. /\ t \in included /\ unread <= size
      /\ \A m \in 1..unread : Top.rest[m] = ItemsIn(t)[Here - 1 + m]
  BY <1>1, <1>3 DEF FrameAt, Here
<1>5. Here = size - unread + 1
  BY DEF Here, Position, ItemsIn
<1>6. size \in Nat /\ DOMAIN ItemsIn(t) = 1..size
  BY <1>2, ItemsAreItems
<1>7. Top.rest = <<>> <=> unread = 0
  BY <1>2
<1>8. ASSUME Top.rest # <<>> PROVE Here \in DOMAIN ItemsIn(t) /\ Item = ItemsIn(t)[Here]
  <2>1. unread \in Nat \ {0}
    BY <1>2, <1>7, <1>8
  <2>2. Item = Top.rest[1]
    BY <1>2, <1>8 DEF Item
  <2> HIDE DEF size, unread, t
  <2>3. Top.rest[1] = ItemsIn(t)[Here - 1 + 1] /\ Here - 1 + 1 = Here
    BY <1>4, <1>5, <1>6, <2>1
  <2> QED BY <1>4, <1>5, <1>6, <2>1, <2>2, <2>3
<1> HIDE DEF size, unread, t
<1>9. Here \in 1..(size + 1) /\ (unread = 0 <=> Here = size + 1)
  BY <1>2, <1>4, <1>5, <1>6
<1> QED BY <1>1, <1>2, <1>4, <1>7, <1>8, <1>9 DEF size, unread, t

\* An item more has been read.
LEMMA AdvancedPasses ==
  ASSUME RunTypes, FramesOK(stack, included), stack # <<>>, Top.rest # <<>>
  PROVE  LET t == Top.file IN
         /\ FramesOK(Advanced, included)
         /\ Len(Advanced) = Len(stack)
         /\ \A d \in 1..Len(stack) : Advanced[d].file = stack[d].file
         /\ \A f \in Files : \A i \in DOMAIN ItemsIn(f) :
              PassedIn(Advanced, included, f, i) <=>
                PassedIn(stack, included, f, i) \/ (f = t /\ i = Here)
<1> DEFINE t == Top.file   n == Len(stack)   frame == [Top EXCEPT !.rest = Tail(@)]
           size == Len(ItemsIn(t))
<1>1. /\ n \in Nat \ {0} /\ Top = stack[n] /\ Top \in Frames
      /\ t \in Files /\ t \in included /\ Here \in 1..size
  BY TopIsHere, ItemsAreItems
<1>2. /\ Top.rest \in Seq(Items) /\ Len(Top.rest) \in Nat \ {0}
      /\ frame = [file |-> t, rest |-> Tail(Top.rest)]
      /\ frame.file = t /\ frame.rest = Tail(Top.rest)
  <2>1. Top.rest \in Seq(Items) /\ Top = [file |-> t, rest |-> Top.rest]
    BY <1>1 DEF Frames
  <2>2. Len(Top.rest) \in Nat \ {0}
    BY <2>1
  <2>3. frame = [file |-> t, rest |-> Tail(Top.rest)]
    BY <2>1
  <2> QED BY <2>1, <2>2, <2>3
<1>3. /\ Len(frame.rest) = Len(Top.rest) - 1
      /\ \A m \in 1..Len(frame.rest) : frame.rest[m] = Top.rest[m + 1]
  BY <1>2
<1>4. Position(frame).item = Here + 1 /\ size \in Nat /\ Here = size - Len(Top.rest) + 1
  <2>1. size \in Nat
    BY <1>1, ItemsAreItems
  <2>2. /\ Position(frame).item = size - Len(frame.rest) + 1
        /\ Here = size - Len(Top.rest) + 1
    BY <1>2 DEF Position, Here, ItemsIn
  <2>3. Len(frame.rest) = Len(Top.rest) - 1 /\ Len(Top.rest) \in Nat
    BY <1>2, <1>3
  <2> HIDE DEF size, frame
  <2> QED BY <2>1, <2>2, <2>3
<1>5. /\ Advanced = Append(Front(stack), frame)
      /\ Front(stack) = [d \in 1..(n - 1) |-> stack[d]] /\ Front(stack) \in Seq(Frames)
      /\ Len(Front(stack)) = n - 1
  <2>1. Front(stack) \in Seq(Frames)
    BY <1>1, TopFrame DEF RunTypes
  <2>2. Front(stack) = [d \in 1..(n - 1) |-> stack[d]]
    BY <1>1 DEF Front
  <2> QED BY <1>1, <2>1, <2>2 DEF Advanced
<1>6. frame \in Frames
  BY <1>1, <1>2 DEF Frames
<1> HIDE DEF frame
<1>7. /\ Advanced \in Seq(Frames) /\ Len(Advanced) = n /\ Advanced[n] = frame
      /\ \A d \in 1..(n - 1) : Advanced[d] = stack[d]
  BY <1>1, <1>5, <1>6, AppendProperties
<1> HIDE DEF size, n, t
<1>8. \A d \in 1..n : Advanced[d].file = stack[d].file
  BY <1>1, <1>2, <1>7 DEF t
<1>9. \A d \in 1..n : FrameAt(stack, included, d)
  BY DEF FramesOK, n
<1>10. ASSUME NEW d \in 1..n PROVE FrameAt(Advanced, included, d)
  <2>1. CASE d # n
    <3>1. d \in 1..(n - 1) /\ Advanced[d] = stack[d] /\ \A c \in 1..(d - 1) : Advanced[c] = stack[c]
      BY <1>1, <1>7, <2>1
    <3> QED BY <1>9, <3>1 DEF FrameAt
  <2>2. CASE d = n
    <3>1. FrameAt(stack, included, n) /\ stack[n].file = t /\ stack[n].rest = Top.rest
      BY <1>1, <1>9 DEF t
    <3>2. \A m \in 1..Len(Top.rest) : Top.rest[m] = ItemsIn(t)[Here - 1 + m]
      BY <1>1, <3>1 DEF FrameAt, Here
    <3>3. ASSUME NEW m \in 1..Len(frame.rest)
          PROVE  frame.rest[m] = ItemsIn(t)[Position(frame).item - 1 + m]
      <4>1. m + 1 \in 1..Len(Top.rest) /\ Here - 1 + (m + 1) = (Here + 1) - 1 + m
        BY <1>1, <1>2, <1>3
      <4> QED BY <1>3, <1>4, <3>2, <4>1
    <3>4. Len(frame.rest) <= Len(ItemsIn(t))
      BY <1>1, <1>2, <1>3, <1>4 DEF size
    <3>5. \A c \in 1..(n - 1) : Advanced[c].file # t /\ t \in Reached(Advanced[c].file)
      BY <1>1, <1>7, <3>1 DEF FrameAt
    <3> QED BY <1>1, <1>2, <1>7, <2>2, <3>3, <3>4, <3>5 DEF FrameAt
  <2> QED BY <2>1, <2>2
<1>11. FramesOK(Advanced, included)
  BY <1>7, <1>10 DEF FramesOK
<1>12. \A c \in 1..(n - 1) : stack[c].file # t
  <2>1. FrameAt(stack, included, n) /\ stack[n].file = t
    BY <1>1, <1>9 DEF t
  <2> QED BY <2>1 DEF FrameAt
<1>13. ASSUME NEW f \in Files, NEW i \in DOMAIN ItemsIn(f)
       PROVE  PassedIn(Advanced, included, f, i) <=>
                PassedIn(stack, included, f, i) \/ (f = t /\ i = Here)
  <2>1. i \in Nat
    BY ItemsAreItems
  <2>2. Position(stack[n]).item = Here /\ stack[n].file = t
    BY <1>1 DEF Here, t
  <2>3. CASE f # t
    <3>1. \A d \in 1..n : Advanced[d].file = f => Advanced[d] = stack[d]
      BY <1>1, <1>2, <1>7, <2>3
    <3> QED BY <1>7, <1>8, <2>3, <3>1 DEF PassedIn, n
  <2>4. CASE f = t
    <3>1. PassedIn(stack, included, f, i) <=> i < Here
      BY <1>1, <1>12, <2>2, <2>4 DEF PassedIn, n
    <3>2. PassedIn(Advanced, included, f, i) <=> i < Here + 1
      <4>1. \A d \in 1..(n - 1) : Advanced[d].file # f
        BY <1>7, <1>12, <2>4
      <4>2. Advanced[n].file = f /\ Position(Advanced[n]).item = Here + 1
        BY <1>2, <1>4, <1>7, <2>4
      <4>3. \A d \in 1..n : d = n \/ d \in 1..(n - 1)
        BY <1>1
      <4> QED BY <1>1, <1>7, <2>4, <4>1, <4>2, <4>3 DEF PassedIn
    <3> QED BY <1>1, <2>1, <2>4, <3>1, <3>2
  <2> QED BY <2>3, <2>4
<1> QED BY <1>7, <1>8, <1>11, <1>13 DEF n, t

\* A call that has read its file returns, and every item stays read.
LEMMA ReturnPasses ==
  ASSUME RunTypes, FramesOK(stack, included), stack # <<>>, Top.rest = <<>>
  PROVE  /\ FramesOK(Front(stack), included)
         /\ Len(Front(stack)) = Len(stack) - 1
         /\ \A d \in 1..(Len(stack) - 1) : Front(stack)[d].file = stack[d].file
         /\ \A f \in Files : \A i \in DOMAIN ItemsIn(f) :
              PassedIn(Front(stack), included, f, i) <=> PassedIn(stack, included, f, i)
<1> DEFINE t == Top.file   n == Len(stack)   s == Front(stack)
<1>1. /\ n \in Nat \ {0} /\ Top = stack[n]
      /\ t \in Files /\ t \in included /\ Here = Len(ItemsIn(t)) + 1
  BY TopIsHere
<1>2. s = [d \in 1..(n - 1) |-> stack[d]] /\ s \in Seq(Frames) /\ Len(s) = n - 1
  <2>1. s = [d \in 1..(n - 1) |-> stack[d]]
    BY <1>1 DEF Front
  <2>2. s \in Seq(Frames)
    BY TopFrame DEF RunTypes
  <2> QED BY <1>1, <2>1, <2>2
<1>3. \A d \in 1..(n - 1) : s[d] = stack[d] /\ d \in 1..n
  BY <1>1, <1>2
<1> HIDE DEF s
<1>4. FramesOK(s, included)
  <2>1. ASSUME NEW d \in 1..(n - 1) PROVE FrameAt(s, included, d)
    <3>1. FrameAt(stack, included, d) /\ s[d] = stack[d] /\ \A c \in 1..(d - 1) : s[c] = stack[c]
      BY <1>1, <1>3 DEF FramesOK
    <3> QED BY <3>1 DEF FrameAt
  <2> QED BY <1>2, <2>1 DEF FramesOK
<1>5. ASSUME NEW f \in Files, NEW i \in DOMAIN ItemsIn(f)
      PROVE  PassedIn(s, included, f, i) <=> PassedIn(stack, included, f, i)
  <2>1. i \in 1..Len(ItemsIn(f)) /\ Len(ItemsIn(f)) \in Nat
    BY ItemsAreItems
  <2>2. stack[n].file = f => i < Position(stack[n]).item
    BY <1>1, <2>1 DEF Here
  <2>3. \A d \in 1..n : d = n \/ d \in 1..(n - 1)
    BY <1>1
  <2> QED BY <1>2, <1>3, <2>2, <2>3 DEF PassedIn, n
<1> QED BY <1>2, <1>3, <1>4, <1>5 DEF s

\* A call to open_file for a file not met before has read nothing of it.
LEMMA PushPasses ==
  ASSUME RunTypes, disk = original, NEW s \in Seq(Frames), FramesOK(s, included),
         NEW g \in Files, g \notin included,
         \A d \in 1..Len(s) : g \in Reached(s[d].file)
  PROVE  /\ FramesOK(Push(s, g), included \cup {g})
         /\ Len(Push(s, g)) = Len(s) + 1 /\ Push(s, g)[Len(s) + 1].file = g
         /\ \A d \in 1..Len(s) : Push(s, g)[d] = s[d]
         /\ \A f \in Files : \A i \in DOMAIN ItemsIn(f) :
              PassedIn(Push(s, g), included \cup {g}, f, i) <=> PassedIn(s, included, f, i)
<1> DEFINE n == Len(s)   frame == [file |-> g, rest |-> ItemsIn(g)]   p == Push(s, g)
           size == Len(ItemsIn(g))
<1>1. ItemsIn(g) \in Seq(Items) /\ size \in Nat /\ n \in Nat
  BY ItemsAreItems
<1>2. p = Append(s, frame)
  BY DEF Push, ItemsIn
<1>3. frame \in Frames /\ frame.file = g /\ frame.rest = ItemsIn(g)
  BY <1>1 DEF Frames
<1>4. Position(frame).item = 1
  BY <1>1, <1>3 DEF Position, ItemsIn
<1> HIDE DEF frame, p, size
<1>5. Len(p) = n + 1 /\ p[n + 1] = frame /\ \A d \in 1..n : p[d] = s[d]
  BY <1>1, <1>2, <1>3, AppendProperties
<1>6. \A d \in 1..n : FrameAt(s, included, d) /\ s[d].file \in included
  BY DEF FramesOK, FrameAt
<1>7. ASSUME NEW d \in 1..(n + 1) PROVE FrameAt(p, included \cup {g}, d)
  <2>1. CASE d \in 1..n
    <3>1. FrameAt(s, included, d) /\ p[d] = s[d] /\ \A c \in 1..(d - 1) : p[c] = s[c]
      BY <1>1, <1>5, <1>6, <2>1
    <3> QED BY <3>1 DEF FrameAt
  <2>2. CASE d = n + 1
    <3>1. \A c \in 1..n : p[c].file # g /\ g \in Reached(p[c].file)
      BY <1>5, <1>6
    <3>2. Len(frame.rest) <= Len(ItemsIn(g))
      BY <1>1, <1>3 DEF size
    <3>3. \A m \in 1..Len(frame.rest) : frame.rest[m] = ItemsIn(g)[Position(frame).item - 1 + m]
      BY <1>1, <1>3, <1>4
    <3>4. (n + 1) - 1 = n
      BY <1>1
    <3> QED BY <1>3, <1>5, <2>2, <3>1, <3>2, <3>3, <3>4 DEF FrameAt
  <2> QED BY <1>1, <2>1, <2>2
<1>8. FramesOK(p, included \cup {g})
  BY <1>5, <1>7 DEF FramesOK
<1>9. ASSUME NEW f \in Files, NEW i \in DOMAIN ItemsIn(f)
      PROVE  PassedIn(p, included \cup {g}, f, i) <=> PassedIn(s, included, f, i)
  <2>1. i \in Nat /\ i >= 1
    BY ItemsAreItems
  <2>2. \A d \in 1..(n + 1) : d = n + 1 \/ d \in 1..n
    BY <1>1
  <2>3. CASE f = g
    <3>1. n + 1 \in 1..Len(p) /\ p[n + 1].file = g /\ ~(i < Position(p[n + 1]).item)
      BY <1>1, <1>3, <1>4, <1>5, <2>1
    <3> QED BY <2>3, <3>1 DEF PassedIn
  <2>4. CASE f # g
    <3>1. \A d \in 1..Len(p) : p[d].file = f => d \in 1..n
      BY <1>3, <1>5, <2>2, <2>4
    <3>2. \A d \in 1..n : d \in 1..Len(p)
      BY <1>1, <1>5
    <3> QED BY <1>5, <2>4, <3>1, <3>2 DEF PassedIn
  <2> QED BY <2>3, <2>4
<1> QED BY <1>3, <1>5, <1>8, <1>9 DEF p

-----------------------------------------------------------------------------
(* What stays when nothing is read but a directive, or a call returns. *)

LEMMA LinesKeep ==
  ASSUME RunTypes, NEW s, NEW files, NEW after, NEW more, NEW read, NEW sites,
         LinesOK(s, files, read, sites),
         \A f \in Files : \A i \in DOMAIN ItemsIn(f) :
           /\ PassedIn(s, files, f, i) => PassedIn(after, more, f, i)
           /\ PassedIn(after, more, f, i) /\ LineAt(f, i) => PassedIn(s, files, f, i)
  PROVE  LinesOK(after, more, read, sites)
<1>1. ASSUME NEW k \in 1..Len(sites) PROVE LineFrom(after, more, read[k], sites[k])
  <2>1. LineFrom(s, files, read[k], sites[k]) /\ sites[k].file \in Files
    <3>1. sites \in Seq(Sites)
      BY DEF LinesOK
    <3>2. sites[k] \in Sites
      BY <3>1
    <3> QED BY <3>2 DEF LinesOK, Sites
  <2>2. sites[k].item \in DOMAIN ItemsIn(sites[k].file)
    BY <2>1 DEF LineFrom, PassedIn
  <2> QED BY <2>1, <2>2 DEF LineFrom
<1> QED BY <1>1 DEF LinesOK

LEMMA OrderKeep ==
  ASSUME NEW s, NEW files, NEW after, NEW more, NEW sites,
         OrderOK(s, files, sites), files \subseteq more,
         \A d \in 1..Len(after) :
           \/ \E c \in 1..Len(s) : after[d].file = s[c].file
           \/ \A k \in 1..Len(sites) :
                /\ after[d].file # sites[k].file
                /\ \A i \in DOMAIN ItemsIn(sites[k].file) :
                     i < sites[k].item => ~Names(sites[k].file, i, after[d].file)
  PROVE  OrderOK(after, more, sites)
<1>1. ASSUME NEW k \in 1..Len(sites), NEW i \in DOMAIN ItemsIn(sites[k].file),
             NEW d \in 1..Len(after), i < sites[k].item, Names(sites[k].file, i, after[d].file)
      PROVE  sites[k].file \in Reached(after[d].file)
  <2>1. PICK c \in 1..Len(s) : after[d].file = s[c].file
    BY <1>1
  <2>2. sites[k].file \in Reached(s[c].file)
    BY <1>1, <2>1 DEF OrderOK
  <2> QED BY <2>1, <2>2
<1>2. ASSUME NEW k \in 1..Len(sites), NEW m \in 1..Len(sites), NEW d \in 1..Len(after),
             k < m, after[d].file = sites[k].file
      PROVE  sites[m].file \in Reached(after[d].file)
  <2>1. PICK c \in 1..Len(s) : after[d].file = s[c].file
    BY <1>2
  <2>2. sites[m].file \in Reached(s[c].file)
    BY <1>2, <2>1 DEF OrderOK
  <2> QED BY <2>1, <2>2
<1>3. ASSUME NEW k \in 1..Len(sites), NEW l \in 1..Len(sites),
             NEW i \in DOMAIN ItemsIn(sites[k].file), Names(sites[k].file, i, sites[l].file)
      PROVE  /\ i < sites[k].item => l < k \/ sites[k].file \in Reached(sites[l].file)
             /\ l < k /\ sites[k].item < i =>
                  \/ sites[l].file = Main
                  \/ \E h \in more : \E j \in DOMAIN ItemsIn(h) :
                       Names(h, j, sites[l].file) /\ (h # sites[k].file \/ j # i)
  BY <1>3 DEF OrderOK
<1>4. \A k, m, l \in 1..Len(sites) :
        k < m /\ m < l /\ sites[k].file = sites[l].file => sites[m].file \in Reached(sites[k].file)
  BY DEF OrderOK
<1> QED BY <1>1, <1>2, <1>3, <1>4 DEF OrderOK

LEMMA ReturnKeeps ==
  ASSUME RunTypes, Expansion(stack, included, lines, origins), stack # <<>>, Top.rest = <<>>
  PROVE  Expansion(Front(stack), included, lines, origins)
<1> DEFINE s == Front(stack)   n == Len(stack)
<1>1. /\ FramesOK(stack, included) /\ LinesOK(stack, included, lines, origins)
      /\ FilesOK(stack, included) /\ OrderOK(stack, included, origins)
  BY DEF Expansion
<1>2. /\ FramesOK(s, included) /\ Len(s) = n - 1 /\ n \in Nat
      /\ \A d \in 1..(n - 1) : s[d].file = stack[d].file
      /\ \A f \in Files : \A i \in DOMAIN ItemsIn(f) :
           PassedIn(s, included, f, i) <=> PassedIn(stack, included, f, i)
  BY <1>1, ReturnPasses, TopIsHere
<1> HIDE DEF s
<1>3. LinesOK(s, included, lines, origins)
  BY <1>1, <1>2, LinesKeep
<1>4. FilesOK(s, included)
  <2>1. included \subseteq Files
    BY DEF RunTypes
  <2> QED BY <1>1, <1>2, <2>1 DEF FilesOK
<1>5. OrderOK(s, included, origins)
  <2>1. \A d \in 1..Len(s) : d \in 1..Len(stack) /\ s[d].file = stack[d].file
    BY <1>2
  <2> HIDE DEF n
  <2> QED BY <1>1, <2>1, OrderKeep
<1> QED BY <1>2, <1>3, <1>4, <1>5 DEF Expansion, s

\* The file an item names.
LEMMA DirectiveGoes ==
  ASSUME RunTypes, FramesOK(stack, included), stack # <<>>, Top.rest # <<>>,
         Item.kind = "include"
  PROVE  LET t == Top.file   g == RealPath[Item.path] IN
         /\ t \in Files /\ t \in included /\ Here \in DOMAIN ItemsIn(t)
         /\ Item = ItemsIn(t)[Here] /\ g \in Files
         /\ Names(t, Here, g) /\ ~LineAt(t, Here)
         /\ \A d \in 1..Len(stack) : g \in Reached(stack[d].file)
         /\ included \subseteq Reached(Main) => g \in Reached(Main)
<1> DEFINE t == Top.file   g == RealPath[Item.path]   n == Len(stack)
<1>1. /\ n \in Nat \ {0} /\ Top = stack[n] /\ t \in Files /\ t \in included
      /\ Here \in DOMAIN ItemsIn(t) /\ Item = ItemsIn(t)[Here]
  BY TopIsHere
<1>2. g \in Files
  <2>1. Item \in Items
    BY TopFrame DEF RunTypes
  <2> QED BY <2>1, ItemKinds, PathsAssumption
<1>3. Names(t, Here, g) /\ ~LineAt(t, Here)
  BY <1>1 DEF Names, LineAt
<1>4. \A f : t \in Reached(f) => g \in Reached(f)
  BY <1>1, <1>2, ReachedNext
<1>5. ASSUME NEW d \in 1..n PROVE t \in Reached(stack[d].file)
  <2>1. FrameAt(stack, included, n)
    BY <1>1 DEF FramesOK
  <2>2. CASE d = n
    BY <1>1, <2>2, ReachedSelf
  <2>3. CASE d # n
    <3>1. d \in 1..(n - 1)
      BY <1>1, <2>3
    <3> HIDE DEF n
    <3> QED BY <1>1, <2>1, <3>1 DEF FrameAt
  <2> QED BY <2>2, <2>3
<1> QED BY <1>1, <1>2, <1>3, <1>4, <1>5

\* A directive that names a file met before.
LEMMA SkipKeeps ==
  ASSUME RunTypes, Expansion(stack, included, lines, origins), stack # <<>>, Top.rest # <<>>,
         Item.kind = "include", RealPath[Item.path] \in included
  PROVE  Expansion(Advanced, included, lines, origins)
<1> DEFINE t == Top.file   g == RealPath[Item.path]
<1>1. /\ FramesOK(stack, included) /\ LinesOK(stack, included, lines, origins)
      /\ FilesOK(stack, included) /\ OrderOK(stack, included, origins)
  BY DEF Expansion
<1>2. /\ FramesOK(Advanced, included) /\ Len(Advanced) = Len(stack)
      /\ \A d \in 1..Len(stack) : Advanced[d].file = stack[d].file
      /\ \A f \in Files : \A i \in DOMAIN ItemsIn(f) :
           PassedIn(Advanced, included, f, i) <=>
             PassedIn(stack, included, f, i) \/ (f = t /\ i = Here)
  BY <1>1, AdvancedPasses
<1>3. Item = ItemsIn(t)[Here] /\ ~LineAt(t, Here)
  BY <1>1, DirectiveGoes
<1> HIDE DEF t
<1>4. LinesOK(Advanced, included, lines, origins)
  BY <1>1, <1>2, <1>3, LinesKeep
<1>5. FilesOK(Advanced, included)
  <2>1. included \subseteq Files
    BY DEF RunTypes
  <2>2. ASSUME NEW f \in Files, NEW i \in DOMAIN ItemsIn(f),
               PassedIn(Advanced, included, f, i), ItemsIn(f)[i].kind = "include"
        PROVE  RealPath[ItemsIn(f)[i].path] \in included
    BY <1>1, <1>2, <1>3, <2>2 DEF FilesOK
  <2>3. ASSUME NEW h \in included \ {Main}
        PROVE  \E f \in included : \E i \in DOMAIN ItemsIn(f) :
                 PassedIn(Advanced, included, f, i) /\ Names(f, i, h)
    BY <1>1, <1>2, <2>1 DEF FilesOK
  <2> QED BY <1>1, <2>2, <2>3 DEF FilesOK
<1>6. OrderOK(Advanced, included, origins)
  BY <1>1, <1>2, OrderKeep
<1> QED BY <1>2, <1>4, <1>5, <1>6 DEF Expansion


\* A directive that names a file not met before, which is entered.
LEMMA FollowKeeps ==
  ASSUME RunTypes, disk = original, Expansion(stack, included, lines, origins), stack # <<>>,
         Top.rest # <<>>, Item.kind = "include", RealPath[Item.path] \notin included
  PROVE  LET g == RealPath[Item.path] IN
         Expansion(Push(Advanced, g), included \cup {g}, lines, origins)
<1> DEFINE t == Top.file   g == RealPath[Item.path]   s == Advanced   p == Push(s, g)
           more == included \cup {g}   n == Len(stack)
<1>1. /\ FramesOK(stack, included) /\ LinesOK(stack, included, lines, origins)
      /\ FilesOK(stack, included) /\ OrderOK(stack, included, origins)
  BY DEF Expansion
<1>2. /\ FramesOK(s, included) /\ Len(s) = n /\ n \in Nat
      /\ \A d \in 1..n : s[d].file = stack[d].file
      /\ \A f \in Files : \A i \in DOMAIN ItemsIn(f) :
           PassedIn(s, included, f, i) <=> PassedIn(stack, included, f, i) \/ (f = t /\ i = Here)
  BY <1>1, AdvancedPasses, TopIsHere
<1>3. /\ t \in Files /\ t \in included /\ Here \in DOMAIN ItemsIn(t)
      /\ Item = ItemsIn(t)[Here] /\ g \in Files /\ Names(t, Here, g) /\ ~LineAt(t, Here)
      /\ \A d \in 1..n : g \in Reached(stack[d].file)
      /\ included \subseteq Reached(Main) => g \in Reached(Main)
  BY <1>1, DirectiveGoes
<1>4. s \in Seq(Frames)
  BY TopFrame DEF RunTypes
<1>5. \A d \in 1..Len(s) : g \in Reached(s[d].file)
  BY <1>2, <1>3
<1> HIDE DEF s, g, t
<1>6. /\ FramesOK(p, more) /\ Len(p) = n + 1 /\ p[n + 1].file = g
      /\ \A d \in 1..n : p[d] = s[d]
      /\ \A f \in Files : \A i \in DOMAIN ItemsIn(f) :
           PassedIn(p, more, f, i) <=> PassedIn(s, included, f, i)
  <2>1. g \notin included
    BY DEF g
  <2> HIDE DEF n, p
  <2>2. /\ FramesOK(Push(s, g), included \cup {g})
        /\ Len(Push(s, g)) = Len(s) + 1 /\ Push(s, g)[Len(s) + 1].file = g
        /\ \A d \in 1..Len(s) : Push(s, g)[d] = s[d]
        /\ \A f \in Files : \A i \in DOMAIN ItemsIn(f) :
             PassedIn(Push(s, g), included \cup {g}, f, i) <=> PassedIn(s, included, f, i)
    BY <1>2, <1>3, <1>4, <1>5, <2>1, PushPasses
  <2> QED BY <1>2, <2>2 DEF p
<1> HIDE DEF p
<1>7. \A f \in Files : \A i \in DOMAIN ItemsIn(f) :
        PassedIn(p, more, f, i) <=> PassedIn(stack, included, f, i) \/ (f = t /\ i = Here)
  BY <1>2, <1>6
<1>8. LinesOK(p, more, lines, origins)
  BY <1>1, <1>3, <1>7, LinesKeep
<1>9. included \subseteq Files
  BY DEF RunTypes
<1>10. FilesOK(p, more)
  <2>1. more \subseteq Reached(Main)
    BY <1>1, <1>3 DEF FilesOK
  <2>2. ASSUME NEW f \in Files, NEW i \in DOMAIN ItemsIn(f),
               PassedIn(p, more, f, i), ItemsIn(f)[i].kind = "include"
        PROVE  RealPath[ItemsIn(f)[i].path] \in more
    <3>1. CASE f = t /\ i = Here
      BY <1>3, <3>1 DEF g
    <3>2. CASE ~(f = t /\ i = Here)
      BY <1>1, <1>7, <2>2, <3>2 DEF FilesOK
    <3> QED BY <3>1, <3>2
  <2>3. ASSUME NEW h \in more \ {Main}
        PROVE  \E f \in more : \E i \in DOMAIN ItemsIn(f) : PassedIn(p, more, f, i) /\ Names(f, i, h)
    <3>1. CASE h = g
      <4>1. PassedIn(p, more, t, Here)
        BY <1>3, <1>7
      <4> QED BY <1>3, <3>1, <4>1
    <3>2. CASE h # g
      <4>1. PICK f \in included : \E i \in DOMAIN ItemsIn(f) :
                PassedIn(stack, included, f, i) /\ Names(f, i, h)
        BY <1>1, <2>3, <3>2 DEF FilesOK
      <4> QED BY <1>7, <1>9, <4>1
    <3> QED BY <3>1, <3>2
  <2> HIDE DEF more
  <2> QED BY <2>1, <2>2, <2>3 DEF FilesOK
<1>11. ASSUME NEW k \in 1..Len(origins)
       PROVE  /\ origins[k].file \in included /\ origins[k].file \in Files
              /\ origins[k].item \in DOMAIN ItemsIn(origins[k].file)
              /\ PassedIn(stack, included, origins[k].file, origins[k].item)
  BY <1>1, <1>9 DEF LinesOK, LineFrom, PassedIn
<1>12. ASSUME NEW k \in 1..Len(origins), NEW i \in DOMAIN ItemsIn(origins[k].file),
              i < origins[k].item
       PROVE  ~Names(origins[k].file, i, g)
  <2> DEFINE f == origins[k].file   j == origins[k].item
  <2>1. /\ f \in Files /\ f \in included /\ PassedIn(stack, included, f, j)
        /\ j \in DOMAIN ItemsIn(f) /\ j \in Nat /\ i \in Nat
    BY <1>11, ItemsAreItems
  <2>2. \A d \in 1..n : stack[d].file = f => i < Position(stack[d]).item
    <3>1. ASSUME NEW d \in 1..n, stack[d].file = f PROVE i < Position(stack[d]).item
      <4>1. j < Position(stack[d]).item
        BY <2>1, <3>1 DEF PassedIn
      <4>2. Position(stack[d]).item \in Int
        <5>1. stack[d] \in Frames
          BY DEF RunTypes
        <5>2. Len(stack[d].rest) \in Nat
          BY <5>1 DEF Frames
        <5>3. Position(stack[d]).item = Len(ItemsIn(f)) - Len(stack[d].rest) + 1
          BY <3>1 DEF Position, ItemsIn
        <5>4. Len(ItemsIn(f)) \in Nat
          BY <2>1, ItemsAreItems
        <5> QED BY <5>2, <5>3, <5>4
      <4>3. i < j
        BY <1>12
      <4> QED BY <2>1, <4>1, <4>2, <4>3
    <3> QED BY <3>1
  <2>3. PassedIn(stack, included, f, i)
    BY <1>12, <2>1, <2>2 DEF PassedIn
  <2>4. ASSUME Names(f, i, g) PROVE FALSE
    BY <1>1, <2>1, <2>3, <2>4 DEF FilesOK, Names, g
  <2> QED BY <2>4
<1>13. OrderOK(p, more, origins)
  <2>1. ASSUME NEW d \in 1..Len(p), d # n + 1
        PROVE  \E c \in 1..Len(stack) : p[d].file = stack[c].file
    <3>1. d \in 1..n
      BY <1>2, <1>6, <2>1
    <3> QED BY <1>2, <1>6, <3>1
  <2>2. \A k \in 1..Len(origins) :
          /\ p[n + 1].file # origins[k].file
          /\ \A i \in DOMAIN ItemsIn(origins[k].file) :
               i < origins[k].item => ~Names(origins[k].file, i, p[n + 1].file)
    <3>1. g \notin included
      BY DEF g
    <3> QED BY <1>6, <1>11, <1>12, <3>1
  <2> QED BY <1>1, <2>1, <2>2, OrderKeep
<1> HIDE DEF more
<1>14. Expansion(p, more, lines, origins)
  BY <1>6, <1>8, <1>10, <1>13 DEF Expansion
<1> QED BY <1>14 DEF p, more, s, g

\* The first call.
LEMMA OpenKeeps ==
  ASSUME RunTypes, disk = original, stack = <<>>, included = {}, lines = <<>>, origins = <<>>
  PROVE  Expansion(Push(<<>>, Main), {Main}, lines, origins)
<1> DEFINE p == Push(<<>>, Main)
<1>1. Main \in Files
  BY PathsAssumption DEF RunTypes, Main
<1>2. FramesOK(<<>>, included) /\ <<>> \in Seq(Frames) /\ Len(<<>>) = 0
  BY DEF FramesOK
<1>3. /\ FramesOK(p, included \cup {Main})
      /\ \A f \in Files : \A i \in DOMAIN ItemsIn(f) :
           PassedIn(p, included \cup {Main}, f, i) <=> PassedIn(<<>>, included, f, i)
  <2> DEFINE s == <<>>
  <2>1. s \in Seq(Frames) /\ FramesOK(s, included) /\ \A d \in 1..Len(s) : FALSE
    BY <1>2
  <2>2. Main \notin included /\ p = Push(s, Main)
    OBVIOUS
  <2> HIDE DEF s, p
  <2>3. /\ FramesOK(p, included \cup {Main})
        /\ \A f \in Files : \A i \in DOMAIN ItemsIn(f) :
             PassedIn(p, included \cup {Main}, f, i) <=> PassedIn(s, included, f, i)
    BY <1>1, <2>1, <2>2, PushPasses
  <2> QED BY <2>3 DEF s
<1>4. /\ FramesOK(p, {Main})
      /\ \A f \in Files : \A i \in DOMAIN ItemsIn(f) : ~PassedIn(p, {Main}, f, i)
  <2>1. included \cup {Main} = {Main}
    OBVIOUS
  <2> QED BY <1>3, <2>1 DEF PassedIn
<1>5. LinesOK(p, {Main}, lines, origins)
  <2>1. origins \in Seq(Sites) /\ Len(lines) = Len(origins) /\ \A k \in 1..Len(origins) : FALSE
    OBVIOUS
  <2> QED BY <1>4, <2>1 DEF LinesOK
<1>6. FilesOK(p, {Main})
  BY <1>1, <1>4, ReachedSelf DEF FilesOK
<1>7. OrderOK(p, {Main}, origins)
  BY DEF OrderOK
<1> QED BY <1>4, <1>5, <1>6, <1>7 DEF Expansion, p

-----------------------------------------------------------------------------
(* What stays when a line is read. *)

LEMMA LineKeeps ==
  ASSUME RunTypes, Expansion(stack, included, lines, origins), stack # <<>>, Top.rest # <<>>,
         Item.kind = "line"
  PROVE  Expansion(Advanced, included, Append(lines, Item.line), Append(origins, Position(Top)))
<1> DEFINE t == Top.file   s == Advanced   n == Len(stack)   size == Len(origins)
           read == Append(lines, Item.line)   sites == Append(origins, Position(Top))
<1>1. /\ FramesOK(stack, included) /\ LinesOK(stack, included, lines, origins)
      /\ FilesOK(stack, included) /\ OrderOK(stack, included, origins)
  BY DEF Expansion
<1>2. /\ FramesOK(s, included) /\ Len(s) = n
      /\ \A d \in 1..n : s[d].file = stack[d].file
      /\ \A f \in Files : \A i \in DOMAIN ItemsIn(f) :
           PassedIn(s, included, f, i) <=> PassedIn(stack, included, f, i) \/ (f = t /\ i = Here)
  BY <1>1, AdvancedPasses
<1>3. /\ n \in Nat \ {0} /\ Top = stack[n] /\ t \in Files /\ t \in included
      /\ Here \in DOMAIN ItemsIn(t) /\ Item = ItemsIn(t)[Here]
  BY <1>1, TopIsHere
<1>4. Here \in Nat /\ LineAt(t, Here) /\ Position(Top) = [file |-> t, item |-> Here]
  <2>1. Position(Top) = [file |-> t, item |-> Here]
    BY DEF Position, Here
  <2>2. Here \in Nat
    BY <1>3, ItemsAreItems
  <2> QED BY <1>3, <2>1, <2>2 DEF LineAt
<1>5. included \subseteq Files /\ stack[n].file = t
  BY <1>3 DEF RunTypes
<1>6. \A d \in 1..n : t \in Reached(stack[d].file)
  <2>1. FrameAt(stack, included, n)
    BY <1>1, <1>3 DEF FramesOK
  <2>2. ASSUME NEW d \in 1..n PROVE t \in Reached(stack[d].file)
    <3>1. CASE d = n
      BY <1>3, <1>5, <3>1, ReachedSelf
    <3>2. CASE d # n
      <4>1. d \in 1..(n - 1)
        BY <1>3, <3>2
      <4> HIDE DEF n
      <4> QED BY <1>5, <2>1, <4>1 DEF FrameAt
    <3> QED BY <3>1, <3>2
  <2> QED BY <2>2
<1>7. /\ size \in Nat /\ Len(sites) = size + 1 /\ sites \in Seq(Sites)
      /\ sites[size + 1] = [file |-> t, item |-> Here]
      /\ \A k \in 1..size : sites[k] = origins[k]
  <2>1. [file |-> t, item |-> Here] \in Sites
    BY <1>3, <1>4 DEF Sites
  <2>2. origins \in Seq(Sites)
    BY <1>1 DEF LinesOK
  <2> QED BY <1>4, <2>1, <2>2, AppendProperties
<1>8. /\ Len(lines) = size /\ Len(read) = size + 1 /\ read[size + 1] = Item.line
      /\ \A k \in 1..size : read[k] = lines[k]
  <2>1. lines \in Seq(SourceLines \cup {Item.line})
    BY DEF RunTypes
  <2>2. Len(lines) = size
    BY <1>1 DEF LinesOK
  <2> QED BY <2>1, <2>2, AppendProperties
<1> HIDE DEF s, t, n, size, read, sites
<1>9. ASSUME NEW k \in 1..size
      PROVE  /\ LineFrom(stack, included, lines[k], origins[k])
             /\ PassedIn(stack, included, origins[k].file, origins[k].item)
             /\ origins[k].file \in included /\ origins[k].file \in Files
             /\ origins[k].item \in DOMAIN ItemsIn(origins[k].file)
  <2>1. LineFrom(stack, included, lines[k], origins[k])
    BY <1>1 DEF LinesOK, size
  <2> QED BY <1>5, <2>1 DEF LineFrom, PassedIn
<1>10. \A i : PassedIn(stack, included, t, i) => i < Here
  <2>1. Position(stack[n]).item = Here /\ n \in 1..n
    BY <1>3 DEF Here
  <2> QED BY <1>5, <2>1 DEF PassedIn, n
<1>11. \A k \in 1..(size + 1) : k = size + 1 \/ k \in 1..size
  BY <1>7
<1>12. LinesOK(s, included, read, sites)
  <2>1. ASSUME NEW k \in 1..(size + 1) PROVE LineFrom(s, included, read[k], sites[k])
    <3>1. CASE k = size + 1
      <4>1. PassedIn(s, included, t, Here)
        BY <1>2, <1>3 DEF t
      <4> QED BY <1>3, <1>4, <1>7, <1>8, <3>1, <4>1 DEF LineFrom
    <3>2. CASE k \in 1..size
      <4>1. LineFrom(stack, included, lines[k], origins[k]) /\ sites[k] = origins[k] /\ read[k] = lines[k]
        BY <1>7, <1>8, <1>9, <3>2
      <4>2. PassedIn(s, included, origins[k].file, origins[k].item)
        BY <1>2, <1>9, <3>2
      <4> QED BY <4>1, <4>2 DEF LineFrom
    <3> QED BY <1>11, <3>1, <3>2
  <2>2. ASSUME NEW f \in Files, NEW j \in DOMAIN ItemsIn(f),
               PassedIn(s, included, f, j), LineAt(f, j)
        PROVE  \E k \in 1..(size + 1) : sites[k] = [file |-> f, item |-> j]
    <3>1. CASE f = t /\ j = Here
      <4>1. size + 1 \in 1..(size + 1)
        BY <1>7
      <4> QED BY <1>7, <3>1, <4>1
    <3>2. CASE ~(f = t /\ j = Here)
      <4>1. PassedIn(stack, included, f, j)
        BY <1>2, <2>2, <3>2
      <4>2. PICK k \in 1..size : origins[k] = [file |-> f, item |-> j]
        BY <1>1, <2>2, <4>1 DEF LinesOK, size
      <4>3. k \in 1..(size + 1) /\ sites[k] = [file |-> f, item |-> j]
        BY <1>7, <4>2
      <4> QED BY <4>3
    <3> QED BY <3>1, <3>2
  <2>3. ASSUME NEW k \in 1..(size + 1), NEW l \in 1..(size + 1), k < l,
               sites[k].file = sites[l].file
        PROVE  sites[k].item < sites[l].item
    <3>1. k \in 1..size /\ sites[k] = origins[k]
      BY <1>7, <2>3
    <3>2. CASE l = size + 1
      <4>1. sites[l].file = t /\ sites[l].item = Here
        BY <1>7, <3>2
      <4> QED BY <1>9, <1>10, <2>3, <3>1, <4>1
    <3>3. CASE l \in 1..size
      <4>1. sites[l] = origins[l]
        BY <1>7, <3>3
      <4> QED BY <1>1, <2>3, <3>1, <3>3, <4>1 DEF LinesOK, size
    <3> QED BY <1>11, <3>2, <3>3
  <2>4. sites \in Seq(Sites) /\ Len(read) = Len(sites) /\ Len(sites) = size + 1
    BY <1>7, <1>8
  <2> QED BY <2>1, <2>2, <2>3, <2>4 DEF LinesOK
<1>13. FilesOK(s, included)
  <2>1. ASSUME NEW f \in Files, NEW i \in DOMAIN ItemsIn(f),
               PassedIn(s, included, f, i), ItemsIn(f)[i].kind = "include"
        PROVE  RealPath[ItemsIn(f)[i].path] \in included
    <3>1. ~(f = t /\ i = Here)
      BY <1>4, <2>1 DEF LineAt
    <3> QED BY <1>1, <1>2, <2>1, <3>1 DEF FilesOK
  <2>2. ASSUME NEW h \in included \ {Main}
        PROVE  \E f \in included : \E i \in DOMAIN ItemsIn(f) :
                 PassedIn(s, included, f, i) /\ Names(f, i, h)
    BY <1>1, <1>2, <1>5 DEF FilesOK
  <2> QED BY <1>1, <2>1, <2>2 DEF FilesOK
<1>14. OrderOK(s, included, sites)
  <2>1. ASSUME NEW k \in 1..(size + 1), NEW l \in 1..(size + 1),
               NEW i \in DOMAIN ItemsIn(sites[k].file), Names(sites[k].file, i, sites[l].file),
               i < sites[k].item
        PROVE  l < k \/ sites[k].file \in Reached(sites[l].file)
    <3>1. CASE k \in 1..size /\ l \in 1..size
      <4>1. sites[k] = origins[k] /\ sites[l] = origins[l]
        BY <1>7, <3>1
      <4> QED BY <1>1, <2>1, <3>1, <4>1 DEF OrderOK, size
    <3>2. CASE k = size + 1 /\ l \in 1..size
      BY <1>7, <3>2
    <3>3. CASE k = size + 1 /\ l = size + 1
      BY <1>3, <1>7, <3>3, ReachedSelf DEF t
    <3>4. CASE k \in 1..size /\ l = size + 1
      <4>1. sites[k] = origins[k] /\ sites[l].file = stack[n].file /\ n \in 1..Len(stack)
        BY <1>3, <1>5, <1>7, <3>4 DEF n
      <4> QED BY <1>1, <2>1, <3>4, <4>1 DEF OrderOK, size
    <3> QED BY <1>11, <3>1, <3>2, <3>3, <3>4
  <2>2. ASSUME NEW k \in 1..(size + 1), NEW l \in 1..(size + 1),
               NEW i \in DOMAIN ItemsIn(sites[k].file), Names(sites[k].file, i, sites[l].file),
               l < k, sites[k].item < i
        PROVE  \/ sites[l].file = Main
               \/ \E h \in included : \E j \in DOMAIN ItemsIn(h) :
                    Names(h, j, sites[l].file) /\ (h # sites[k].file \/ j # i)
    <3>1. l \in 1..size /\ sites[l] = origins[l]
      BY <1>7, <2>2
    <3>2. CASE k \in 1..size
      <4>1. sites[k] = origins[k]
        BY <1>7, <3>2
      <4> QED BY <1>1, <2>2, <3>1, <3>2, <4>1 DEF OrderOK, size
    <3>3. CASE k = size + 1
      <4>1. sites[k].file = t /\ sites[k].item = Here
        BY <1>7, <3>3
      <4>2. CASE sites[l].file = Main
        BY <4>2
      <4>3. CASE sites[l].file # Main
        <5>1. sites[l].file \in included \ {Main}
          BY <1>9, <3>1, <4>3
        <5>2. PICK h \in included : \E j \in DOMAIN ItemsIn(h) :
                 PassedIn(stack, included, h, j) /\ Names(h, j, sites[l].file)
          BY <1>1, <5>1 DEF FilesOK
        <5>3. PICK j \in DOMAIN ItemsIn(h) :
                 PassedIn(stack, included, h, j) /\ Names(h, j, sites[l].file)
          BY <5>2
        <5>4. h = t => j # i
          <6>1. i \in Nat
            BY <1>3, <4>1, ItemsAreItems DEF t
          <6>2. h = t => j < Here
            BY <1>10, <5>3
          <6>3. Here < i
            BY <2>2, <4>1
          <6>4. h = t => j \in Nat
            BY <1>3, ItemsAreItems DEF t
          <6> QED BY <1>4, <6>1, <6>2, <6>3, <6>4
        <5> QED BY <4>1, <5>3, <5>4
      <4> QED BY <4>2, <4>3
    <3> QED BY <1>11, <3>2, <3>3
  <2>3. ASSUME NEW k \in 1..(size + 1), NEW i \in DOMAIN ItemsIn(sites[k].file),
               NEW d \in 1..n, i < sites[k].item, Names(sites[k].file, i, s[d].file)
        PROVE  sites[k].file \in Reached(s[d].file)
    <3>1. s[d].file = stack[d].file
      BY <1>2 DEF n
    <3>2. CASE k = size + 1
      BY <1>6, <1>7, <3>1, <3>2 DEF n, t
    <3>3. CASE k \in 1..size
      <4>1. sites[k] = origins[k]
        BY <1>7, <3>3
      <4> QED BY <1>1, <2>3, <3>1, <3>3, <4>1 DEF OrderOK, size, n
    <3> QED BY <1>11, <3>2, <3>3
  <2>4. ASSUME NEW k \in 1..(size + 1), NEW m \in 1..(size + 1), NEW l \in 1..(size + 1),
               k < m, m < l, sites[k].file = sites[l].file
        PROVE  sites[m].file \in Reached(sites[k].file)
    <3>1. k \in 1..size /\ m \in 1..size /\ sites[k] = origins[k] /\ sites[m] = origins[m]
      BY <1>7, <2>4
    <3>2. CASE l = size + 1
      <4>1. stack[n].file = origins[k].file /\ n \in 1..Len(stack)
        BY <1>3, <1>5, <1>7, <2>4, <3>1, <3>2 DEF n
      <4>2. origins[m].file \in Reached(stack[n].file)
        BY <1>1, <2>4, <3>1, <4>1 DEF OrderOK, size
      <4> QED BY <3>1, <4>1, <4>2
    <3>3. CASE l \in 1..size
      <4>1. sites[l] = origins[l]
        BY <1>7, <3>3
      <4> QED BY <1>1, <2>4, <3>1, <3>3, <4>1 DEF OrderOK, size
    <3> QED BY <1>11, <3>2, <3>3
  <2>5. ASSUME NEW k \in 1..(size + 1), NEW m \in 1..(size + 1), NEW d \in 1..n,
               k < m, s[d].file = sites[k].file
        PROVE  sites[m].file \in Reached(s[d].file)
    <3>1. k \in 1..size /\ sites[k] = origins[k] /\ s[d].file = stack[d].file
      BY <1>2, <1>7, <2>5 DEF n
    <3>2. CASE m = size + 1
      BY <1>6, <1>7, <3>1, <3>2 DEF n, t
    <3>3. CASE m \in 1..size
      <4>1. sites[m] = origins[m]
        BY <1>7, <3>3
      <4>2. d \in 1..Len(stack) /\ stack[d].file = origins[k].file
        BY <2>5, <3>1 DEF n
      <4>3. origins[m].file \in Reached(stack[d].file)
        BY <1>1, <2>5, <3>1, <3>3, <4>2 DEF OrderOK, size
      <4> QED BY <3>1, <4>1, <4>3
    <3> QED BY <1>11, <3>2, <3>3
  <2>6. Len(sites) = size + 1 /\ Len(s) = n
    BY <1>2, <1>7 DEF n
  <2> QED BY <2>1, <2>2, <2>3, <2>4, <2>5, <2>6 DEF OrderOK
<1> QED BY <1>2, <1>12, <1>13, <1>14 DEF Expansion, s, read, sites

-----------------------------------------------------------------------------
(* The steps of a run. *)

\* The files stay what they were, and so does what they lead to.
LEMMA SameFiles ==
  ASSUME UNCHANGED <<original, argument>>
  PROVE  Expansion(stack, included, lines, origins)'
           <=> Expansion(stack', included', lines', origins')
<1>1. \A f : ItemsIn(f)' = ItemsIn(f)
  BY DEF ItemsIn
<1>2. \A files : Closed(files)' <=> Closed(files)
  BY <1>1 DEF Closed
<1>3. \A f : Reached(f)' = Reached(f)
  BY <1>2 DEF Reached
<1>4. Main' = Main
  BY DEF Main
<1>5. /\ \A f, i : LineAt(f, i)' <=> LineAt(f, i)
      /\ \A f, i, g : Names(f, i, g)' <=> Names(f, i, g)
      /\ \A frame : Position(frame)' = Position(frame)
  BY <1>1 DEF LineAt, Names, Position
<1>6. \A s, files, f, i : PassedIn(s, files, f, i)' <=> PassedIn(s, files, f, i)
  BY <1>1, <1>5 DEF PassedIn
<1>7. FramesOK(stack, included)' <=> FramesOK(stack', included')
  BY <1>1, <1>3, <1>5 DEF FramesOK, FrameAt
<1>8. LinesOK(stack, included, lines, origins)' <=> LinesOK(stack', included', lines', origins')
  BY <1>1, <1>5, <1>6 DEF LinesOK, LineFrom, Sites
<1>9. FilesOK(stack, included)' <=> FilesOK(stack', included')
  BY <1>1, <1>3, <1>4, <1>5, <1>6 DEF FilesOK
<1>10. OrderOK(stack, included, origins)' <=> OrderOK(stack', included', origins')
  BY <1>1, <1>3, <1>4, <1>5 DEF OrderOK
<1> QED BY <1>7, <1>8, <1>9, <1>10 DEF Expansion

LEMMA ExpansionInit == AssemblerInit => ExpansionInv
<1> SUFFICES ASSUME AssemblerInit PROVE ExpansionInv
  OBVIOUS
<1>1. stage = "open" /\ stack = <<>> /\ included = {} /\ lines = <<>> /\ origins = <<>>
  BY DEF AssemblerInit, RunInit
<1>2. FramesOK(stack, included)
  BY <1>1 DEF FramesOK
<1>3. LinesOK(stack, included, lines, origins)
  <2>1. origins \in Seq(Sites) /\ Len(lines) = Len(origins) /\ \A k \in 1..Len(origins) : FALSE
    BY <1>1
  <2>2. \A f, i : ~PassedIn(stack, included, f, i)
    BY <1>1 DEF PassedIn
  <2> QED BY <2>1, <2>2 DEF LinesOK
<1>4. FilesOK(stack, included)
  BY <1>1 DEF FilesOK, PassedIn
<1>5. OrderOK(stack, included, origins)
  BY <1>1 DEF OrderOK
<1> QED BY <1>1, <1>2, <1>3, <1>4, <1>5 DEF ExpansionInv, Expansion, Expanded

\* A step that reads nothing.
LEMMA ExpansionStays ==
  ASSUME ExpansionInv, stage # "failed",
         UNCHANGED <<stack, included, lines, origins, original, argument>>,
         stage' = stage \/ (stage # "open" /\ stage' # "open"),
         Expanded' => Expanded \/ stack = <<>>
  PROVE  ExpansionInv'
<1>1. Expansion(stack, included, lines, origins)'
  BY SameFiles DEF ExpansionInv
<1>2. Main' = Main
  BY DEF Main
<1> QED BY <1>1, <1>2 DEF ExpansionInv

\* A step of open_file.
LEMMA ExpansionGoes ==
  ASSUME UNCHANGED <<original, argument>>, stage' = "read", Main \in included',
         Expansion(stack', included', lines', origins')
  PROVE  ExpansionInv'
<1>1. Expansion(stack, included, lines, origins)'
  BY SameFiles
<1>2. Main' = Main
  BY DEF Main
<1> QED BY <1>1, <1>2 DEF ExpansionInv, Expanded

LEMMA ExpansionRead ==
  ASSUME RunInv, ExpansionInv, UNCHANGED original,
         origins' = IF lines' = lines THEN origins ELSE Append(origins, Position(Top)),
         OpenSource \/ ReadLine \/ ReadInclude \/ ReadMalformed \/ Return \/ AllRead,
         stage' # "failed"
  PROVE  ExpansionInv'
<1>1. RunTypes /\ stage \in {"open", "read"} /\ stage # "failed"
  BY DEF RunInv, OpenSource, ReadLine, ReadInclude, ReadMalformed, Return, AllRead
<1>2. disk = original
  BY <1>1 DEF RunInv, RunTypes, Opened
<1>3. Expansion(stack, included, lines, origins)
  BY <1>1 DEF ExpansionInv
<1>4. CASE OpenSource
  <2>1. stack = <<>> /\ included = {} /\ origins = <<>> /\ argument' = argument /\ lines' = lines
    BY <1>1, <1>4 DEF OpenSource, ExpansionInv
  <2>2. lines = <<>>
    <3>1. Len(lines) = 0 /\ lines \in Seq(SourceLines)
      BY <1>1, <1>3, <2>1 DEF Expansion, LinesOK, RunTypes
    <3> QED BY <3>1
  <2>3. stage' = "read" /\ stack' = Push(<<>>, Main) /\ included' = {Main}
    BY <1>4, <2>1 DEF OpenSource, Enter, Fail, Main
  <2>4. Expansion(Push(<<>>, Main), {Main}, lines, origins)
    BY <1>1, <1>2, <2>1, <2>2, OpenKeeps
  <2> QED BY <2>1, <2>3, <2>4, ExpansionGoes
<1>5. CASE ReadLine
  <2>1. /\ stack # <<>> /\ Top.rest # <<>> /\ Item.kind = "line" /\ stage' = "read"
        /\ UNCHANGED <<included, argument>> /\ Main \in included
        /\ lines' = Append(lines, Item.line) /\ stack' = Advanced
    BY <1>5 DEF ReadLine, ExpansionInv
  <2>2. lines' # lines
    <3>1. lines \in Seq(SourceLines \cup {Item.line})
      BY <1>1 DEF RunTypes
    <3>2. Len(lines') = Len(lines) + 1 /\ Len(lines) \in Nat
      BY <2>1, <3>1, AppendProperties
    <3> QED BY <3>2
  <2>3. Expansion(Advanced, included, Append(lines, Item.line), Append(origins, Position(Top)))
    BY <1>1, <1>3, <2>1, LineKeeps
  <2> QED BY <2>1, <2>2, <2>3, ExpansionGoes
<1>6. CASE ReadInclude
  <2> DEFINE g == RealPath[Item.path]
  <2>1. /\ stack # <<>> /\ Top.rest # <<>> /\ Item.kind = "include" /\ Main \in included
        /\ UNCHANGED <<lines, argument>> /\ included' = included \cup {g}
    BY <1>6 DEF ReadInclude, ExpansionInv, Enter
  <2>2. CASE g \in included
    <3>1. stage' = "read" /\ stack' = Advanced /\ included' = included
      BY <1>6, <2>1, <2>2 DEF ReadInclude, Enter
    <3>2. Expansion(Advanced, included, lines, origins)
      BY <1>1, <1>3, <2>1, <2>2, SkipKeeps
    <3> QED BY <2>1, <3>1, <3>2, ExpansionGoes
  <2>3. CASE g \notin included
    <3>1. stage' = "read" /\ stack' = Push(Advanced, g)
      BY <1>6, <2>3 DEF ReadInclude, Enter, Fail
    <3>2. Expansion(Push(Advanced, g), included \cup {g}, lines, origins)
      BY <1>1, <1>2, <1>3, <2>1, <2>3, FollowKeeps
    <3> QED BY <2>1, <3>1, <3>2, ExpansionGoes
  <2> QED BY <2>2, <2>3
<1>7. CASE ReadMalformed
  BY <1>7 DEF ReadMalformed, Fail
<1>8. CASE Return
  <2>1. /\ stack # <<>> /\ Top.rest = <<>> /\ stage' = "read" /\ Main \in included
        /\ UNCHANGED <<lines, included, argument>> /\ stack' = Front(stack)
    BY <1>8 DEF Return, ExpansionInv
  <2>2. Expansion(Front(stack), included, lines, origins)
    BY <1>1, <1>3, <2>1, ReturnKeeps
  <2> QED BY <2>1, <2>2, ExpansionGoes
<1>9. CASE AllRead
  <2>1. stack = <<>> /\ stage = "read" /\ stage' = "compare"
        /\ UNCHANGED <<stack, included, lines, argument>>
    BY <1>9 DEF AllRead
  <2> QED BY <2>1, ExpansionStays
<1> QED BY <1>4, <1>5, <1>6, <1>7, <1>8, <1>9

LEMMA ExpansionStep == RunInv /\ ExpansionInv /\ [AssemblerNext]_assemblerVars => ExpansionInv'
<1> SUFFICES ASSUME RunInv, ExpansionInv, [AssemblerNext]_assemblerVars PROVE ExpansionInv'
  OBVIOUS
<1>1. CASE stage' = "failed"
  BY <1>1 DEF ExpansionInv
<1>2. CASE stage' # "failed"
  <2>1. CASE UNCHANGED assemblerVars
    <3>1. UNCHANGED <<stage, stack, included, lines, origins, original, argument>>
      BY <2>1 DEF assemblerVars, runVars
    <3>2. Expanded' => Expanded
      BY <3>1 DEF Expanded
    <3> QED BY <1>2, <3>1, <3>2, ExpansionStays
  <2>2. CASE AssemblerNext
    <3>1. /\ RunNext /\ UNCHANGED original
          /\ origins' = IF lines' = lines THEN origins ELSE Append(origins, Position(Top))
      BY <2>2 DEF AssemblerNext
    <3>2. CASE OpenSource \/ ReadLine \/ ReadInclude \/ ReadMalformed \/ Return \/ AllRead
      BY <1>2, <3>1, <3>2, ExpansionRead
    <3>3. CASE Compare \/ ParseLines \/ Create \/ AssembleNext \/ WriteFails \/ Finish
      <4>1. /\ UNCHANGED <<stack, included, lines, argument>>
            /\ stage \in {"compare", "parse", "create", "assemble"}
            /\ stage' \in {"parse", "create", "assemble", "done"}
        BY <1>2, <3>3 DEF Compare, ParseLines, Create, AssembleNext, WriteFails, Finish, Fail
      <4>2. Expanded /\ origins' = origins
        BY <3>1, <4>1 DEF Expanded
      <4> QED BY <3>1, <4>1, <4>2, ExpansionStays
    <3>4. CASE Ended
      <4>1. UNCHANGED <<stage, stack, included, lines, argument>>
        BY <3>4 DEF Ended, runVars
      <4>2. Expanded' => Expanded
        BY <4>1 DEF Expanded
      <4> QED BY <1>2, <3>1, <4>1, <4>2, ExpansionStays
    <3> QED BY <3>1, <3>2, <3>3, <3>4 DEF RunNext, RunStep
  <2> QED BY <2>1, <2>2
<1> QED BY <1>1, <1>2

-----------------------------------------------------------------------------
(* The result. *)

\* open_file keeps its calls, the lines read, the files met and their order in step.
THEOREM ExpansionInvariance == AssemblerSpec => [](RunInv /\ ExpansionInv)
<1>1. AssemblerInit => RunInv /\ ExpansionInv
  BY RunInvInit, ExpansionInit
<1>2. RunInv /\ ExpansionInv /\ [AssemblerNext]_assemblerVars => (RunInv /\ ExpansionInv)'
  BY RunInvStep, ExpansionStep
<1> QED BY <1>1, <1>2, PTL DEF AssemblerSpec

\* When no call is left all of every file met has been passed.
LEMMA ExpandedInPlace ==
  ASSUME RunInv, ExpansionInv
  PROVE  IncludesAreInPlace
<1> SUFFICES ASSUME Expanded PROVE FilesAreReadOnce /\ LinesAreInPlace
  BY DEF IncludesAreInPlace
<1>1. /\ stack = <<>> /\ Main \in included
      /\ LinesOK(stack, included, lines, origins) /\ FilesOK(stack, included)
      /\ OrderOK(stack, included, origins)
  BY DEF ExpansionInv, Expansion, Expanded
<1>2. included \in SUBSET Files
  BY DEF RunInv, RunTypes
<1>3. \A f \in included : \A i \in DOMAIN ItemsIn(f) : PassedIn(stack, included, f, i)
  BY <1>1 DEF PassedIn
<1>4. included = Reached(Main)
  <2>1. Closed(included)
    BY <1>1, <1>2, <1>3 DEF FilesOK, Closed
  <2>2. Reached(Main) \subseteq included
    BY <1>1, <1>2, <2>1, ReachedLeast
  <2> QED BY <1>1, <2>2 DEF FilesOK
<1>5. FilesAreReadOnce
  <2>1. Len(lines) = Len(origins)
    BY <1>1 DEF LinesOK
  <2>2. \A k \in Read : LineAt(origins[k].file, origins[k].item)
                        /\ lines[k] = ItemsIn(origins[k].file)[origins[k].item].line
    BY <1>1 DEF LinesOK, LineFrom, Read
  <2>3. \A f \in included : \A j \in DOMAIN ItemsIn(f) :
          LineAt(f, j) => \E k \in Read : origins[k] = [file |-> f, item |-> j]
    BY <1>1, <1>2, <1>3 DEF LinesOK, Read
  <2>4. \A k, l \in Read :
          k < l /\ origins[k].file = origins[l].file => origins[k].item < origins[l].item
    BY <1>1 DEF LinesOK, Read
  <2> QED BY <1>4, <2>1, <2>2, <2>3, <2>4 DEF FilesAreReadOnce
<1>6. LinesAreInPlace
  BY <1>1 DEF OrderOK, LinesAreInPlace, Read
<1> QED BY <1>5, <1>6

\* Exactly the files the source leads to are read, each line of theirs once, and
\* what a file holds stands where the directive that included it stood.
THEOREM IncludesStayInPlace == AssemblerSpec => []IncludesAreInPlace
BY ExpansionInvariance, ExpandedInPlace, PTL
=============================================================================
