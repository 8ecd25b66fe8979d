---------------------------- MODULE PanelProofs -----------------------------
(***************************************************************************)
(* The panel, for any sessions and payloads and any number of callbacks.   *)
(***************************************************************************)
EXTENDS Panel, FiniteSetTheorems, TLAPS

Pages == {"list", "detail"}
Lists == Payloads \cup {<<>>}
UIs ==
    [running : BOOLEAN, idles : Seq(Idle), payload : Lists,
     selected : Sessions \cup {None}, panelView : Views, stackView : Pages,
     pending : Views \cup {None}, hover : BOOLEAN, pinned : BOOLEAN,
     wasExpanded : BOOLEAN, closingActive : BOOLEAN, mode : {"none", "opening", "closing"},
     width : Views \cup {"between"}, widthAnim : {"none", "shell", "open", "close"},
     widthTo : Views, slide : BOOLEAN, listDetailAnimating : BOOLEAN,
     heightAnim : BOOLEAN, live : BOOLEAN, clip : {"zero", "fixed", "own"},
     frozen : BOOLEAN, rows : Lists, shown : Sessions \cup {None},
     backdrop : BOOLEAN, backdropAnim : {"none", "in", "out"}, backdropShown : BOOLEAN,
     listMeasured : BOOLEAN, crossed : BOOLEAN]

Fields ==
    {"running", "idles", "payload", "selected", "panelView", "stackView", "pending",
     "hover", "pinned", "wasExpanded", "closingActive", "mode", "width", "widthAnim",
     "widthTo", "slide", "listDetailAnimating", "heightAnim", "live", "clip", "frozen",
     "rows", "shown", "backdrop", "backdropAnim", "backdropShown", "listMeasured", "crossed"}

\* Going from u to r changes fields of F only.
Only(F, u, r) == \A f \in Fields \ F : r[f] = u[f]

Waits(u, kind) == \E i \in 1..Len(u.idles) : u.idles[i].kind = kind
Opens(u) == u.widthAnim = "open" \/ Waits(u, "frozenOpen") \/ Waits(u, "openDone")
Closes(u) == u.widthAnim = "close" \/ Waits(u, "closeDone")

\* Nothing of the live panel moves before it was expanded.
Unmoved(u) ==
    ~u.wasExpanded =>
        u.widthAnim # "shell" /\ ~u.slide /\ ~u.heightAnim /\ ~Waits(u, "height")

\* How the fields agree while the view has not changed under the moving list: each
\* way in which the surface may differ from panelView has a timer or callback under
\* way that ends it, and none of them ends at another view's size.
Settling(u) ==
    /\ u.panelView # "closed" => u.payload # <<>>
    /\ u.closingActive <=> u.widthAnim \in {"open", "close"}
    /\ u.stackView = IF u.panelView = "detail" THEN "detail" ELSE "list"
    /\ Opens(u) => u.panelView = "list"
    /\ Closes(u) => u.panelView = "closed"
    /\ u.frozen => Opens(u) \/ Closes(u)
    /\ u.heightAnim => u.live
    /\ u.widthAnim = "shell" \/ u.slide => u.widthTo = u.panelView
    /\ u.wasExpanded => u.panelView # "closed"
    /\ Unmoved(u)
    /\ u.panelView = "closed" =>
          ~u.live /\ (u.width = "closed" \/ u.widthAnim = "close")
    /\ u.panelView # "closed" =>
          \/ Opens(u)
          \/ /\ u.wasExpanded
             /\ (u.live /\ u.clip = "own") \/ Waits(u, "height") \/ u.heightAnim
             /\ u.width = u.panelView \/ u.widthAnim = "shell" \/ u.slide

\* Only one callback of these two kinds waits, and the panel's is the one asked for.
OneEach(u) ==
    \A i, j \in 1..Len(u.idles) :
        u.idles[i].kind = u.idles[j].kind /\ u.idles[i].kind \in {"panel", "height"} => i = j
Asks(u, v) == \E i \in 1..Len(u.idles) : u.idles[i] = [kind |-> "panel", view |-> v]
Requested(u) == \A v \in Views : u.pending = v <=> Asks(u, v)

\* Changes of several fields that keep the types of all.
LEMMA TypedWidth ==
    ASSUME NEW u \in UIs, NEW x \in {"none", "shell", "open", "close"}, NEW t \in Views
    PROVE  [u EXCEPT !.widthAnim = x, !.widthTo = t] \in UIs
BY DEF UIs

LEMMA TypedHeight ==
    ASSUME NEW u \in UIs, NEW h \in BOOLEAN, NEW x \in BOOLEAN,
           NEW c \in {"zero", "fixed", "own"}
    PROVE  [u EXCEPT !.heightAnim = h, !.live = x, !.clip = c] \in UIs
BY DEF UIs

LEMMA RemoveAtFacts ==
    ASSUME NEW S, NEW s \in Seq(S), NEW i \in 1..Len(s)
    PROVE  /\ RemoveAt(s, i) \in Seq(S)
           /\ Len(RemoveAt(s, i)) = Len(s) - 1
           /\ \A j \in 1..(Len(s) - 1) :
                 RemoveAt(s, i)[j] = IF j < i THEN s[j] ELSE s[j + 1]
<1> DEFINE a == SubSeq(s, 1, i - 1)
           b == SubSeq(s, i + 1, Len(s))
<1>1. a \in Seq(S) /\ b \in Seq(S)
  OBVIOUS
<1>2. Len(a) = i - 1 /\ Len(b) = Len(s) - i
  OBVIOUS
<1>3. /\ \A j \in 1..(i - 1) : a[j] = s[j]
      /\ \A j \in 1..(Len(s) - i) : b[j] = s[i + j]
  OBVIOUS
<1> HIDE DEF a, b
<1>4. /\ a \o b \in Seq(S) /\ Len(a \o b) = Len(s) - 1
      /\ \A j \in 1..(Len(s) - 1) : (a \o b)[j] = IF j < i THEN a[j] ELSE b[j - (i - 1)]
  BY <1>1, <1>2
<1>5. \A j \in 1..(Len(s) - 1) : (a \o b)[j] = IF j < i THEN s[j] ELSE s[j + 1]
  BY <1>3, <1>4
<1> QED
  BY <1>4, <1>5 DEF RemoveAt, a, b

\* A callback is added at the end.
LEMMA PostedFacts ==
    ASSUME NEW u \in UIs, NEW x \in Idle
    PROVE  /\ Posted(u, x) \in UIs /\ Only({"idles"}, u, Posted(u, x))
           /\ \A k : Waits(Posted(u, x), k) <=> Waits(u, k) \/ x.kind = k
           /\ \A v : Asks(Posted(u, x), v) <=> Asks(u, v) \/ x = [kind |-> "panel", view |-> v]
           /\ OneEach(u) /\ ~(x.kind \in {"panel", "height"} /\ Waits(u, x.kind))
                 => OneEach(Posted(u, x))
<1>1. /\ Posted(u, x) = [u EXCEPT !.idles = Append(u.idles, x)]
      /\ Posted(u, x) \in UIs
      /\ Posted(u, x).idles = Append(u.idles, x) /\ u.idles \in Seq(Idle)
  BY DEF Posted, UIs
<1> DEFINE q == Posted(u, x).idles
           n == Len(u.idles)
<1>2. n \in Nat /\ Len(q) = n + 1 /\ q[n + 1] = x /\ \A i \in 1..n : q[i] = u.idles[i]
  BY <1>1
<1> HIDE DEF q, n
<1>3. \A k : Waits(Posted(u, x), k) <=> Waits(u, k) \/ x.kind = k
  BY <1>2 DEF Waits, q, n
<1>4. \A v : Asks(Posted(u, x), v) <=> Asks(u, v) \/ x = [kind |-> "panel", view |-> v]
  BY <1>2 DEF Asks, q, n
<1>6. Only({"idles"}, u, Posted(u, x))
  BY <1>1 DEF Only, Fields, UIs
<1>5. OneEach(u) /\ ~(x.kind \in {"panel", "height"} /\ Waits(u, x.kind)) => OneEach(Posted(u, x))
  <2> SUFFICES ASSUME OneEach(u), ~(x.kind \in {"panel", "height"} /\ Waits(u, x.kind)),
                      NEW i \in 1..(n + 1), NEW j \in 1..(n + 1),
                      q[i].kind = q[j].kind, q[i].kind \in {"panel", "height"}
               PROVE  i = j
    BY <1>2 DEF OneEach, q
  <2>1. CASE i \in 1..n /\ j \in 1..n
    BY <1>2, <2>1 DEF OneEach, n
  <2>2. CASE i = n + 1 /\ j \in 1..n
    BY <1>2, <2>2 DEF Waits, n
  <2>3. CASE j = n + 1 /\ i \in 1..n
    BY <1>2, <2>3 DEF Waits, n
  <2> QED
    BY <1>2, <2>1, <2>2, <2>3
<1> QED
  BY <1>1, <1>3, <1>4, <1>5, <1>6

\* The callback of a kind is taken back, the others stay.
LEMMA WithoutFacts ==
    ASSUME NEW u \in UIs, NEW k
    PROVE  /\ Without(u, k) \in UIs /\ Only({"idles"}, u, Without(u, k))
           /\ \A l : l # k => (Waits(Without(u, k), l) <=> Waits(u, l))
           /\ k # "panel" => \A v : Asks(Without(u, k), v) <=> Asks(u, v)
           /\ OneEach(u) => OneEach(Without(u, k))
           /\ OneEach(u) /\ k \in {"panel", "height"} => ~Waits(Without(u, k), k)
<1>1. CASE \A i \in DOMAIN u.idles : u.idles[i].kind # k
  <2>1. Without(u, k) = u /\ u.idles \in Seq(Idle) /\ Only({"idles"}, u, u)
    BY <1>1 DEF Without, UIs, Only
  <2>2. ~Waits(u, k)
    BY <1>1, <2>1 DEF Waits
  <2> QED
    BY <2>1, <2>2
<1>2. CASE \E i \in DOMAIN u.idles : u.idles[i].kind = k
  <2> DEFINE n == Len(u.idles)
             i == CHOOSE i \in DOMAIN u.idles : u.idles[i].kind = k
             q == RemoveAt(u.idles, i)
  <2>1. u.idles \in Seq(Idle) /\ n \in Nat /\ DOMAIN u.idles = 1..n
    BY DEF UIs
  <2>2. i \in 1..n /\ u.idles[i].kind = k
    BY <1>2, <2>1
  <2> HIDE DEF i
  <2>3. /\ q \in Seq(Idle) /\ Len(q) = n - 1
        /\ \A j \in 1..(n - 1) : q[j] = IF j < i THEN u.idles[j] ELSE u.idles[j + 1]
    BY <2>1, <2>2, RemoveAtFacts
  <2> HIDE DEF q, n
  <2>4. Without(u, k) = [u EXCEPT !.idles = q]
    BY <1>2 DEF Without, q, i
  <2>5. Without(u, k) \in UIs /\ Without(u, k).idles = q
    BY <2>3, <2>4 DEF UIs
  <2>6. ASSUME NEW j \in 1..n, j # i
        PROVE  \E l \in 1..(n - 1) : q[l] = u.idles[j]
    <3>1. CASE j < i
      BY <2>1, <2>2, <2>3, <3>1
    <3>2. CASE j > i
      <4>1. j - 1 \in 1..(n - 1) /\ q[j - 1] = u.idles[j]
        BY <2>1, <2>2, <2>3, <3>2
      <4> QED
        BY <4>1
    <3> QED
      BY <2>2, <2>6, <3>1, <3>2
  <2>7. ASSUME NEW j \in 1..(n - 1)
        PROVE  \E l \in 1..n : l # i /\ q[j] = u.idles[l]
    BY <2>1, <2>2, <2>3
  <2>8. \A l : l # k => (Waits(Without(u, k), l) <=> Waits(u, l))
    <3> SUFFICES ASSUME NEW l, l # k PROVE Waits(Without(u, k), l) <=> Waits(u, l)
      OBVIOUS
    <3>1. Waits(Without(u, k), l) <=> \E j \in 1..(n - 1) : q[j].kind = l
      BY <2>3, <2>5 DEF Waits
    <3>2. Waits(u, l) <=> \E j \in 1..n : u.idles[j].kind = l
      BY DEF Waits, n
    <3>3. ASSUME NEW j \in 1..n, u.idles[j].kind = l PROVE j # i
      BY <2>2, <3>3
    <3> QED
      BY <2>6, <2>7, <3>1, <3>2, <3>3
  <2>9. k # "panel" => \A v : Asks(Without(u, k), v) <=> Asks(u, v)
    <3> SUFFICES ASSUME k # "panel", NEW v PROVE Asks(Without(u, k), v) <=> Asks(u, v)
      OBVIOUS
    <3>1. Asks(Without(u, k), v) <=> \E j \in 1..(n - 1) : q[j] = [kind |-> "panel", view |-> v]
      BY <2>3, <2>5 DEF Asks
    <3>2. Asks(u, v) <=> \E j \in 1..n : u.idles[j] = [kind |-> "panel", view |-> v]
      BY DEF Asks, n
    <3>3. ASSUME NEW j \in 1..n, u.idles[j] = [kind |-> "panel", view |-> v] PROVE j # i
      BY <2>2, <3>3
    <3> QED
      BY <2>6, <2>7, <3>1, <3>2, <3>3
  <2>10. OneEach(u) => OneEach(Without(u, k))
    <3> SUFFICES ASSUME OneEach(u), NEW j \in 1..(n - 1), NEW l \in 1..(n - 1),
                        q[j].kind = q[l].kind, q[j].kind \in {"panel", "height"}
                 PROVE  j = l
      BY <2>3, <2>5 DEF OneEach
    <3> DEFINE At(m) == IF m < i THEN m ELSE m + 1
    <3>1. At(j) \in 1..n /\ At(l) \in 1..n /\ q[j] = u.idles[At(j)] /\ q[l] = u.idles[At(l)]
      BY <2>1, <2>2, <2>3
    <3>2. At(j) = At(l)
      BY <3>1 DEF OneEach, n
    <3> QED
      BY <2>1, <2>2, <3>2
  <2>11. OneEach(u) /\ k \in {"panel", "height"} => ~Waits(Without(u, k), k)
    BY <2>1, <2>2, <2>3, <2>5, <2>7 DEF OneEach, Waits, n
  <2>12. Only({"idles"}, u, Without(u, k))
    BY <2>3, <2>4 DEF Only, Fields, UIs
  <2> QED
    BY <2>5, <2>8, <2>9, <2>10, <2>11, <2>12
<1> QED
  BY <1>1, <1>2

\* What the panel's own bookkeeping of callbacks keeps.
Orderly(u) == OneEach(u) /\ Requested(u)

\* The order of callbacks is all that these facts about a state depend on.
LEMMA SameIdles ==
    ASSUME NEW u, NEW r, r.idles = u.idles
    PROVE  /\ \A k : Waits(r, k) <=> Waits(u, k)
           /\ \A v : Asks(r, v) <=> Asks(u, v)
           /\ OneEach(r) <=> OneEach(u)
           /\ r.pending = u.pending => (Orderly(r) <=> Orderly(u))
BY DEF Waits, Asks, OneEach, Orderly, Requested

LEMMA SchedulePanelViewFacts ==
    ASSUME NEW u \in UIs, NEW v \in Views, NEW r, r = SchedulePanelView(u, v)
    PROVE  /\ r \in UIs /\ Only({"pending", "idles"}, u, r)
           /\ \A k : k # "panel" => (Waits(r, k) <=> Waits(u, k))
           /\ Orderly(u) => Orderly(r)
<1>1. CASE u.pending = v
  BY <1>1 DEF SchedulePanelView, Only
<1>2. CASE u.pending # v
  <2> DEFINE w == Without(u, "panel")
             a == [w EXCEPT !.pending = v]
             x == [kind |-> "panel", view |-> v]
  <2>1. r = Posted(a, x)
    BY <1>2 DEF SchedulePanelView
  <2>2. x \in Idle /\ x.kind = "panel"
    BY DEF Idle
  <2>3. w \in UIs /\ Only({"idles"}, u, w)
    BY WithoutFacts
  <2> HIDE DEF w
  <2>4. a \in UIs /\ Only({"pending"}, w, a) /\ a.idles = w.idles /\ a.pending = v
    BY <2>3 DEF UIs, Only, Fields
  <2> HIDE DEF a, x
  <2>5. r \in UIs /\ Only({"pending", "idles"}, u, r) /\ r.pending = v
    BY <2>1, <2>2, <2>3, <2>4, PostedFacts DEF Only, Fields
  <2>6. \A k : k # "panel" => (Waits(r, k) <=> Waits(u, k))
    BY <2>1, <2>2, <2>4, WithoutFacts, PostedFacts, SameIdles DEF w
  <2>7. ASSUME Orderly(u) PROVE Orderly(r)
    <3>1. OneEach(w) /\ ~Waits(w, "panel")
      BY <2>7, WithoutFacts DEF Orderly, w
    <3>2. \A y : ~Asks(w, y)
      BY <3>1 DEF Asks, Waits
    <3>3. OneEach(a) /\ ~Waits(a, "panel") /\ \A y : ~Asks(a, y)
      BY <2>4, <3>1, <3>2, SameIdles
    <3>4. OneEach(r) /\ \A y : Asks(r, y) <=> x = [kind |-> "panel", view |-> y]
      BY <2>1, <2>2, <2>4, <3>3, PostedFacts
    <3> QED
      BY <2>5, <3>4 DEF Orderly, Requested, x
  <2> QED
    BY <2>5, <2>6, <2>7
<1> QED
  BY <1>1, <1>2

LEMMA SyncDetailHeightFacts ==
    ASSUME NEW u \in UIs, NEW b \in BOOLEAN, NEW r, r = SyncDetailHeight(u, b)
    PROVE  /\ r \in UIs /\ Only({"heightAnim", "live", "clip", "idles"}, u, r)
           /\ ~r.heightAnim /\ r.live
           /\ \A k : Waits(r, k) <=> k = "height" \/ Waits(u, k)
           /\ Orderly(u) => Orderly(r)
<1> DEFINE w == Without(u, "height")
           c == IF u.live /\ w.clip # "zero" THEN "fixed" ELSE "zero"
           a == [w EXCEPT !.heightAnim = FALSE, !.live = TRUE, !.clip = c]
           x == [kind |-> "height", animate |-> b, attempt |-> 0]
<1>1. r = Posted(a, x)
  BY DEF SyncDetailHeight
<1>2. x \in Idle /\ x.kind = "height"
  BY PanelAssumption DEF Idle
<1>3. w \in UIs /\ Only({"idles"}, u, w)
  BY WithoutFacts
<1>4. c \in {"zero", "fixed"}
  OBVIOUS
<1> HIDE DEF w, c
<1>5. a \in UIs /\ Only({"heightAnim", "live", "clip"}, w, a) /\ a.idles = w.idles
      /\ ~a.heightAnim /\ a.live
  <2>1. a \in UIs
    BY <1>3, <1>4, TypedHeight
  <2>2. Only({"heightAnim", "live", "clip"}, w, a)
    BY <1>3 DEF UIs, Only, Fields
  <2>3. a.idles = w.idles /\ ~a.heightAnim /\ a.live
    BY <1>3 DEF UIs
  <2> QED
    BY <2>1, <2>2, <2>3
<1> HIDE DEF a, x
<1>6. r \in UIs /\ Only({"heightAnim", "live", "clip", "idles"}, u, r)
      /\ ~r.heightAnim /\ r.live
  BY <1>1, <1>2, <1>3, <1>5, PostedFacts DEF Only, Fields
<1>7. \A k : Waits(r, k) <=> k = "height" \/ Waits(u, k)
  BY <1>1, <1>2, <1>5, WithoutFacts, PostedFacts, SameIdles DEF w
<1>8. ASSUME Orderly(u) PROVE Orderly(r)
  <2>1. OneEach(w) /\ ~Waits(w, "height") /\ \A y : Asks(w, y) <=> Asks(u, y)
    BY <1>8, WithoutFacts DEF Orderly, w
  <2>2. OneEach(a) /\ ~Waits(a, "height") /\ \A y : Asks(a, y) <=> Asks(u, y)
    BY <1>5, <2>1, SameIdles
  <2>3. OneEach(r) /\ \A y : Asks(r, y) <=> Asks(u, y)
    BY <1>1, <1>2, <1>5, <2>2, PostedFacts DEF x
  <2> QED
    BY <1>6, <1>8, <2>3 DEF Orderly, Requested, Only, Fields
<1> QED
  BY <1>6, <1>7, <1>8

LEMMA StopWidthFacts ==
    ASSUME NEW u \in UIs, NEW r, r = StopWidth(u)
    PROVE  r \in UIs /\ Only({"width", "widthAnim"}, u, r) /\ r.widthAnim = "none"
BY ZenonT(40) DEF StopWidth, UIs, Only, Fields

LEMMA StopSlideFacts ==
    ASSUME NEW u \in UIs, NEW r, r = StopSlide(u)
    PROVE  /\ r \in UIs /\ Only({"width", "slide"}, u, r) /\ ~r.slide
           /\ ~u.slide => r.width = u.width
<1>1. CASE u.slide
  <2>1. r = [u EXCEPT !.slide = FALSE, !.width = "between"]
    BY <1>1 DEF StopSlide, UIs
  <2>2. r \in UIs
    BY <2>1, ZenonT(40) DEF UIs
  <2>3. Only({"width", "slide"}, u, r) /\ ~r.slide
    BY <2>1 DEF UIs, Only, Fields
  <2> QED
    BY <1>1, <2>2, <2>3
<1>2. CASE ~u.slide
  BY <1>2 DEF StopSlide, UIs, Only, Fields
<1> QED
  BY <1>1, <1>2 DEF UIs

\* A slide goes to the page it was asked for.
LEMMA SetStackViewFacts ==
    ASSUME NEW u \in UIs, NEW v \in Pages, NEW m \in Measures, NEW r, r = SetStackView(u, v, m)
    PROVE  /\ r \in UIs
           /\ Only({"width", "widthAnim", "widthTo", "slide", "listDetailAnimating", "stackView"}, u, r)
           /\ r.stackView = v
           /\ r.slide => r.widthTo = v
           /\ r.listDetailAnimating => r.slide /\ r.widthAnim = "none"
<1>1. CASE u.stackView = v
  <2> DEFINE w == StopSlide(u)
  <2>1. w \in UIs /\ Only({"width", "slide"}, u, w) /\ ~w.slide
    BY StopSlideFacts
  <2>2. r = [w EXCEPT !.listDetailAnimating = FALSE]
    BY <1>1 DEF SetStackView
  <2> HIDE DEF w
  <2>3. /\ r \in UIs /\ Only({"listDetailAnimating"}, w, r)
        /\ ~r.slide /\ ~r.listDetailAnimating
    BY <2>1, <2>2, ZenonT(40) DEF UIs, Only, Fields
  <2> QED
    BY <1>1, <2>1, <2>3 DEF Only, Fields
<1>2. CASE u.stackView # v
  <2> DEFINE y == StopSlide(u)
             w == StopWidth(y)
  <2>1. w \in UIs /\ Only({"width", "widthAnim", "slide"}, u, w) /\ w.widthAnim = "none"
    <3>1. y \in UIs /\ Only({"width", "slide"}, u, y)
      BY StopSlideFacts
    <3> HIDE DEF y
    <3> QED
      BY <3>1, StopWidthFacts DEF Only
  <2>2. r = [w EXCEPT !.slide = TRUE, !.listDetailAnimating = m.moves, !.widthTo = v,
                      !.stackView = v]
    BY <1>2 DEF SetStackView
  <2> HIDE DEF w
  <2>3. m.moves \in BOOLEAN /\ v \in Views
    BY DEF Measures, Views, Pages
  <2> DEFINE e == [w EXCEPT !.slide = TRUE, !.listDetailAnimating = m.moves]
  <2>7. e \in UIs /\ r = [e EXCEPT !.widthTo = v, !.stackView = v]
    BY <2>1, <2>2, <2>3, ZenonT(40) DEF UIs
  <2> HIDE DEF e
  <2>4. r \in UIs
    BY <2>3, <2>7, ZenonT(40) DEF UIs
  <2>5. Only({"slide", "listDetailAnimating", "widthTo", "stackView"}, w, r)
    BY <2>1, <2>2 DEF UIs, Only, Fields
  <2>6. r.stackView = v /\ r.widthTo = v /\ r.slide
    BY <2>1, <2>2 DEF UIs
  <2> QED
    BY <2>1, <2>4, <2>5, <2>6 DEF Only, Fields
<1> QED
  BY <1>1, <1>2

\* The shell gets its width, at once or at the end of an animation.
LEMMA UpdateShellWidthFacts ==
    ASSUME NEW u \in UIs, NEW b \in BOOLEAN, NEW r, r = UpdateShellWidth(u, b)
    PROVE  /\ r \in UIs
           /\ Only({"width", "widthAnim", "widthTo", "heightAnim", "live", "clip", "idles"}, u, r)
           /\ \/ r.widthAnim = "shell" /\ r.widthTo = TargetWidth(u)
              \/ r.widthAnim = "none" /\ r.widthTo = u.widthTo /\ r.width = TargetWidth(u)
           /\ u.live => r.live
           /\ ~u.heightAnim => ~r.heightAnim
           /\ \A k : Waits(u, k) => Waits(r, k)
           /\ \A k : k # "height" => (Waits(r, k) <=> Waits(u, k))
           /\ Orderly(u) => Orderly(r)
<1> DEFINE t == TargetWidth(u)
           s == StopWidth(u)
           w == [s EXCEPT !.width = t]
<1>1. t \in Views
  BY DEF TargetWidth, UIs, Views
<1>2. s \in UIs /\ Only({"width", "widthAnim"}, u, s) /\ s.widthAnim = "none"
  BY StopWidthFacts
<1> HIDE DEF s, t
<1>3. CASE ~b
  <2>1. r = [s EXCEPT !.widthAnim = "shell", !.widthTo = t]
    BY <1>3 DEF UpdateShellWidth, s, t
  <2>2. r \in UIs
    <3>1. [s EXCEPT !.widthAnim = "shell", !.widthTo = t] \in UIs
      BY <1>1, <1>2, TypedWidth
    <3> QED
      BY <2>1, <3>1, Zenon
  <2>3. Only({"widthAnim", "widthTo"}, s, r) /\ r.widthAnim = "shell" /\ r.widthTo = t
    BY <1>2, <2>1 DEF UIs, Only, Fields
  <2>4. Only({"width", "widthAnim", "widthTo"}, u, r)
    BY <1>2, <2>3 DEF Only
  <2>5. r.idles = u.idles /\ r.pending = u.pending /\ r.live = u.live /\ r.heightAnim = u.heightAnim
    BY <2>4 DEF Only, Fields
  <2> QED
    BY <2>2, <2>3, <2>4, <2>5, SameIdles DEF Only, t
<1>4. w \in UIs /\ Only({"width"}, s, w) /\ w.width = t /\ w.widthAnim = "none"
  BY <1>1, <1>2 DEF UIs, Only, Fields
<1> HIDE DEF w
<1>5. Only({"width", "widthAnim"}, u, w)
  BY <1>2, <1>4 DEF Only
<1>6. w.idles = u.idles /\ w.pending = u.pending /\ w.live = u.live /\ w.heightAnim = u.heightAnim
      /\ w.widthTo = u.widthTo
  BY <1>5 DEF Only, Fields
<1>7. CASE b /\ r = w
  BY <1>4, <1>5, <1>6, <1>7, SameIdles DEF Only, t
<1>8. CASE b /\ r = SyncDetailHeight(w, FALSE)
  <2>1. /\ r \in UIs /\ Only({"heightAnim", "live", "clip", "idles"}, w, r)
        /\ ~r.heightAnim /\ r.live
        /\ \A k : Waits(r, k) <=> k = "height" \/ Waits(w, k)
        /\ Orderly(w) => Orderly(r)
    BY <1>4, <1>8, SyncDetailHeightFacts
  <2>2. Only({"width", "widthAnim", "heightAnim", "live", "clip", "idles"}, u, r)
    BY <1>5, <2>1 DEF Only
  <2>3. r.widthAnim = "none" /\ r.widthTo = u.widthTo /\ r.width = t
    BY <1>4, <1>6, <2>1 DEF Only, Fields
  <2> QED
    BY <1>6, <2>1, <2>2, <2>3, SameIdles DEF Only, t
<1> QED
  BY <1>3, <1>7, <1>8 DEF UpdateShellWidth, w, s, t

LEMMA OpenDetailFacts ==
    ASSUME NEW u \in UIs, NEW s \in Sessions, NEW r, r = OpenDetail(u, s)
    PROVE  /\ r \in UIs /\ Only({"hover", "selected", "pending", "idles"}, u, r)
           /\ r.selected = s
           /\ \A k : k # "panel" => (Waits(r, k) <=> Waits(u, k))
           /\ Orderly(u) => Orderly(r)
<1> DEFINE w == [CancelHoverClose(u) EXCEPT !.selected = s]
<1>1. r = SchedulePanelView(w, "detail") /\ "detail" \in Views
  BY DEF OpenDetail, Views
<1>2. w \in UIs
  BY DEF CancelHoverClose, UIs
<1>3. /\ Only({"hover", "selected"}, u, w) /\ w.selected = s
      /\ w.idles = u.idles /\ w.pending = u.pending
  BY DEF CancelHoverClose, UIs, Only, Fields
<1> HIDE DEF w
<1>4. /\ r \in UIs /\ Only({"pending", "idles"}, w, r)
      /\ \A k : k # "panel" => (Waits(r, k) <=> Waits(w, k))
      /\ Orderly(w) => Orderly(r)
  BY <1>1, <1>2, SchedulePanelViewFacts
<1>5. Only({"hover", "selected", "pending", "idles"}, u, r) /\ r.selected = s
  BY <1>3, <1>4 DEF Only, Fields
<1> QED
  BY <1>3, <1>4, <1>5, SameIdles

LEMMA FirstListed ==
    ASSUME NEW u \in UIs, u.payload # <<>>
    PROVE  u.payload[1] \in Sessions /\ u.payload[1] \in ToSet(u.payload)
<1>1. u.payload \in Seq(Sessions)
  BY PanelAssumption DEF UIs, Lists
<1> QED
  BY <1>1 DEF ToSet

\* The session whose detail is built is one of the payload's.
LEMMA ListedSelectedFacts ==
    ASSUME NEW u \in UIs, u.payload # <<>>, NEW r, r = ListedSelected(u)
    PROVE  /\ r \in UIs /\ Only({"hover", "selected", "pending", "idles"}, u, r)
           /\ r.selected \in ToSet(u.payload)
           /\ \A k : k # "panel" => (Waits(r, k) <=> Waits(u, k))
           /\ Orderly(u) => Orderly(r)
<1>1. CASE u.selected \in ToSet(u.payload)
  BY <1>1 DEF ListedSelected, Only
<1>2. CASE u.selected \notin ToSet(u.payload)
  <2>2. u.payload[1] \in Sessions /\ u.payload[1] \in ToSet(u.payload)
    BY FirstListed
  <2>3. r = OpenDetail(u, u.payload[1])
    BY <1>2 DEF ListedSelected
  <2> QED
    BY <2>2, <2>3, OpenDetailFacts
<1> QED
  BY <1>1, <1>2

\* The page of the view is built, and the stack is on it or slides to it.
LEMMA RebuildDetailFacts ==
    ASSUME NEW u \in UIs, NEW m \in Measures, u.payload # <<>>, u.panelView \in Pages,
           NEW r, r = RebuildDetail(u, m)
    PROVE  /\ r \in UIs
           /\ Only({"hover", "selected", "pending", "idles", "rows", "shown", "width",
                     "widthAnim", "widthTo", "slide", "listDetailAnimating", "stackView"}, u, r)
           /\ r.stackView = u.panelView
           /\ r.slide => r.widthTo = u.panelView
           /\ r.listDetailAnimating => r.slide /\ r.widthAnim = "none"
           /\ u.panelView = "detail" => r.shown \in ToSet(u.payload)
           /\ \A k : k # "panel" => (Waits(r, k) <=> Waits(u, k))
           /\ Orderly(u) => Orderly(r)
<1> DEFINE l == RebuildList(u)
<1>1. l \in UIs /\ Only({"rows"}, u, l)
  BY DEF RebuildList, UIs, Only, Fields
<1>2. l.payload = u.payload /\ l.idles = u.idles /\ l.pending = u.pending
  BY <1>1 DEF Only, Fields
<1> HIDE DEF l
<1>3. CASE u.panelView = "detail"
  <2> DEFINE w == ListedSelected(l)
             a == RebuildSelectedDetail(w)
  <2>1. /\ w \in UIs /\ Only({"hover", "selected", "pending", "idles"}, l, w)
        /\ w.selected \in ToSet(u.payload)
        /\ \A k : k # "panel" => (Waits(w, k) <=> Waits(u, k))
        /\ Orderly(u) => Orderly(w)
    BY <1>1, <1>2, ListedSelectedFacts, SameIdles
  <2>2. r = SetStackView(a, "detail", m) /\ "detail" \in Pages
    BY <1>3 DEF RebuildDetail, Pages, l
  <2> HIDE DEF w
  <2>3. a \in UIs
    BY <2>1 DEF RebuildSelectedDetail, UIs
  <2>4. Only({"shown"}, w, a) /\ a.shown = w.selected /\ a.idles = w.idles /\ a.pending = w.pending
    BY <2>1 DEF RebuildSelectedDetail, UIs, Only, Fields
  <2> HIDE DEF a
  <2>5. Only({"rows", "hover", "selected", "pending", "idles", "shown"}, u, a)
    BY <1>1, <2>1, <2>4 DEF Only
  <2>6. /\ r \in UIs
        /\ Only({"width", "widthAnim", "widthTo", "slide", "listDetailAnimating", "stackView"}, a, r)
        /\ r.stackView = "detail" /\ (r.slide => r.widthTo = "detail")
        /\ r.listDetailAnimating => r.slide /\ r.widthAnim = "none"
    BY <2>2, <2>3, SetStackViewFacts
  <2>7. r.shown = a.shown /\ r.idles = a.idles /\ r.pending = a.pending
    BY <2>6 DEF Only, Fields
  <2>8. /\ \A k : k # "panel" => (Waits(r, k) <=> Waits(u, k))
        /\ Orderly(u) => Orderly(r)
    BY <2>1, <2>4, <2>7, SameIdles
  <2>9. Only({"hover", "selected", "pending", "idles", "rows", "shown", "width",
              "widthAnim", "widthTo", "slide", "listDetailAnimating", "stackView"}, u, r)
    BY <2>5, <2>6 DEF Only
  <2> QED
    BY <1>3, <2>1, <2>4, <2>6, <2>7, <2>8, <2>9
<1>4. CASE u.panelView = "list"
  <2>1. r = SetStackView(l, "list", m) /\ "list" \in Pages
    BY <1>4 DEF RebuildDetail, Pages, l
  <2>2. /\ r \in UIs
        /\ Only({"width", "widthAnim", "widthTo", "slide", "listDetailAnimating", "stackView"}, l, r)
        /\ r.stackView = "list" /\ (r.slide => r.widthTo = "list")
        /\ r.listDetailAnimating => r.slide /\ r.widthAnim = "none"
    BY <1>1, <2>1, SetStackViewFacts
  <2>3. r.idles = u.idles /\ r.pending = u.pending
    BY <1>2, <2>2 DEF Only, Fields
  <2>4. Only({"hover", "selected", "pending", "idles", "rows", "shown", "width",
              "widthAnim", "widthTo", "slide", "listDetailAnimating", "stackView"}, u, r)
    BY <1>1, <2>2 DEF Only
  <2> QED
    BY <1>4, <2>2, <2>3, <2>4, SameIdles
<1> QED
  BY <1>3, <1>4 DEF Pages

LEMMA HideFrozenFacts ==
    ASSUME NEW u \in UIs, NEW r, r = HideFrozen(u)
    PROVE  r \in UIs /\ Only({"frozen"}, u, r) /\ ~r.frozen
BY DEF HideFrozen, UIs, Only, Fields

LEMMA TypedBackdrop ==
    ASSUME NEW u \in UIs, NEW x \in {"none", "in", "out"}
    PROVE  [u EXCEPT !.backdropAnim = x, !.backdropShown = TRUE] \in UIs
BY ZenonT(40) DEF UIs

LEMMA SyncBackdropFacts ==
    ASSUME NEW u \in UIs, NEW b \in BOOLEAN, NEW r, r = SyncBackdrop(u, b)
    PROVE  /\ r \in UIs /\ Only({"backdrop", "backdropAnim", "backdropShown"}, u, r)
           /\ r.backdrop <=> b
<1>1. CASE b = u.backdrop
  BY <1>1 DEF SyncBackdrop, Only
<1>2. CASE b # u.backdrop
  <2> DEFINE w == [u EXCEPT !.backdrop = b]
  <2>1. w \in UIs /\ Only({"backdrop"}, u, w) /\ (w.backdrop <=> b)
    BY DEF UIs, Only, Fields
  <2>2. PICK to \in {"none", "in", "out"} : r = AnimateBackdrop(w, to)
    BY <1>2 DEF SyncBackdrop
  <2> HIDE DEF w
  <2>3. r = [w EXCEPT !.backdropAnim = to, !.backdropShown = TRUE]
    BY <2>2 DEF AnimateBackdrop
  <2>4. r \in UIs
    BY <2>1, <2>3, TypedBackdrop
  <2>5. Only({"backdropAnim", "backdropShown"}, w, r)
    BY <2>1, <2>3 DEF UIs, Only, Fields
  <2> QED
    BY <2>1, <2>4, <2>5 DEF Only, Fields
<1> QED
  BY <1>1, <1>2

LEMMA TypedList ==
    ASSUME NEW u \in UIs
    PROVE  [u EXCEPT !.listDetailAnimating = FALSE, !.stackView = "list"] \in UIs
BY DEF UIs, Pages

LEMMA ResetLiveSlideToListFacts ==
    ASSUME NEW u \in UIs, NEW r, r = ResetLiveSlideToList(u)
    PROVE  /\ r \in UIs
           /\ Only({"width", "slide", "listDetailAnimating", "stackView"}, u, r)
           /\ ~r.slide /\ r.stackView = "list"
           /\ u.slide \/ r.width = u.width
<1> DEFINE w == StopSlide(u)
<1>1. w \in UIs /\ Only({"width", "slide"}, u, w) /\ ~w.slide /\ (~u.slide => w.width = u.width)
  BY StopSlideFacts
<1>2. r = [w EXCEPT !.listDetailAnimating = FALSE, !.stackView = "list"]
  BY DEF ResetLiveSlideToList
<1> HIDE DEF w
<1>3. r \in UIs
  <2>1. [w EXCEPT !.listDetailAnimating = FALSE, !.stackView = "list"] \in UIs
    BY <1>1, TypedList
  <2> QED
    BY <1>2, <2>1, Zenon
<1>4. Only({"listDetailAnimating", "stackView"}, w, r) /\ r.stackView = "list"
  BY <1>1, <1>2 DEF UIs, Only, Fields
<1> QED
  BY <1>1, <1>3, <1>4 DEF Only, Fields

LEMMA TypedTransition ==
    ASSUME NEW u \in UIs, NEW k \in {"none", "shell", "open", "close"}, NEW t \in Views
    PROVE  [u EXCEPT !.heightAnim = FALSE, !.widthAnim = k, !.widthTo = t, !.frozen = TRUE,
                     !.closingActive = TRUE] \in UIs
<1> DEFINE e == [u EXCEPT !.heightAnim = FALSE, !.widthAnim = k, !.widthTo = t]
<1>1. e \in UIs
  BY DEF UIs
<1>2. [u EXCEPT !.heightAnim = FALSE, !.widthAnim = k, !.widthTo = t, !.frozen = TRUE,
                !.closingActive = TRUE] = [e EXCEPT !.frozen = TRUE, !.closingActive = TRUE]
  OBVIOUS
<1> HIDE DEF e
<1>3. [e EXCEPT !.frozen = TRUE, !.closingActive = TRUE] \in UIs
  BY <1>1 DEF UIs
<1> QED
  BY <1>2, <1>3

\* The frozen list takes over from whatever moves the live panel.
LEMMA FrozenTransitionFacts ==
    ASSUME NEW u \in UIs, NEW k \in {"open", "close"}, NEW t \in Views,
           NEW r, r = FrozenTransition(u, k, t)
    PROVE  /\ r \in UIs
           /\ Only({"width", "widthAnim", "widthTo", "heightAnim", "frozen", "closingActive",
                     "idles"}, u, r)
           /\ r.widthAnim = k /\ r.widthTo = t /\ r.closingActive /\ ~r.heightAnim
           /\ \A l : l # "height" => (Waits(r, l) <=> Waits(u, l))
           /\ Orderly(u) => Orderly(r) /\ ~Waits(r, "height")
<1> DEFINE w == Without(u, "height")
           s == StopWidth(w)
<1>1. /\ w \in UIs /\ Only({"idles"}, u, w)
      /\ \A l : l # "height" => (Waits(w, l) <=> Waits(u, l))
      /\ Orderly(u) => OneEach(w) /\ ~Waits(w, "height") /\ \A y : Asks(w, y) <=> Asks(u, y)
  BY WithoutFacts DEF Orderly
<1>2. s \in UIs /\ Only({"width", "widthAnim"}, w, s)
  BY <1>1, StopWidthFacts
<1>3. r = [s EXCEPT !.heightAnim = FALSE, !.widthAnim = k, !.widthTo = t, !.frozen = TRUE,
                    !.closingActive = TRUE]
  BY DEF FrozenTransition
<1> HIDE DEF w, s
<1>4. r \in UIs
  <2>1. k \in {"none", "shell", "open", "close"}
    OBVIOUS
  <2>2. [s EXCEPT !.heightAnim = FALSE, !.widthAnim = k, !.widthTo = t, !.frozen = TRUE,
                  !.closingActive = TRUE] \in UIs
    BY <1>2, <2>1, TypedTransition, Zenon
  <2> QED
    BY <1>3, <2>2, Zenon
<1>5. /\ Only({"heightAnim", "widthAnim", "widthTo", "frozen", "closingActive"}, s, r)
      /\ r.widthAnim = k /\ r.widthTo = t /\ r.closingActive /\ ~r.heightAnim
  BY <1>2, <1>3 DEF UIs, Only, Fields
<1>6. Only({"width", "widthAnim", "widthTo", "heightAnim", "frozen", "closingActive", "idles"}, u, r)
  BY <1>1, <1>2, <1>5 DEF Only
<1>7. r.idles = w.idles
  BY <1>2, <1>5 DEF Only, Fields
<1>8. r.pending = u.pending
  BY <1>6 DEF Only, Fields
<1>9. Orderly(u) => Orderly(r) /\ ~Waits(r, "height")
  BY <1>1, <1>7, <1>8, SameIdles DEF Orderly, Requested
<1> QED
  BY <1>1, <1>4, <1>5, <1>6, <1>7, <1>9, SameIdles

LEMMA TypedStart ==
    ASSUME NEW u \in UIs, NEW m \in {"none", "opening", "closing"}, NEW x \in BOOLEAN,
           NEW c \in {"zero", "fixed", "own"}
    PROVE  [u EXCEPT !.mode = m, !.live = x, !.clip = c] \in UIs
BY ZenonT(40) DEF UIs

LEMMA StartFrozenListOpenFacts ==
    ASSUME NEW u \in UIs, NEW r, r = StartFrozenListOpen(u)
    PROVE  /\ r \in UIs /\ Only({"mode", "live", "clip", "frozen", "idles"}, u, r)
           /\ \A k : Waits(r, k) <=> k = "frozenOpen" \/ Waits(u, k)
           /\ Orderly(u) => Orderly(r)
<1> DEFINE e == [u EXCEPT !.mode = "opening", !.live = FALSE, !.clip = "zero"]
           a == [e EXCEPT !.frozen = TRUE]
           x == [kind |-> "frozenOpen"]
<1>1. e \in UIs
  BY TypedStart
<1>2. /\ Only({"mode", "live", "clip"}, u, e)
      /\ a = [u EXCEPT !.mode = "opening", !.live = FALSE, !.clip = "zero", !.frozen = TRUE]
  BY DEF UIs, Only, Fields
<1>3. r = Posted(a, x)
  BY <1>2 DEF StartFrozenListOpen
<1>4. x \in Idle /\ x.kind = "frozenOpen" /\ \A v : x # [kind |-> "panel", view |-> v]
  BY DEF Idle
<1> HIDE DEF e
<1>5. a \in UIs /\ Only({"frozen"}, e, a)
  BY <1>1, ZenonT(40) DEF UIs, Only, Fields
<1> HIDE DEF a, x
<1>6. a.idles = u.idles /\ a.pending = u.pending /\ Only({"mode", "live", "clip", "frozen"}, u, a)
  BY <1>2, <1>5 DEF Only, Fields
<1>7. /\ r \in UIs /\ Only({"idles"}, a, r)
      /\ \A k : Waits(r, k) <=> k = "frozenOpen" \/ Waits(u, k)
      /\ \A v : Asks(r, v) <=> Asks(u, v)
      /\ OneEach(u) => OneEach(r)
  BY <1>3, <1>4, <1>5, <1>6, PostedFacts, SameIdles
<1>8. Only({"mode", "live", "clip", "frozen", "idles"}, u, r) /\ r.pending = u.pending
  BY <1>6, <1>7 DEF Only, Fields
<1> QED
  BY <1>7, <1>8 DEF Orderly, Requested

LEMMA StartFrozenListCloseFacts ==
    ASSUME NEW u \in UIs, NEW r, r = StartFrozenListClose(u)
    PROVE  /\ r \in UIs
           /\ Only({"width", "slide", "listDetailAnimating", "stackView", "mode", "live", "clip",
                     "widthAnim", "widthTo", "heightAnim", "frozen", "closingActive", "idles"},
                   u, r)
           /\ ~r.slide /\ r.stackView = "list" /\ ~r.live /\ ~r.heightAnim
           /\ r.widthAnim = "close" /\ r.closingActive
           /\ \A l : l # "height" => (Waits(r, l) <=> Waits(u, l))
           /\ Orderly(u) => Orderly(r) /\ ~Waits(r, "height")
<1> DEFINE l == ResetLiveSlideToList(u)
           h == [l EXCEPT !.mode = "closing", !.live = FALSE, !.clip = "zero"]
<1>1. /\ l \in UIs /\ Only({"width", "slide", "listDetailAnimating", "stackView"}, u, l)
      /\ ~l.slide /\ l.stackView = "list"
  BY ResetLiveSlideToListFacts
<1>2. r = FrozenTransition(h, "close", "closed") /\ "closed" \in Views
  BY DEF StartFrozenListClose, Views
<1> HIDE DEF l
<1>3. h \in UIs
  BY <1>1, TypedStart
<1>4. Only({"mode", "live", "clip"}, l, h) /\ ~h.live
  BY <1>1 DEF UIs, Only, Fields
<1> HIDE DEF h
<1>5. /\ Only({"width", "slide", "listDetailAnimating", "stackView", "mode", "live", "clip"}, u, h)
      /\ ~h.slide /\ h.stackView = "list" /\ h.idles = u.idles /\ h.pending = u.pending
  BY <1>1, <1>4 DEF Only, Fields
<1>6. /\ r \in UIs
      /\ Only({"width", "widthAnim", "widthTo", "heightAnim", "frozen", "closingActive",
                "idles"}, h, r)
      /\ r.widthAnim = "close" /\ r.closingActive /\ ~r.heightAnim
      /\ \A k : k # "height" => (Waits(r, k) <=> Waits(h, k))
      /\ Orderly(h) => Orderly(r) /\ ~Waits(r, "height")
  BY <1>2, <1>3, FrozenTransitionFacts
<1>7. ~r.slide /\ r.stackView = "list" /\ ~r.live
  BY <1>4, <1>5, <1>6 DEF Only, Fields
<1>8. Only({"width", "slide", "listDetailAnimating", "stackView", "mode", "live", "clip",
            "widthAnim", "widthTo", "heightAnim", "frozen", "closingActive", "idles"}, u, r)
  BY <1>5, <1>6 DEF Only
<1> QED
  BY <1>5, <1>6, <1>7, <1>8, SameIdles

LEMMA TypedForgotten ==
    ASSUME NEW u \in UIs, NEW v \in Views, NEW x \in Views \cup {None}
    PROVE  [u EXCEPT !.panelView = v, !.pending = x] \in UIs
BY DEF UIs

LEMMA TypedUnselected ==
    ASSUME NEW u \in UIs, NEW s \in Sessions \cup {None}
    PROVE  [u EXCEPT !.pinned = FALSE, !.selected = s] \in UIs
BY DEF UIs

LEMMA ForgetSessionsFacts ==
    ASSUME NEW u \in UIs, NEW r, r = ForgetSessions(u)
    PROVE  /\ r \in UIs
           /\ Only({"hover", "panelView", "pending", "pinned", "selected", "idles",
                     "width", "slide", "listDetailAnimating", "stackView"}, u, r)
           /\ r.panelView = "closed" /\ ~r.slide /\ r.stackView = "list"
           /\ u.slide \/ r.width = u.width
           /\ \A k : k # "panel" => (Waits(r, k) <=> Waits(u, k))
           /\ Orderly(u) => Orderly(r)
<1> DEFINE w == Without(u, "panel")
           c == CancelHoverClose(w)
           l == ResetLiveSlideToList(c)
           e == [l EXCEPT !.panelView = "closed", !.pending = None]
<1>1. /\ w \in UIs /\ Only({"idles"}, u, w)
      /\ \A k : k # "panel" => (Waits(w, k) <=> Waits(u, k))
      /\ OneEach(u) => OneEach(w) /\ ~Waits(w, "panel")
  BY WithoutFacts
<1> HIDE DEF w
<1>2. c \in UIs /\ Only({"hover"}, w, c)
  <2>1. c \in UIs
    BY <1>1, ZenonT(40) DEF CancelHoverClose, UIs
  <2>2. Only({"hover"}, w, c)
    BY <1>1 DEF CancelHoverClose, UIs, Only, Fields
  <2> QED
    BY <2>1, <2>2
<1> HIDE DEF c
<1>3. /\ l \in UIs /\ Only({"width", "slide", "listDetailAnimating", "stackView"}, c, l)
      /\ ~l.slide /\ l.stackView = "list" /\ (c.slide \/ l.width = c.width)
  BY <1>2, ResetLiveSlideToListFacts
<1>4. r = [e EXCEPT !.pinned = FALSE, !.selected = None]
  BY DEF ForgetSessions, l, c, w
<1> HIDE DEF l
<1>5. e \in UIs /\ Only({"panelView", "pending"}, l, e) /\ e.panelView = "closed" /\ e.pending = None
  <2>1. e \in UIs
    <3>1. "closed" \in Views
      BY DEF Views
    <3> QED
      BY <1>3, <3>1, TypedForgotten, Zenon
  <2>2. Only({"panelView", "pending"}, l, e) /\ e.panelView = "closed" /\ e.pending = None
    BY <1>3 DEF UIs, Only, Fields
  <2> QED
    BY <2>1, <2>2
<1> HIDE DEF e
<1>6. r \in UIs
  <2>1. None \in Sessions \cup {None}
    OBVIOUS
  <2>2. [e EXCEPT !.pinned = FALSE, !.selected = None] \in UIs
    BY <1>5, <2>1, TypedUnselected, Zenon
  <2> QED
    BY <1>4, <2>2, Zenon
<1>7. Only({"pinned", "selected"}, e, r)
  BY <1>4, <1>5 DEF UIs, Only, Fields
<1>8. Only({"hover", "panelView", "pending", "pinned", "selected", "idles",
            "width", "slide", "listDetailAnimating", "stackView"}, u, r)
  BY <1>1, <1>2, <1>3, <1>5, <1>7 DEF Only
<1>9. /\ r.panelView = "closed" /\ r.pending = None /\ ~r.slide /\ r.stackView = "list"
      /\ u.slide \/ r.width = u.width
  <2>1. c.slide = u.slide /\ c.width = u.width
    BY <1>1, <1>2 DEF Only, Fields
  <2>2. e.slide = l.slide /\ e.width = l.width /\ e.stackView = l.stackView
    BY <1>5 DEF Only, Fields
  <2>3. /\ r.slide = e.slide /\ r.width = e.width /\ r.stackView = e.stackView
        /\ r.panelView = e.panelView /\ r.pending = e.pending
    BY <1>7 DEF Only, Fields
  <2> QED
    BY <1>3, <1>5, <2>1, <2>2, <2>3
<1>10. r.idles = w.idles
  BY <1>2, <1>3, <1>5, <1>7 DEF Only, Fields
<1>11. ASSUME Orderly(u) PROVE Orderly(r)
  <2>1. OneEach(r) /\ ~Waits(r, "panel")
    BY <1>1, <1>10, <1>11, SameIdles DEF Orderly
  <2>2. \A v : ~Asks(r, v)
    BY <2>1 DEF Asks, Waits
  <2>3. \A v \in Views : v # None
    BY PanelAssumption DEF Views
  <2> QED
    BY <1>9, <2>1, <2>2, <2>3 DEF Orderly, Requested
<1> QED
  BY <1>1, <1>6, <1>8, <1>9, <1>10, <1>11, SameIdles

\* The fields of the surface, and those of the page that is built on it.
Surface ==
    {"width", "widthAnim", "widthTo", "slide", "listDetailAnimating", "stackView", "mode",
     "live", "clip", "frozen", "heightAnim", "wasExpanded", "closingActive", "rows", "shown",
     "hover", "selected", "pending", "idles"}

\* The page of u is built in r, and the shell is at its width or on the way to it.
Rebuilt(u, r) ==
    /\ r \in UIs
    /\ Only(Surface \ {"wasExpanded", "closingActive", "mode", "frozen"}, u, r)
    /\ r.stackView = u.panelView
    /\ u.panelView = "detail" => r.shown \in ToSet(u.payload)
    /\ r.live /\ ~r.heightAnim /\ Waits(r, "height")
    /\ r.widthAnim \in {"none", "shell"}
    /\ r.widthAnim = "shell" \/ r.slide => r.widthTo = u.panelView
    /\ r.widthAnim = "shell" \/ r.slide \/ r.width = u.panelView
    /\ \A k : k \notin {"panel", "height"} => (Waits(r, k) <=> Waits(u, k))
    /\ Orderly(u) => Orderly(r)

\* The page is built and measured, and the shell goes to its width.
LEMMA RebuiltFacts ==
    ASSUME NEW u \in UIs, NEW m \in Measures, u.payload # <<>>, u.panelView \in Pages,
           NEW b \in BOOLEAN, NEW c \in BOOLEAN,
           NEW w, w = SyncDetailHeight(RebuildDetail(u, m), b),
           NEW r, (r = w /\ w.listDetailAnimating) \/ r = UpdateShellWidth(w, c)
    PROVE  Rebuilt(u, r)
<1> DEFINE d == RebuildDetail(u, m)
<1>1. /\ d \in UIs
      /\ Only({"hover", "selected", "pending", "idles", "rows", "shown", "width",
                "widthAnim", "widthTo", "slide", "listDetailAnimating", "stackView"}, u, d)
      /\ d.stackView = u.panelView
      /\ d.slide => d.widthTo = u.panelView
      /\ d.listDetailAnimating => d.slide /\ d.widthAnim = "none"
      /\ u.panelView = "detail" => d.shown \in ToSet(u.payload)
      /\ \A k : k # "panel" => (Waits(d, k) <=> Waits(u, k))
      /\ Orderly(u) => Orderly(d)
  BY RebuildDetailFacts
<1> HIDE DEF d
<1>2. /\ w \in UIs /\ Only({"heightAnim", "live", "clip", "idles"}, d, w)
      /\ ~w.heightAnim /\ w.live
      /\ \A k : Waits(w, k) <=> k = "height" \/ Waits(d, k)
      /\ Orderly(d) => Orderly(w)
  BY <1>1, SyncDetailHeightFacts DEF d
<1>3. /\ w.stackView = d.stackView /\ w.shown = d.shown /\ w.slide = d.slide
      /\ w.widthTo = d.widthTo /\ w.widthAnim = d.widthAnim
      /\ w.listDetailAnimating = d.listDetailAnimating
  BY <1>2 DEF Only, Fields
<1>4. Only(Surface \ {"wasExpanded", "closingActive", "mode", "frozen"}, u, w)
  BY <1>1, <1>2 DEF Only, Surface
<1>5. w.panelView = u.panelView /\ w.payload = u.payload
  BY <1>4 DEF Only, Fields, Surface
<1>6. CASE r = w /\ w.listDetailAnimating
  BY <1>1, <1>2, <1>3, <1>4, <1>6 DEF Rebuilt
<1>7. CASE r = UpdateShellWidth(w, c)
  <2>1. TargetWidth(w) = u.panelView
    BY <1>5 DEF TargetWidth
  <2>2. /\ r \in UIs
        /\ Only({"width", "widthAnim", "widthTo", "heightAnim", "live", "clip", "idles"}, w, r)
        /\ \/ r.widthAnim = "shell" /\ r.widthTo = u.panelView
           \/ r.widthAnim = "none" /\ r.widthTo = w.widthTo /\ r.width = u.panelView
        /\ r.live /\ ~r.heightAnim
        /\ Waits(r, "height")
        /\ \A k : k # "height" => (Waits(r, k) <=> Waits(w, k))
        /\ Orderly(w) => Orderly(r)
    BY <1>2, <1>7, <2>1, UpdateShellWidthFacts
  <2>3. r.stackView = d.stackView /\ r.shown = d.shown /\ r.slide = d.slide
    BY <1>3, <2>2 DEF Only, Fields
  <2>4. Only(Surface \ {"wasExpanded", "closingActive", "mode", "frozen"}, u, r)
    BY <1>4, <2>2 DEF Only, Surface
  <2> QED
    BY <1>1, <1>2, <1>3, <2>2, <2>3, <2>4 DEF Rebuilt
<1> QED
  BY <1>6, <1>7

\* What rebuildUI starts from while the view has not changed under the moving list:
\* nothing moves that does not lead to the view it shall show.
Ready(u) ==
    /\ ~u.closingActive /\ u.widthAnim \notin {"open", "close"}
    /\ u.wasExpanded \/ u.stackView = "list"
    /\ Unmoved(u)
    /\ Opens(u) => TargetWidth(u) = "list"
    /\ Closes(u) => TargetWidth(u) = "closed"
    /\ TargetWidth(u) = "closed" /\ u.wasExpanded => u.listMeasured

\* Fields and callbacks that the agreement does not depend on.
LEMMA SettlingKept ==
    ASSUME NEW u, NEW r,
           Only({"hover", "selected", "pinned", "pending", "idles", "backdrop", "backdropAnim",
                 "backdropShown", "rows", "shown", "mode", "listMeasured", "crossed", "running",
                 "listDetailAnimating"}, u, r),
           \A k : k # "panel" => (Waits(r, k) <=> Waits(u, k))
    PROVE  Settling(u) => Settling(r)
<1>1. /\ r.panelView = u.panelView /\ r.payload = u.payload /\ r.stackView = u.stackView
      /\ r.closingActive = u.closingActive /\ r.widthAnim = u.widthAnim
      /\ r.widthTo = u.widthTo /\ r.width = u.width /\ r.slide = u.slide
      /\ r.frozen = u.frozen /\ r.heightAnim = u.heightAnim /\ r.live = u.live
      /\ r.clip = u.clip /\ r.wasExpanded = u.wasExpanded
  BY DEF Only, Fields
<1>2. /\ (Opens(r) <=> Opens(u)) /\ (Closes(r) <=> Closes(u))
      /\ Waits(r, "height") <=> Waits(u, "height")
  BY <1>1 DEF Opens, Closes
<1>3. Unmoved(r) <=> Unmoved(u)
  BY <1>1, <1>2 DEF Unmoved
<1> QED
  BY <1>1, <1>2, <1>3 DEF Settling

\* An open view: the frozen list starts to move, or the page is built at once.
LEMMA RebuildOpenFacts ==
    ASSUME NEW u \in UIs, NEW m \in Measures, u.payload # <<>>, u.panelView \in Pages,
           NEW r, r = RebuildOpen(u, m)
    PROVE  /\ r \in UIs /\ Only(Surface \ {"closingActive"}, u, r)
           /\ u.panelView = "detail" => r.shown \in ToSet(u.payload)
           /\ Orderly(u) => Orderly(r)
           /\ Ready(u) => Settling(r)
<1>0. TargetWidth(u) = u.panelView
  BY DEF TargetWidth
<1>1. CASE u.panelView = "list" /\ ~u.wasExpanded
  <2>1. r = StartFrozenListOpen(u)
    BY <1>1 DEF RebuildOpen
  <2>2. /\ r \in UIs /\ Only({"mode", "live", "clip", "frozen", "idles"}, u, r)
        /\ \A k : Waits(r, k) <=> k = "frozenOpen" \/ Waits(u, k)
        /\ Orderly(u) => Orderly(r)
    BY <2>1, StartFrozenListOpenFacts
  <2>3. Only(Surface \ {"closingActive"}, u, r)
    BY <2>2 DEF Only, Surface
  <2>4. ASSUME Ready(u) PROVE Settling(r)
    <3>1. /\ r.panelView = u.panelView /\ r.payload = u.payload /\ r.stackView = u.stackView
          /\ r.closingActive = u.closingActive /\ r.widthAnim = u.widthAnim
          /\ r.slide = u.slide /\ r.heightAnim = u.heightAnim
          /\ r.wasExpanded = u.wasExpanded
      BY <2>2 DEF Only, Fields
    <3>2. Opens(r) /\ (Waits(r, "height") <=> Waits(u, "height")) /\ (Closes(r) <=> Closes(u))
      BY <2>2, <3>1 DEF Opens, Closes
    <3>3. Unmoved(r)
      BY <2>4, <3>1, <3>2 DEF Ready, Unmoved
    <3>4. ~Closes(r)
      BY <1>0, <1>1, <2>4, <3>2 DEF Ready
    <3>5. r.widthAnim # "shell" /\ ~r.slide /\ ~r.heightAnim
      BY <1>1, <3>1, <3>3 DEF Unmoved
    <3>6. r.panelView = "list" /\ r.stackView = "list" /\ ~r.closingActive
          /\ r.widthAnim \notin {"open", "close"} /\ ~r.wasExpanded /\ r.payload # <<>>
      BY <1>1, <2>4, <3>1 DEF Ready
    <3> QED
      BY <3>2, <3>3, <3>4, <3>5, <3>6 DEF Settling
  <2> QED
    BY <1>1, <2>2, <2>3, <2>4
<1>2. CASE ~(u.panelView = "list" /\ ~u.wasExpanded)
  <2> DEFINE x == [u EXCEPT !.wasExpanded = TRUE, !.mode = "none"]
             o == HideFrozen(x)
             w == SyncDetailHeight(RebuildDetail(o, m), TRUE)
  <2>1. x \in UIs
    BY DEF UIs
  <2>2. Only({"wasExpanded", "mode"}, u, x) /\ x.wasExpanded
    BY DEF UIs, Only, Fields
  <2>3. (r = w /\ w.listDetailAnimating) \/ r = UpdateShellWidth(w, m.still)
    BY <1>2 DEF RebuildOpen
  <2> HIDE DEF x
  <2>4. o \in UIs /\ Only({"frozen"}, x, o) /\ ~o.frozen
    BY <2>1, HideFrozenFacts
  <2> HIDE DEF o
  <2>5. /\ Only({"wasExpanded", "mode", "frozen"}, u, o) /\ o.wasExpanded /\ o.idles = u.idles
        /\ o.pending = u.pending /\ o.panelView = u.panelView /\ o.payload = u.payload
        /\ o.closingActive = u.closingActive
    BY <2>2, <2>4 DEF Only, Fields
  <2>6. m.still \in BOOLEAN
    BY DEF Measures
  <2>7. /\ r \in UIs
        /\ Only(Surface \ {"wasExpanded", "closingActive", "mode", "frozen"}, o, r)
        /\ r.stackView = u.panelView
        /\ u.panelView = "detail" => r.shown \in ToSet(u.payload)
        /\ r.live /\ ~r.heightAnim /\ Waits(r, "height")
        /\ r.widthAnim \in {"none", "shell"}
        /\ r.widthAnim = "shell" \/ r.slide => r.widthTo = u.panelView
        /\ r.widthAnim = "shell" \/ r.slide \/ r.width = u.panelView
        /\ \A k : k \notin {"panel", "height"} => (Waits(r, k) <=> Waits(o, k))
        /\ Orderly(o) => Orderly(r)
    <3> DEFINE b == TRUE
    <3>1. w = SyncDetailHeight(RebuildDetail(o, m), b) /\ b \in BOOLEAN
      OBVIOUS
    <3>2. o.payload # <<>> /\ o.panelView \in Pages
      BY <2>5
    <3> HIDE DEF w, b
    <3>3. Rebuilt(o, r)
      BY <2>3, <2>4, <2>6, <3>1, <3>2, RebuiltFacts
    <3> QED
      BY <2>5, <3>3 DEF Rebuilt
  <2>8. Only(Surface \ {"closingActive"}, u, r)
    BY <2>5, <2>7 DEF Only, Surface
  <2>9. ASSUME Ready(u) PROVE Settling(r)
    <3>1. /\ r.panelView = u.panelView /\ r.payload = u.payload
          /\ r.closingActive = u.closingActive /\ r.wasExpanded /\ ~r.frozen
      BY <2>4, <2>5, <2>7 DEF Only, Fields, Surface
    <3>2. Opens(r) => Opens(u)
      BY <2>5, <2>7, SameIdles DEF Opens
    <3>3. Closes(r) => Closes(u)
      BY <2>5, <2>7, SameIdles DEF Closes
    <3>4. Unmoved(r) /\ ~r.closingActive
      BY <2>9, <3>1 DEF Unmoved, Ready
    <3>5. (Opens(r) => u.panelView = "list") /\ ~Closes(r)
      BY <1>0, <2>9, <3>2, <3>3 DEF Ready, Pages
    <3>6. u.panelView # "closed" /\ r.stackView = IF u.panelView = "detail" THEN "detail" ELSE "list"
      BY <2>7 DEF Pages
    <3> QED
      BY <2>7, <3>1, <3>4, <3>5, <3>6 DEF Settling
  <2> QED
    BY <2>5, <2>7, <2>8, <2>9, SameIdles
<1> QED
  BY <1>1, <1>2

LEMMA TypedClosed ==
    ASSUME NEW u \in UIs, NEW v \in Views
    PROVE  [u EXCEPT !.mode = "none", !.width = v] \in UIs
BY DEF UIs

LEMMA TypedInterrupted ==
    ASSUME NEW u \in UIs
    PROVE  [u EXCEPT !.closingActive = FALSE, !.mode = "none"] \in UIs
BY DEF UIs

\* A closed view: put away at once, or after the frozen list has moved away.
LEMMA RebuildClosedFacts ==
    ASSUME NEW u \in UIs, NEW m \in Measures, u.panelView = "closed",
           NEW r, r = RebuildClosed(u, m)
    PROVE  /\ r \in UIs /\ Only(Surface, u, r)
           /\ Orderly(u) => Orderly(r)
           /\ Ready(u) /\ Orderly(u) => Settling(r)
<1>0. TargetWidth(u) = "closed"
  BY DEF TargetWidth
<1>1. CASE ~u.wasExpanded
  <2> DEFINE x == [u EXCEPT !.live = FALSE, !.clip = "zero"]
             y == [x EXCEPT !.mode = "none", !.width = "closed"]
  <2>1. x \in UIs
    BY DEF UIs
  <2>2. Only({"live", "clip"}, u, x) /\ ~x.live
    BY DEF UIs, Only, Fields
  <2>3. r = HideFrozen(y)
    BY <1>1 DEF RebuildClosed
  <2> HIDE DEF x
  <2>4. y \in UIs
    <3>1. "closed" \in Views
      BY DEF Views
    <3> QED
      BY <2>1, <3>1, TypedClosed, Zenon
  <2>5. Only({"mode", "width"}, x, y) /\ y.width = "closed"
    BY <2>1 DEF UIs, Only, Fields
  <2> HIDE DEF y
  <2>6. r \in UIs /\ Only({"frozen"}, y, r) /\ ~r.frozen
    BY <2>3, <2>4, HideFrozenFacts
  <2>7. /\ Only({"live", "clip", "mode", "width", "frozen"}, u, r)
        /\ ~r.live /\ r.width = "closed"
    BY <2>2, <2>5, <2>6 DEF Only, Fields
  <2>8. /\ r.idles = u.idles /\ r.pending = u.pending /\ r.panelView = u.panelView
        /\ r.stackView = u.stackView /\ r.closingActive = u.closingActive
        /\ r.widthAnim = u.widthAnim /\ r.slide = u.slide /\ r.heightAnim = u.heightAnim
        /\ r.wasExpanded = u.wasExpanded
    BY <2>7 DEF Only, Fields
  <2>9. Only(Surface, u, r)
    BY <2>7 DEF Only, Surface
  <2>10. ASSUME Ready(u) PROVE Settling(r)
    <3>1. /\ ~Opens(r) /\ Unmoved(r)
      BY <1>0, <2>8, <2>10, SameIdles DEF Ready, Opens, Unmoved
    <3>2. r.widthAnim # "shell" /\ ~r.slide /\ ~r.heightAnim /\ ~r.wasExpanded
      BY <1>1, <2>8, <3>1 DEF Unmoved
    <3>3. r.stackView = "list" /\ ~r.closingActive /\ r.widthAnim \notin {"open", "close"}
      BY <1>1, <2>8, <2>10 DEF Ready
    <3> QED
      BY <2>6, <2>7, <2>8, <3>1, <3>2, <3>3 DEF Settling
  <2> QED
    BY <2>6, <2>8, <2>9, <2>10, SameIdles
<1>2. CASE u.wasExpanded
  <2> DEFINE l == [u EXCEPT !.wasExpanded = FALSE]
  <2>1. l \in UIs
    BY DEF UIs
  <2>2. Only({"wasExpanded"}, u, l) /\ ~l.wasExpanded
    BY DEF UIs, Only, Fields
  <2>3. r = l \/ r = StartFrozenListClose(l)
    BY <1>2 DEF RebuildClosed
  <2>4. u.listMeasured => r = StartFrozenListClose(l)
    BY <1>2 DEF RebuildClosed
  <2> HIDE DEF l
  <2>5. l.idles = u.idles /\ l.pending = u.pending /\ l.panelView = "closed" /\ Only(Surface, u, l)
    BY <2>2 DEF Only, Fields, Surface
  <2>6. CASE r = StartFrozenListClose(l)
    <3>1. /\ r \in UIs
          /\ Only({"width", "slide", "listDetailAnimating", "stackView", "mode", "live", "clip",
                    "widthAnim", "widthTo", "heightAnim", "frozen", "closingActive", "idles"},
                  l, r)
          /\ ~r.slide /\ r.stackView = "list" /\ ~r.live /\ ~r.heightAnim
          /\ r.widthAnim = "close" /\ r.closingActive
          /\ \A k : k # "height" => (Waits(r, k) <=> Waits(l, k))
          /\ Orderly(l) => Orderly(r) /\ ~Waits(r, "height")
      BY <2>1, <2>6, StartFrozenListCloseFacts
    <3>2. r.panelView = "closed" /\ ~r.wasExpanded
      BY <2>2, <2>5, <3>1 DEF Only, Fields
    <3>3. Only(Surface, u, r)
      BY <2>5, <3>1 DEF Only, Surface
    <3>4. ASSUME Ready(u), Orderly(u) PROVE Settling(r)
      <4>1. ~Opens(r) /\ Closes(r)
        BY <1>0, <2>5, <3>1, <3>4, SameIdles DEF Ready, Opens, Closes
      <4>2. Unmoved(r)
        BY <2>5, <3>1, <3>4, SameIdles DEF Unmoved
      <4> QED
        BY <3>1, <3>2, <4>1, <4>2 DEF Settling
    <3> QED
      BY <2>5, <3>1, <3>3, <3>4, SameIdles
  <2>7. CASE r = l /\ ~u.listMeasured
    <3>1. ~Ready(u)
      BY <1>0, <1>2, <2>7 DEF Ready
    <3> QED
      BY <2>1, <2>5, <2>7, <3>1, SameIdles
  <2> QED
    BY <2>3, <2>4, <2>6, <2>7
<1> QED
  BY <1>1, <1>2

\* The rebuild of the panel from what panelView and the payload say.
LEMMA RebuildUIFacts ==
    ASSUME NEW u \in UIs, NEW m \in Measures, NEW r, r = RebuildUI(u, m)
    PROVE  /\ r \in UIs
           /\ Only(Surface \cup {"panelView", "pinned", "backdrop", "backdropAnim",
                                 "backdropShown"}, u, r)
           /\ r.panelView = TargetWidth(u)
           /\ r.backdrop <=> BackdropActive(u)
           /\ r.panelView = "detail" => r.shown \in ToSet(u.payload)
           /\ Orderly(u) => Orderly(r)
           /\ Ready(u) /\ Orderly(u) => Settling(r)
           /\ u.closingActive /\ u.payload # <<>> /\ Settling(u) => Settling(r)
<1> DEFINE f == IF u.payload = <<>> THEN ForgetSessions(u) ELSE u
           k == SyncBackdrop(f, BackdropActive(u))
           c == [k EXCEPT !.closingActive = FALSE, !.mode = "none"]
           free == IF k.closingActive THEN HideFrozen(c) ELSE k
           Forgotten == {"hover", "panelView", "pending", "pinned", "selected", "idles",
                         "width", "slide", "listDetailAnimating", "stackView"}
<1>1. BackdropActive(u) \in BOOLEAN
  BY DEF BackdropActive, UIs
<1>2. /\ f \in UIs /\ Only(Forgotten, u, f) /\ f.panelView = TargetWidth(u)
      /\ \A l : l # "panel" => (Waits(f, l) <=> Waits(u, l))
      /\ Orderly(u) => Orderly(f)
      /\ u.payload # <<>> => f = u
  <2>1. CASE u.payload = <<>>
    BY <2>1, ForgetSessionsFacts DEF TargetWidth
  <2>2. CASE u.payload # <<>>
    BY <2>2 DEF TargetWidth, Only
  <2> QED
    BY <2>1, <2>2
<1>10. ASSUME u.payload = <<>> PROVE f.stackView = "list" /\ ~f.slide
  BY <1>10, ForgetSessionsFacts
<1> HIDE DEF f
<1>3. /\ k \in UIs /\ Only({"backdrop", "backdropAnim", "backdropShown"}, f, k)
      /\ k.backdrop <=> BackdropActive(u)
  BY <1>1, <1>2, SyncBackdropFacts
<1>4. r = IF k.closingActive /\ k.panelView # "detail" THEN k
          ELSE IF k.panelView = "closed" THEN RebuildClosed(free, m)
          ELSE RebuildOpen(free, m)
  BY DEF RebuildUI, f
<1> HIDE DEF k
<1>5. /\ k.panelView = TargetWidth(u) /\ k.payload = u.payload /\ k.idles = f.idles
      /\ k.pending = f.pending /\ k.closingActive = u.closingActive
  BY <1>2, <1>3 DEF Only, Fields
<1>6. Only(Forgotten \cup {"backdrop", "backdropAnim", "backdropShown"}, u, k)
  BY <1>2, <1>3 DEF Only
<1>7. ASSUME u.closingActive, u.payload # <<>>, Settling(u)
      PROVE  Settling(k) /\ k.panelView # "detail"
  <2>1. Settling(k)
    BY <1>2, <1>3, <1>5, <1>7, SettlingKept, SameIdles DEF Only
  <2> QED
    BY <1>5, <1>7, <2>1 DEF Settling, Opens, Closes
<1>8. CASE k.closingActive /\ k.panelView # "detail"
  <2>1. r = k /\ ~Ready(u)
    BY <1>4, <1>5, <1>8 DEF Ready
  <2>2. Only(Surface \cup {"panelView", "pinned", "backdrop", "backdropAnim", "backdropShown"}, u, r)
    BY <1>6, <2>1 DEF Only, Surface
  <2>3. Orderly(u) => Orderly(r)
    BY <1>2, <1>5, <2>1, SameIdles
  <2> QED
    BY <1>3, <1>5, <1>7, <1>8, <2>1, <2>2, <2>3
<1>9. CASE ~(k.closingActive /\ k.panelView # "detail")
  <2>1. c \in UIs
    BY <1>3, TypedInterrupted
  <2>2. Only({"closingActive", "mode"}, k, c)
    BY <1>3 DEF UIs, Only, Fields
  <2> HIDE DEF c
  <2>3. /\ free \in UIs /\ Only({"closingActive", "mode", "frozen"}, k, free)
        /\ ~k.closingActive => free = k
    <3>1. CASE k.closingActive
      <4>1. free \in UIs /\ Only({"frozen"}, c, free)
        BY <2>1, <3>1, HideFrozenFacts
      <4> QED
        BY <2>2, <3>1, <4>1 DEF Only
    <3>2. CASE ~k.closingActive
      BY <1>3, <3>2 DEF Only
    <3> QED
      BY <3>1, <3>2
  <2> HIDE DEF free
  <2>4. /\ free.panelView = TargetWidth(u) /\ free.payload = u.payload
        /\ free.idles = k.idles /\ free.pending = k.pending /\ free.backdrop = k.backdrop
    BY <1>5, <2>3 DEF Only, Fields
  <2>5. Orderly(u) => Orderly(free)
    BY <1>2, <1>5, <2>4, SameIdles
  <2>6. Ready(u) => Ready(free)
    <3> SUFFICES ASSUME Ready(u) PROVE Ready(free)
      OBVIOUS
    <3>1. free = k
      BY <1>5, <2>3 DEF Ready
    <3>2. /\ free.widthAnim = u.widthAnim /\ free.wasExpanded = u.wasExpanded
          /\ free.heightAnim = u.heightAnim /\ free.listMeasured = u.listMeasured
          /\ free.closingActive = u.closingActive
      BY <1>6, <3>1 DEF Only, Fields
    <3>3. free.stackView = f.stackView /\ free.slide = f.slide /\ free.idles = f.idles
      BY <1>3, <3>1 DEF Only, Fields
    <3>4. /\ u.stackView = "list" => free.stackView = "list"
          /\ ~u.slide => ~free.slide
      <4>1. CASE u.payload = <<>>
        <5>1. f.stackView = "list" /\ ~f.slide
          BY <1>10, <4>1
        <5> QED
          BY <3>3, <5>1
      <4>2. CASE u.payload # <<>>
        <5>1. f = u
          BY <1>2, <4>2
        <5> QED
          BY <3>3, <5>1
      <4> QED
        BY <4>1, <4>2
    <3>5. /\ Opens(free) <=> Opens(u)
          /\ Closes(free) <=> Closes(u)
          /\ Waits(free, "height") <=> Waits(u, "height")
      BY <1>2, <3>2, <3>3, SameIdles DEF Opens, Closes
    <3>6. TargetWidth(free) = TargetWidth(u)
      BY <2>4 DEF TargetWidth
    <3>7. Unmoved(free)
      BY <3>2, <3>4, <3>5 DEF Ready, Unmoved
    <3> QED
      BY <3>2, <3>4, <3>5, <3>6, <3>7 DEF Ready
  <2>7. /\ r \in UIs /\ Only(Surface, free, r)
        /\ free.panelView = "detail" => r.shown \in ToSet(u.payload)
        /\ Orderly(free) => Orderly(r)
        /\ Ready(free) /\ Orderly(free) => Settling(r)
    <3>1. CASE free.panelView = "closed"
      BY <1>4, <1>5, <1>9, <2>3, <2>4, <3>1, RebuildClosedFacts
    <3>2. CASE free.panelView # "closed"
      <4>1. free.panelView \in Pages
        BY <2>3, <3>2 DEF UIs, Views, Pages
      <4>2. free.payload # <<>>
        BY <2>4, <3>2 DEF TargetWidth
      <4>3. r = RebuildOpen(free, m)
        BY <1>4, <1>5, <1>9, <2>4, <3>2
      <4>4. /\ r \in UIs /\ Only(Surface \ {"closingActive"}, free, r)
            /\ free.panelView = "detail" => r.shown \in ToSet(free.payload)
            /\ Orderly(free) => Orderly(r)
            /\ Ready(free) => Settling(r)
        BY <2>3, <4>1, <4>2, <4>3, RebuildOpenFacts
      <4> QED
        BY <2>4, <4>4 DEF Only
    <3> QED
      BY <3>1, <3>2
  <2>8. r.panelView = TargetWidth(u) /\ (r.backdrop <=> BackdropActive(u))
    BY <1>3, <2>4, <2>7 DEF Only, Fields, Surface
  <2>9. Only(Surface \cup {"panelView", "pinned", "backdrop", "backdropAnim", "backdropShown"}, u, r)
    BY <1>6, <2>3, <2>7 DEF Only, Surface
  <2>10. u.closingActive /\ u.payload # <<>> => ~Settling(u)
    BY <1>5, <1>7, <1>9
  <2> QED
    BY <2>4, <2>5, <2>6, <2>7, <2>8, <2>9, <2>10
<1> QED
  BY <1>8, <1>9

-----------------------------------------------------------------------------
(* The steps.                                                              *)

Inv ==
    /\ ui \in UIs /\ inside \in BOOLEAN
    /\ DetailIsListed /\ BackdropBehindPanel
    /\ ui.payload = <<>> => ui.panelView = "closed"
    /\ Orderly(ui)
    /\ ui.running /\ ~ui.crossed => Settling(ui)

\* A request for a view, and what else an input changes besides.
Requests(u, r) ==
    /\ r \in UIs /\ Only({"hover", "selected", "pinned", "pending", "idles"}, u, r)
    /\ \A k : k # "panel" => (Waits(r, k) <=> Waits(u, k))
    /\ Orderly(u) => Orderly(r)

LEMMA RequestsTwice ==
    ASSUME NEW u, NEW w, NEW r, Requests(u, w), Requests(w, r)
    PROVE  Requests(u, r)
BY DEF Requests, Only

LEMMA CancelHoverCloseFacts ==
    ASSUME NEW u \in UIs
    PROVE  /\ Requests(u, CancelHoverClose(u))
           /\ CancelHoverClose(u).panelView = u.panelView /\ CancelHoverClose(u).payload = u.payload
<1> DEFINE r == CancelHoverClose(u)
<1>1. r \in UIs
  BY DEF CancelHoverClose, UIs
<1>2. Only({"hover"}, u, r)
  BY DEF CancelHoverClose, UIs, Only, Fields
<1> HIDE DEF r
<1>3. /\ r.panelView = u.panelView /\ r.payload = u.payload
      /\ r.idles = u.idles /\ r.pending = u.pending
  BY <1>2 DEF Only, Fields
<1>4. Requests(u, r)
  BY <1>1, <1>2, <1>3, SameIdles DEF Requests, Only
<1> QED
  BY <1>3, <1>4 DEF r

LEMMA PinPanelFacts ==
    ASSUME NEW u \in UIs
    PROVE  Requests(u, PinPanel(u))
<1> DEFINE w == CancelHoverClose(u)
           r == [w EXCEPT !.pinned = TRUE]
<1>1. CASE u.panelView = "closed"
  BY <1>1 DEF PinPanel, Requests, Only
<1>2. CASE u.panelView # "closed"
  <2>1. PinPanel(u) = r
    BY <1>2 DEF PinPanel
  <2>2. w \in UIs /\ Requests(u, w)
    BY CancelHoverCloseFacts DEF Requests
  <2> HIDE DEF w
  <2>3. r \in UIs
    BY <2>2 DEF UIs
  <2>4. Only({"pinned"}, w, r)
    BY <2>2 DEF UIs, Only, Fields
  <2> HIDE DEF r
  <2>5. r.idles = w.idles /\ r.pending = w.pending
    BY <2>4 DEF Only, Fields
  <2>6. Requests(w, r)
    BY <2>3, <2>4, <2>5, SameIdles DEF Requests, Only
  <2> QED
    BY <2>1, <2>2, <2>6, RequestsTwice
<1> QED
  BY <1>1, <1>2

LEMMA ScheduleRequests ==
    ASSUME NEW u \in UIs, NEW v \in Views
    PROVE  Requests(u, SchedulePanelView(u, v))
BY SchedulePanelViewFacts DEF Requests, Only

LEMMA DetailRequests ==
    ASSUME NEW u \in UIs, NEW s \in Sessions
    PROVE  Requests(u, OpenDetail(u, s))
BY OpenDetailFacts DEF Requests, Only

LEMMA OpenListRequests ==
    ASSUME NEW u \in UIs
    PROVE  Requests(u, OpenList(u))
<1>1. CASE u.payload = <<>>
  BY <1>1 DEF OpenList, Requests, Only
<1>2. CASE u.payload # <<>>
  <2>1. OpenList(u) = SchedulePanelView(CancelHoverClose(u), "list") /\ "list" \in Views
    BY <1>2 DEF OpenList, Views
  <2>2. Requests(u, CancelHoverClose(u)) /\ CancelHoverClose(u) \in UIs
    BY CancelHoverCloseFacts DEF Requests
  <2> QED
    BY <2>1, <2>2, ScheduleRequests, RequestsTwice
<1> QED
  BY <1>1, <1>2

LEMMA ClosePanelRequests ==
    ASSUME NEW u \in UIs
    PROVE  Requests(u, ClosePanel(u))
<1> DEFINE w == CancelHoverClose(u)
           r == [w EXCEPT !.pinned = FALSE]
<1>1. ClosePanel(u) = SchedulePanelView(r, "closed") /\ "closed" \in Views
  BY DEF ClosePanel, Views
<1>2. w \in UIs /\ Requests(u, w)
  BY CancelHoverCloseFacts DEF Requests
<1> HIDE DEF w
<1>3. r \in UIs
  BY <1>2, ZenonT(40) DEF UIs
<1>4. Only({"pinned"}, w, r)
  BY <1>2 DEF UIs, Only, Fields
<1> HIDE DEF r
<1>5. r.idles = w.idles /\ r.pending = w.pending
  BY <1>4 DEF Only, Fields
<1>6. Requests(w, r)
  BY <1>3, <1>4, <1>5, SameIdles DEF Requests, Only
<1>7. Requests(u, r)
  BY <1>2, <1>6, RequestsTwice
<1> QED
  BY <1>1, <1>3, <1>7, ScheduleRequests, RequestsTwice

\* A request changes nothing that the invariant speaks of.
LEMMA RequestsKeep ==
    ASSUME Inv, Requests(ui, ui'), inside' \in BOOLEAN
    PROVE  Inv'
<1>1. /\ ui'.panelView = ui.panelView /\ ui'.shown = ui.shown /\ ui'.payload = ui.payload
      /\ ui'.backdrop = ui.backdrop /\ ui'.running = ui.running /\ ui'.crossed = ui.crossed
  BY DEF Requests, Only, Fields
<1>2. DetailIsListed' /\ BackdropBehindPanel'
  BY <1>1 DEF Inv, DetailIsListed, BackdropBehindPanel
<1>3. Settling(ui) => Settling(ui')
  <2>1. /\ Only({"hover", "selected", "pinned", "pending", "idles", "backdrop", "backdropAnim",
                 "backdropShown", "rows", "shown", "mode", "listMeasured", "crossed", "running",
                 "listDetailAnimating"}, ui, ui')
        /\ \A k : k # "panel" => (Waits(ui', k) <=> Waits(ui, k))
    BY DEF Requests, Only
  <2> QED
    BY <2>1, SettlingKept
<1> QED
  BY <1>1, <1>2, <1>3 DEF Inv, Requests

\* Pointer and clicks only ask for views.
LEMMA InputKeeps ==
    ASSUME Inv,
           \/ HoverEnter \/ HoverLeave \/ ClickPill \/ (\E s \in Sessions : ClickRow(s))
           \/ ClickPage \/ ClickBack \/ FocusSession \/ ClickBackdrop \/ HoverTimeout
    PROVE  Inv'
<1> USE DEF Inv
<1>1. CASE HoverEnter
  <2>1. Requests(ui, CancelHoverClose(ui)) /\ CancelHoverClose(ui) \in UIs
    BY CancelHoverCloseFacts DEF Requests
  <2>2. Requests(ui, OpenList(CancelHoverClose(ui)))
    BY <2>1, OpenListRequests, RequestsTwice
  <2> QED
    BY <1>1, <2>1, <2>2, RequestsKeep DEF HoverEnter
<1>2. CASE HoverLeave
  <2> DEFINE r == [ui EXCEPT !.hover = TRUE]
  <2>1. r \in UIs
    BY DEF UIs
  <2>2. Only({"hover"}, ui, r)
    BY DEF UIs, Only, Fields
  <2>3. inside' \in BOOLEAN /\ (ui' = ui \/ ui' = r)
    BY <1>2 DEF HoverLeave
  <2> HIDE DEF r
  <2>4. r.idles = ui.idles /\ r.pending = ui.pending
    BY <2>2 DEF Only, Fields
  <2>5. Requests(ui, r)
    BY <2>1, <2>2, <2>4, SameIdles DEF Requests, Only
  <2>6. Requests(ui, ui)
    BY DEF Requests, Only
  <2> QED
    BY <2>3, <2>5, <2>6, RequestsKeep
<1>3. CASE ClickPill
  <2>1. ui \in UIs /\ ui.payload # <<>>
    BY <1>3 DEF ClickPill
  <2>2. ui.payload[1] \in Sessions
    BY <2>1, FirstListed
  <2>3. ui' = OpenDetail(ui, ui.payload[1]) /\ inside' \in BOOLEAN
    BY <1>3 DEF ClickPill
  <2> QED
    BY <2>2, <2>3, DetailRequests, RequestsKeep
<1>4. CASE \E s \in Sessions : ClickRow(s)
  <2>1. PICK s \in Sessions : ui' = OpenDetail(PinPanel(ui), s) /\ inside' \in BOOLEAN
    BY <1>4 DEF ClickRow
  <2>2. Requests(ui, PinPanel(ui)) /\ PinPanel(ui) \in UIs
    BY PinPanelFacts DEF Requests
  <2>3. Requests(ui, ui')
    BY <2>1, <2>2, DetailRequests, RequestsTwice
  <2> QED
    BY <2>1, <2>3, RequestsKeep
<1>5. CASE ClickPage
  BY <1>5, PinPanelFacts, RequestsKeep DEF ClickPage
<1>6. CASE ClickBack
  <2>1. Requests(ui, PinPanel(ui)) /\ PinPanel(ui) \in UIs /\ "list" \in Views
    BY PinPanelFacts DEF Requests, Views
  <2>2. ui' = SchedulePanelView(PinPanel(ui), "list") /\ inside' \in BOOLEAN
    BY <1>6 DEF ClickBack
  <2>3. Requests(ui, ui')
    BY <2>1, <2>2, ScheduleRequests, RequestsTwice
  <2> QED
    BY <2>2, <2>3, RequestsKeep
<1>7. CASE FocusSession
  BY <1>7, ClosePanelRequests, RequestsKeep DEF FocusSession
<1>8. CASE ClickBackdrop
  BY <1>8, ClosePanelRequests, RequestsKeep DEF ClickBackdrop
<1>9. CASE HoverTimeout
  BY <1>9, ClosePanelRequests, RequestsKeep DEF HoverTimeout
<1> QED
  BY <1>1, <1>2, <1>3, <1>4, <1>5, <1>6, <1>7, <1>8, <1>9

\* The first callback is taken, the others stay in their order.
LEMMA TakenFacts ==
    ASSUME ui \in UIs, NEW k, Due(k)
    PROVE  /\ Taken \in UIs /\ Only({"idles"}, ui, Taken)
           /\ ui.idles[1] \in Idle /\ ui.idles[1].kind = k /\ Waits(ui, k)
           /\ \A l : l # k => (Waits(Taken, l) <=> Waits(ui, l))
           /\ k # "panel" => (Orderly(ui) => Orderly(Taken))
           /\ OneEach(ui) => OneEach(Taken)
           /\ OneEach(ui) /\ k \in {"panel", "height"} => ~Waits(Taken, k)
<1> DEFINE n == Len(ui.idles)
           q == Tail(ui.idles)
<1>1. ui.idles \in Seq(Idle) /\ ui.idles # <<>> /\ ui.idles[1].kind = k
  BY DEF UIs, Due
<1>2. /\ q \in Seq(Idle) /\ n \in Nat /\ n >= 1 /\ Len(q) = n - 1 /\ ui.idles[1] \in Idle
      /\ \A i \in 1..(n - 1) : q[i] = ui.idles[i + 1]
  BY <1>1
<1> HIDE DEF n, q
<1>3. Taken = [ui EXCEPT !.idles = q]
  BY DEF Taken, q
<1>4. Taken \in UIs
  BY <1>2, <1>3 DEF UIs
<1>5. Only({"idles"}, ui, Taken) /\ Taken.idles = q
  BY <1>3 DEF UIs, Only, Fields
<1>6. ASSUME NEW j \in 1..n, j # 1
      PROVE  j - 1 \in 1..(n - 1) /\ q[j - 1] = ui.idles[j]
  <2>1. j - 1 \in 1..(n - 1) /\ (j - 1) + 1 = j
    BY <1>2, <1>6
  <2> QED
    BY <1>2, <2>1
<1>7. ASSUME NEW j \in 1..(n - 1)
      PROVE  j + 1 \in 1..n /\ j + 1 # 1 /\ q[j] = ui.idles[j + 1]
  BY <1>2
<1>8. \A l : l # k => (Waits(Taken, l) <=> Waits(ui, l))
  <2> SUFFICES ASSUME NEW l, l # k PROVE Waits(Taken, l) <=> Waits(ui, l)
    OBVIOUS
  <2>1. Waits(Taken, l) <=> \E j \in 1..(n - 1) : q[j].kind = l
    BY <1>2, <1>5 DEF Waits
  <2>2. Waits(ui, l) <=> \E j \in 1..n : ui.idles[j].kind = l
    BY DEF Waits, n
  <2>3. ASSUME NEW j \in 1..n, ui.idles[j].kind = l PROVE j # 1
    BY <1>1, <2>3
  <2> QED
    BY <1>6, <1>7, <2>1, <2>2, <2>3
<1>9. Waits(ui, k)
  BY <1>1, <1>2 DEF Waits, n
<1>10. OneEach(ui) => OneEach(Taken)
  <2> SUFFICES ASSUME OneEach(ui), NEW i \in 1..(n - 1), NEW j \in 1..(n - 1),
                      q[i].kind = q[j].kind, q[i].kind \in {"panel", "height"}
               PROVE  i = j
    BY <1>2, <1>5 DEF OneEach
  <2>1. i + 1 = j + 1
    BY <1>7 DEF OneEach, n
  <2> QED
    BY <1>2, <2>1
<1>11. OneEach(ui) /\ k \in {"panel", "height"} => ~Waits(Taken, k)
  <2> SUFFICES ASSUME OneEach(ui), k \in {"panel", "height"}, NEW j \in 1..(n - 1), q[j].kind = k
               PROVE  FALSE
    BY <1>2, <1>5 DEF Waits
  <2>1. ui.idles[j + 1].kind = k /\ j + 1 \in 1..n /\ 1 \in 1..n /\ j + 1 # 1
    BY <1>2, <1>7
  <2> QED
    BY <1>1, <2>1 DEF OneEach, n
<1>12. k # "panel" => \A v : Asks(Taken, v) <=> Asks(ui, v)
  <2> SUFFICES ASSUME k # "panel", NEW v PROVE Asks(Taken, v) <=> Asks(ui, v)
    OBVIOUS
  <2>1. Asks(Taken, v) <=> \E j \in 1..(n - 1) : q[j] = [kind |-> "panel", view |-> v]
    BY <1>2, <1>5 DEF Asks
  <2>2. Asks(ui, v) <=> \E j \in 1..n : ui.idles[j] = [kind |-> "panel", view |-> v]
    BY DEF Asks, n
  <2>3. ASSUME NEW j \in 1..n, ui.idles[j] = [kind |-> "panel", view |-> v] PROVE j # 1
    BY <1>1, <2>3
  <2> QED
    BY <1>6, <1>7, <2>1, <2>2, <2>3
<1>13. Taken.pending = ui.pending
  BY <1>5 DEF Only, Fields
<1> QED
  BY <1>1, <1>2, <1>4, <1>5, <1>8, <1>9, <1>10, <1>11, <1>12, <1>13 DEF Orderly, Requested

\* The frozen list neither moves nor is about to.
LEMMA Quiet ==
    ASSUME NEW u \in UIs, ~ListMoves(u), Settling(u)
    PROVE  /\ ~u.closingActive /\ u.widthAnim \notin {"open", "close"}
           /\ ~Opens(u) /\ ~Closes(u)
           /\ u.panelView = "closed" \/ u.listMeasured
<1>1. /\ ~u.closingActive /\ (u.panelView = "closed" \/ u.listMeasured)
      /\ \A i \in ToSet(u.idles) : i.kind \notin {"frozenOpen", "openDone", "closeDone"}
  BY DEF ListMoves
<1>2. u.widthAnim \notin {"open", "close"}
  BY <1>1 DEF Settling
<1>3. u.idles \in Seq(Idle)
  BY DEF UIs
<1>4. ~Waits(u, "frozenOpen") /\ ~Waits(u, "openDone") /\ ~Waits(u, "closeDone")
  BY <1>1, <1>3 DEF Waits, ToSet
<1> QED
  BY <1>1, <1>2, <1>4 DEF Opens, Closes

\* What the invariant needs of a rebuild of w, whose fields are ui's but for these.
LEMMA RebuildKeeps ==
    ASSUME Inv, NEW w \in UIs, NEW m \in Measures,
           Only({"payload", "panelView", "crossed", "pending", "idles"}, ui, w),
           Orderly(w),
           w.running /\ ~w.crossed =>
              Ready(w) \/ (w.closingActive /\ w.payload # <<>> /\ Settling(w)),
           ui' = RebuildUI(w, m), inside' \in BOOLEAN
    PROVE  Inv'
<1>1. /\ ui' \in UIs
      /\ Only(Surface \cup {"panelView", "pinned", "backdrop", "backdropAnim",
                            "backdropShown"}, w, ui')
      /\ ui'.panelView = TargetWidth(w)
      /\ ui'.backdrop <=> BackdropActive(w)
      /\ ui'.panelView = "detail" => ui'.shown \in ToSet(w.payload)
      /\ Orderly(w) => Orderly(ui')
      /\ Ready(w) /\ Orderly(w) => Settling(ui')
      /\ w.closingActive /\ w.payload # <<>> /\ Settling(w) => Settling(ui')
  BY RebuildUIFacts
<1>2. ui'.payload = w.payload /\ ui'.running = w.running /\ ui'.crossed = w.crossed
  BY <1>1 DEF Only, Fields, Surface
<1>3. BackdropActive(w) => TargetWidth(w) # "closed"
  BY DEF BackdropActive, TargetWidth
<1>4. ui'.running /\ ~ui'.crossed => Settling(ui')
  BY <1>1, <1>2
<1> QED
  BY <1>1, <1>2, <1>3, <1>4 DEF Inv, DetailIsListed, BackdropBehindPanel, TargetWidth

LEMMA DeliverPayloadKeeps ==
    ASSUME Inv, NEW p \in Payloads, DeliverPayload(p)
    PROVE  Inv'
<1> DEFINE w == [ui EXCEPT !.payload = p, !.crossed = @ \/ (ListMoves(ui) /\ p = <<>>)]
           b == ui.crossed \/ (ListMoves(ui) /\ p = <<>>)
<1>1. ui \in UIs /\ p \in Lists /\ b \in BOOLEAN
  BY DEF Inv, UIs, Lists
<1>2. w = [ui EXCEPT !.payload = p, !.crossed = b]
  OBVIOUS
<1>3. PICK m \in Measures : ui' = RebuildUI(w, m) /\ inside' \in BOOLEAN
  BY DEF DeliverPayload, Inv
<1> HIDE DEF w
<1>4. b => ui.crossed \/ (ListMoves(ui) /\ p = <<>>)
  OBVIOUS
<1>5. ui.crossed \/ (ListMoves(ui) /\ p = <<>>) => b
  OBVIOUS
<1> HIDE DEF b
<1>6. w \in UIs
  BY <1>1, <1>2 DEF UIs
<1>7. Only({"payload", "crossed"}, ui, w) /\ w.payload = p /\ (w.crossed <=> b)
  BY <1>1, <1>2 DEF UIs, Only, Fields
<1>8. /\ w.running = ui.running /\ w.idles = ui.idles /\ w.pending = ui.pending
      /\ w.panelView = ui.panelView /\ w.closingActive = ui.closingActive
      /\ w.widthAnim = ui.widthAnim /\ w.wasExpanded = ui.wasExpanded
      /\ w.stackView = ui.stackView /\ w.slide = ui.slide /\ w.heightAnim = ui.heightAnim
      /\ w.listMeasured = ui.listMeasured
  BY <1>7 DEF Only, Fields
<1>9. /\ w.widthTo = ui.widthTo /\ w.width = ui.width /\ w.frozen = ui.frozen
      /\ w.live = ui.live /\ w.clip = ui.clip
  BY <1>7 DEF Only, Fields
<1>10. Orderly(w)
  BY <1>8, SameIdles DEF Inv
<1>11. /\ Opens(w) <=> Opens(ui)
       /\ Closes(w) <=> Closes(ui)
       /\ Waits(w, "height") <=> Waits(ui, "height")
       /\ Unmoved(w) <=> Unmoved(ui)
  BY <1>8, SameIdles DEF Opens, Closes, Unmoved
<1>12. ASSUME w.running, ~w.crossed
       PROVE  Ready(w) \/ (w.closingActive /\ w.payload # <<>> /\ Settling(w))
  <2>1. Settling(ui) /\ (p = <<>> => ~ListMoves(ui))
    BY <1>5, <1>7, <1>8, <1>12 DEF Inv
  <2>2. CASE p = <<>>
    <3>1. /\ ~ui.closingActive /\ ui.widthAnim \notin {"open", "close"}
          /\ ~Opens(ui) /\ ~Closes(ui) /\ (ui.panelView = "closed" \/ ui.listMeasured)
      BY <1>1, <2>1, <2>2, Quiet
    <3>2. /\ ui.wasExpanded \/ ui.stackView = "list"
          /\ ui.wasExpanded => ui.panelView # "closed"
          /\ Unmoved(ui)
      BY <2>1, <3>1 DEF Settling
    <3> QED
      BY <1>8, <1>11, <3>1, <3>2 DEF Ready
  <2>3. CASE p # <<>>
    <3>1. w.payload # <<>> /\ TargetWidth(w) = ui.panelView
      BY <1>7, <1>8, <2>3 DEF TargetWidth
    <3>2. CASE ui.closingActive
      <4>1. Settling(w)
        BY <1>8, <1>9, <1>11, <2>1, <3>1 DEF Settling
      <4> QED
        BY <1>8, <3>1, <3>2, <4>1
    <3>3. CASE ~ui.closingActive
      <4>1. /\ ui.widthAnim \notin {"open", "close"}
            /\ Opens(ui) => ui.panelView = "list"
            /\ Closes(ui) => ui.panelView = "closed"
            /\ Unmoved(ui)
            /\ ui.wasExpanded => ui.panelView # "closed"
            /\ ui.wasExpanded \/ ui.stackView = "list"
        BY <2>1, <3>3 DEF Settling
      <4> QED
        BY <1>8, <1>11, <3>1, <3>3, <4>1 DEF Ready
    <3> QED
      BY <3>2, <3>3
  <2> QED
    BY <2>2, <2>3
<1>13. Only({"payload", "panelView", "crossed", "pending", "idles"}, ui, w)
  BY <1>7 DEF Only
<1> QED
  BY <1>3, <1>6, <1>10, <1>12, <1>13, RebuildKeeps

LEMMA RunPanelKeeps ==
    ASSUME Inv, RunPanel
    PROVE  Inv'
<1> DEFINE v == ui.idles[1].view
           u == [Taken EXCEPT !.pending = None]
           b == ui.crossed \/ ListMoves(ui)
           w == [u EXCEPT !.panelView = v, !.crossed = b]
<1>1. ui \in UIs /\ Due("panel") /\ OneEach(ui) /\ inside' \in BOOLEAN
  BY DEF Inv, RunPanel, Orderly
<1>2. /\ Taken \in UIs /\ Only({"idles"}, ui, Taken)
      /\ ui.idles[1] \in Idle /\ ui.idles[1].kind = "panel"
      /\ \A l : l # "panel" => (Waits(Taken, l) <=> Waits(ui, l))
      /\ OneEach(Taken) /\ ~Waits(Taken, "panel")
  BY <1>1, TakenFacts
<1>3. v \in Views
  BY <1>2 DEF Idle
<1>4. u \in UIs
  BY <1>2 DEF UIs
<1>5. Only({"pending"}, Taken, u) /\ u.pending = None
  BY <1>2 DEF UIs, Only, Fields
<1>6. \/ ui.panelView = v /\ ui' = u
      \/ /\ ui.panelView # v
         /\ \E m \in Measures :
                ui' = RebuildUI([u EXCEPT !.panelView = v, !.crossed = @ \/ ListMoves(ui)], m)
  BY DEF RunPanel
<1>7. Only({"pending", "idles"}, ui, u) /\ u.idles = Taken.idles /\ u.crossed = ui.crossed
  BY <1>2, <1>5 DEF Only, Fields
<1>8. [u EXCEPT !.panelView = v, !.crossed = @ \/ ListMoves(ui)] = w
  BY <1>7
<1>9. b \in BOOLEAN /\ (b <=> ui.crossed \/ ListMoves(ui))
  BY <1>1 DEF UIs
<1> HIDE DEF u, v, b
<1>10. ASSUME NEW r, r.idles = u.idles, r.pending = u.pending PROVE Orderly(r)
  <2>1. OneEach(r) /\ ~Waits(r, "panel")
    BY <1>2, <1>7, <1>10, SameIdles
  <2>2. \A y : ~Asks(r, y)
    BY <2>1 DEF Asks, Waits
  <2>3. \A y \in Views : y # None
    BY PanelAssumption DEF Views
  <2> QED
    BY <1>5, <1>10, <2>1, <2>2, <2>3 DEF Orderly, Requested
<1>11. CASE ui' = u
  <2>1. Requests(ui, u)
    BY <1>2, <1>4, <1>7, <1>10, SameIdles DEF Requests, Only
  <2> QED
    BY <1>1, <1>11, <2>1, RequestsKeep
<1>12. CASE ui.panelView # v /\ \E m \in Measures : ui' = RebuildUI(w, m)
  <2>1. w \in UIs
    BY <1>3, <1>4, <1>9 DEF UIs
  <2>2. Only({"panelView", "crossed"}, u, w) /\ w.panelView = v /\ (w.crossed <=> b)
    BY <1>4, <1>9 DEF UIs, Only, Fields
  <2>3. PICK m \in Measures : ui' = RebuildUI(w, m)
    BY <1>12
  <2> HIDE DEF w
  <2>4. Only({"payload", "panelView", "crossed", "pending", "idles"}, ui, w)
    BY <1>7, <2>2 DEF Only
  <2>5. w.idles = u.idles /\ w.pending = u.pending
    BY <2>2 DEF Only, Fields
  <2>6. Orderly(w)
    BY <1>10, <2>5
  <2>7. ASSUME w.running, ~w.crossed PROVE Ready(w)
    <3>1. /\ w.running = ui.running /\ w.payload = ui.payload
          /\ w.closingActive = ui.closingActive
          /\ w.widthAnim = ui.widthAnim /\ w.wasExpanded = ui.wasExpanded
          /\ w.stackView = ui.stackView /\ w.slide = ui.slide /\ w.heightAnim = ui.heightAnim
          /\ w.listMeasured = ui.listMeasured
      BY <1>7, <2>2 DEF Only, Fields
    <3>2. Settling(ui) /\ ~ListMoves(ui)
      BY <1>9, <2>2, <2>7, <3>1 DEF Inv
    <3>3. /\ ~ui.closingActive /\ ui.widthAnim \notin {"open", "close"}
          /\ ~Opens(ui) /\ ~Closes(ui) /\ (ui.panelView = "closed" \/ ui.listMeasured)
      BY <1>1, <3>2, Quiet
    <3>4. /\ ui.wasExpanded \/ ui.stackView = "list"
          /\ ui.wasExpanded => ui.panelView # "closed"
          /\ Unmoved(ui)
      BY <3>2, <3>3 DEF Settling
    <3>5. /\ ~Opens(w) /\ ~Closes(w) /\ (Waits(w, "height") <=> Waits(ui, "height"))
      BY <1>2, <1>7, <2>5, <3>1, <3>3, SameIdles DEF Opens, Closes
    <3>6. Unmoved(w)
      BY <3>1, <3>4, <3>5 DEF Unmoved
    <3> QED
      BY <3>1, <3>3, <3>4, <3>5, <3>6 DEF Ready
  <2> QED
    BY <1>1, <2>1, <2>3, <2>4, <2>6, <2>7, RebuildKeeps
<1> QED
  BY <1>6, <1>8, <1>11, <1>12

\* A step that leaves the view, the sessions and the backdrop alone.
LEMMA SurfaceKeeps ==
    ASSUME Inv, ui' \in UIs, inside' \in BOOLEAN,
           Only(Fields \ {"panelView", "shown", "payload", "backdrop", "running", "crossed"},
                ui, ui'),
           Orderly(ui'),
           Settling(ui) => Settling(ui')
    PROVE  Inv'
<1>1. /\ ui'.panelView = ui.panelView /\ ui'.shown = ui.shown /\ ui'.payload = ui.payload
      /\ ui'.backdrop = ui.backdrop /\ ui'.running = ui.running /\ ui'.crossed = ui.crossed
  BY DEF Only, Fields
<1> QED
  BY <1>1 DEF Inv, DetailIsListed, BackdropBehindPanel

LEMMA HeightDoneKeeps ==
    ASSUME Inv, HeightDone
    PROVE  Inv'
<1>1. ui \in UIs /\ inside' \in BOOLEAN /\ ui' = [ui EXCEPT !.heightAnim = FALSE, !.clip = "own"]
  BY DEF Inv, HeightDone
<1>2. ui' \in UIs
  BY <1>1 DEF UIs
<1>3. Only({"heightAnim", "clip"}, ui, ui') /\ ~ui'.heightAnim /\ ui'.clip = "own"
  BY <1>1 DEF UIs, Only, Fields
<1>4. /\ ui'.idles = ui.idles /\ ui'.pending = ui.pending
      /\ ui'.panelView = ui.panelView /\ ui'.payload = ui.payload /\ ui'.stackView = ui.stackView
      /\ ui'.closingActive = ui.closingActive /\ ui'.widthAnim = ui.widthAnim
      /\ ui'.widthTo = ui.widthTo /\ ui'.width = ui.width /\ ui'.slide = ui.slide
      /\ ui'.frozen = ui.frozen /\ ui'.live = ui.live /\ ui'.wasExpanded = ui.wasExpanded
  BY <1>3 DEF Only, Fields
<1>5. ui.heightAnim
  BY DEF HeightDone
<1>6. ASSUME Settling(ui) PROVE Settling(ui')
  <2>1. /\ Opens(ui') <=> Opens(ui)
        /\ Closes(ui') <=> Closes(ui)
        /\ Waits(ui', "height") <=> Waits(ui, "height")
    BY <1>4, SameIdles DEF Opens, Closes
  <2>2. Unmoved(ui')
    BY <1>3, <1>4, <1>6, <2>1 DEF Settling, Unmoved
  <2>3. ui'.live
    BY <1>4, <1>5, <1>6 DEF Settling
  <2> QED
    BY <1>3, <1>4, <1>6, <2>1, <2>2, <2>3 DEF Settling
<1>7. Only(Fields \ {"panelView", "shown", "payload", "backdrop", "running", "crossed"}, ui, ui')
  BY <1>3 DEF Only, Fields
<1> QED
  BY <1>1, <1>2, <1>4, <1>6, <1>7, SurfaceKeeps, SameIdles DEF Inv

LEMMA BackdropDoneKeeps ==
    ASSUME Inv, BackdropDone
    PROVE  Inv'
<1> DEFINE b == ui.backdropAnim = "in"
<1>1. ui \in UIs /\ inside' \in BOOLEAN /\ b \in BOOLEAN
      /\ ui' = [ui EXCEPT !.backdropAnim = "none", !.backdropShown = b]
  BY DEF Inv, BackdropDone
<1> HIDE DEF b
<1>2. ui' \in UIs
  BY <1>1 DEF UIs
<1>3. Only({"backdropAnim", "backdropShown"}, ui, ui')
  BY <1>1 DEF UIs, Only, Fields
<1>4. ui'.idles = ui.idles /\ ui'.pending = ui.pending
  BY <1>3 DEF Only, Fields
<1>5. Settling(ui) => Settling(ui')
  <2>1. Only({"hover", "selected", "pinned", "pending", "idles", "backdrop", "backdropAnim",
              "backdropShown", "rows", "shown", "mode", "listMeasured", "crossed", "running",
              "listDetailAnimating"}, ui, ui')
    BY <1>3 DEF Only
  <2> QED
    BY <1>4, <2>1, SameIdles, SettlingKept
<1>6. Only(Fields \ {"panelView", "shown", "payload", "backdrop", "running", "crossed"}, ui, ui')
  BY <1>3 DEF Only, Fields
<1> QED
  BY <1>1, <1>2, <1>4, <1>5, <1>6, SurfaceKeeps, SameIdles DEF Inv

LEMMA RunCloseDoneKeeps ==
    ASSUME Inv, RunCloseDone
    PROVE  Inv'
<1> DEFINE c == [Taken EXCEPT !.mode = "none"]
<1>1. ui \in UIs /\ inside' \in BOOLEAN /\ Due("closeDone") /\ ui' = HideFrozen(c) /\ Orderly(ui)
  BY DEF Inv, RunCloseDone
<1>2. /\ Taken \in UIs /\ Only({"idles"}, ui, Taken) /\ Waits(ui, "closeDone")
      /\ \A l : l # "closeDone" => (Waits(Taken, l) <=> Waits(ui, l))
      /\ Orderly(Taken)
  BY <1>1, TakenFacts
<1>3. c \in UIs
  BY <1>2 DEF UIs
<1>4. Only({"mode"}, Taken, c)
  BY <1>2 DEF UIs, Only, Fields
<1> HIDE DEF c
<1>5. ui' \in UIs /\ Only({"frozen"}, c, ui') /\ ~ui'.frozen
  BY <1>1, <1>3, HideFrozenFacts
<1>6. Only({"idles", "mode", "frozen"}, ui, ui') /\ ui'.idles = Taken.idles
      /\ ui'.pending = Taken.pending
  BY <1>2, <1>4, <1>5 DEF Only, Fields
<1>7. /\ ui'.panelView = ui.panelView /\ ui'.payload = ui.payload /\ ui'.stackView = ui.stackView
      /\ ui'.closingActive = ui.closingActive /\ ui'.widthAnim = ui.widthAnim
      /\ ui'.widthTo = ui.widthTo /\ ui'.width = ui.width /\ ui'.slide = ui.slide
      /\ ui'.live = ui.live /\ ui'.wasExpanded = ui.wasExpanded
      /\ ui'.heightAnim = ui.heightAnim /\ ui'.clip = ui.clip
  BY <1>6 DEF Only, Fields
<1>8. ASSUME Settling(ui) PROVE Settling(ui')
  <2>1. ui.panelView = "closed" /\ ~Opens(ui)
    BY <1>2, <1>8 DEF Settling, Closes
  <2>2. ~Opens(ui') /\ (Waits(ui', "height") <=> Waits(ui, "height"))
    BY <1>2, <1>6, <1>7, <2>1, SameIdles DEF Opens
  <2>3. Unmoved(ui')
    BY <1>7, <1>8, <2>2 DEF Settling, Unmoved
  <2> QED
    BY <1>5, <1>7, <1>8, <2>1, <2>2, <2>3 DEF Settling
<1>9. Only(Fields \ {"panelView", "shown", "payload", "backdrop", "running", "crossed"}, ui, ui')
  BY <1>6 DEF Only, Fields
<1> QED
  BY <1>1, <1>2, <1>5, <1>6, <1>8, <1>9, SurfaceKeeps, SameIdles

LEMMA RunFrozenOpenKeeps ==
    ASSUME Inv, RunFrozenOpen
    PROVE  Inv'
<1> DEFINE f == FrozenTransition(Taken, "open", "list")
<1>1. ui \in UIs /\ inside' \in BOOLEAN /\ Due("frozenOpen") /\ Orderly(ui)
      /\ ui' = [f EXCEPT !.listMeasured = TRUE]
  BY DEF Inv, RunFrozenOpen
<1>2. /\ Taken \in UIs /\ Only({"idles"}, ui, Taken) /\ Waits(ui, "frozenOpen")
      /\ \A l : l # "frozenOpen" => (Waits(Taken, l) <=> Waits(ui, l))
      /\ Orderly(Taken)
  BY <1>1, TakenFacts
<1>3. "list" \in Views /\ "open" \in {"open", "close"}
  BY DEF Views
<1>4. /\ f \in UIs
      /\ Only({"width", "widthAnim", "widthTo", "heightAnim", "frozen", "closingActive",
                "idles"}, Taken, f)
      /\ f.widthAnim = "open" /\ f.widthTo = "list" /\ f.closingActive /\ ~f.heightAnim
      /\ \A l : l # "height" => (Waits(f, l) <=> Waits(Taken, l))
      /\ Orderly(f) /\ ~Waits(f, "height")
  BY <1>2, <1>3, FrozenTransitionFacts
<1> HIDE DEF f
<1>5. ui' \in UIs
  BY <1>1, <1>4 DEF UIs
<1>6. Only({"listMeasured"}, f, ui')
  BY <1>1, <1>4 DEF UIs, Only, Fields
<1>7. /\ ui'.idles = f.idles /\ ui'.pending = f.pending /\ ui'.widthAnim = f.widthAnim
      /\ ui'.widthTo = f.widthTo /\ ui'.closingActive = f.closingActive
      /\ ui'.heightAnim = f.heightAnim
  BY <1>6 DEF Only, Fields
<1>8. /\ ui'.panelView = ui.panelView /\ ui'.payload = ui.payload /\ ui'.stackView = ui.stackView
      /\ ui'.slide = ui.slide /\ ui'.live = ui.live /\ ui'.wasExpanded = ui.wasExpanded
  BY <1>2, <1>4, <1>6 DEF Only, Fields
<1>9. ASSUME Settling(ui) PROVE Settling(ui')
  <2>1. ui.panelView = "list" /\ ~Closes(ui)
    BY <1>2, <1>9 DEF Settling, Opens
  <2>2. Opens(ui') /\ ~Closes(ui') /\ ~Waits(ui', "height")
    BY <1>2, <1>4, <1>7, <2>1, SameIdles DEF Opens, Closes
  <2>3. Unmoved(ui')
    BY <1>4, <1>7, <1>8, <1>9, <2>2 DEF Settling, Unmoved
  <2> QED
    BY <1>4, <1>7, <1>8, <1>9, <2>1, <2>2, <2>3 DEF Settling
<1>10. Only(Fields \ {"panelView", "shown", "payload", "backdrop", "running", "crossed"}, ui, ui')
  BY <1>2, <1>4, <1>6 DEF Only, Fields
<1> QED
  BY <1>1, <1>4, <1>5, <1>7, <1>9, <1>10, SurfaceKeeps, SameIdles

LEMMA TypedReleased ==
    ASSUME NEW u \in UIs, NEW b \in BOOLEAN
    PROVE  [u EXCEPT !.live = TRUE, !.listMeasured = b] \in UIs
BY DEF UIs

LEMMA TypedGrowing ==
    ASSUME NEW u \in UIs
    PROVE  [u EXCEPT !.clip = "fixed", !.heightAnim = TRUE] \in UIs
BY DEF UIs

LEMMA RunHeightKeeps ==
    ASSUME Inv, RunHeight
    PROVE  Inv'
<1> DEFINE i == ui.idles[1]
           b == Taken.listMeasured \/ ui.panelView = "list"
           u == [Taken EXCEPT !.live = TRUE, !.listMeasured = b]
           own == [u EXCEPT !.clip = "own"]
           grown == [u EXCEPT !.clip = "fixed", !.heightAnim = TRUE]
<1>1. ui \in UIs /\ inside' \in BOOLEAN /\ Due("height") /\ Orderly(ui)
  BY DEF Inv, RunHeight
<1>2. /\ Taken \in UIs /\ Only({"idles"}, ui, Taken) /\ Waits(ui, "height")
      /\ i \in Idle /\ i.kind = "height"
      /\ \A l : l # "height" => (Waits(Taken, l) <=> Waits(ui, l))
      /\ Orderly(Taken) /\ ~Waits(Taken, "height")
  BY <1>1, TakenFacts DEF Orderly
<1>3. \/ ui' = Taken /\ ui.panelView = "closed"
      \/ ui' = Posted(Taken, NextAttempt(i)) /\ MayRetry(i)
      \/ ui.panelView # "closed" /\ (ui' = own \/ ui' = grown)
  BY DEF RunHeight
<1>4. Taken.panelView = ui.panelView /\ Taken.pending = ui.pending /\ b \in BOOLEAN
  BY <1>2 DEF Only, Fields, UIs
<1> HIDE DEF b
<1>5. u \in UIs
  BY <1>2, <1>4, TypedReleased
<1>6. Only({"live", "listMeasured"}, Taken, u) /\ u.live
  BY <1>2 DEF UIs, Only, Fields
<1> HIDE DEF u
<1>7. Orderly(ui') /\ ui' \in UIs
      /\ Only({"idles", "live", "listMeasured", "clip", "heightAnim"}, ui, ui')
      /\ (\A l : l # "height" => (Waits(ui', l) <=> Waits(ui, l)))
      /\ \/ ui.panelView = "closed" /\ Only({"idles"}, ui, ui')
         \/ Only({"idles"}, ui, ui') /\ Waits(ui', "height")
         \/ ui.panelView # "closed" /\ ui'.live /\ (ui'.clip = "own" \/ ui'.heightAnim)
  <2>1. CASE ui' = Taken /\ ui.panelView = "closed"
    BY <1>2, <2>1 DEF Only
  <2>2. CASE ui' = Posted(Taken, NextAttempt(i)) /\ MayRetry(i)
    <3> DEFINE n == NextAttempt(i)
    <3>1. n \in Idle /\ n.kind = "height"
      BY <1>2, <2>2, PanelAssumption DEF NextAttempt, MayRetry, Idle
    <3>2. \A v : n # [kind |-> "panel", view |-> v]
      BY <3>1
    <3> HIDE DEF n
    <3>3. /\ ui' \in UIs /\ Only({"idles"}, Taken, ui')
          /\ \A k : Waits(ui', k) <=> Waits(Taken, k) \/ n.kind = k
          /\ \A v : Asks(ui', v) <=> Asks(Taken, v) \/ n = [kind |-> "panel", view |-> v]
          /\ OneEach(ui')
      <4>1. ui' = Posted(Taken, n)
        BY <2>2 DEF n
      <4>2. OneEach(Taken) /\ ~(n.kind \in {"panel", "height"} /\ Waits(Taken, n.kind))
        BY <1>2, <3>1 DEF Orderly
      <4> QED
        BY <1>2, <3>1, <4>1, <4>2, PostedFacts
    <3>4. Only({"idles"}, ui, ui') /\ ui'.pending = Taken.pending
      BY <1>2, <3>3 DEF Only, Fields
    <3>5. Orderly(ui')
      BY <1>2, <3>2, <3>3, <3>4 DEF Orderly, Requested
    <3>6. \A l : l # "height" => (Waits(ui', l) <=> Waits(ui, l))
      BY <1>2, <3>1, <3>3
    <3>7. Waits(ui', "height")
      BY <3>1, <3>3
    <3>8. Only({"idles", "live", "listMeasured", "clip", "heightAnim"}, ui, ui')
      BY <3>4 DEF Only
    <3> QED
      BY <3>3, <3>4, <3>5, <3>6, <3>7, <3>8
  <2>3. CASE ui.panelView # "closed" /\ ui' = own
    <3>1. ui' \in UIs
      BY <1>5, <2>3 DEF UIs
    <3>2. Only({"clip"}, u, ui') /\ ui'.clip = "own"
      BY <1>5, <2>3 DEF UIs, Only, Fields
    <3>3. ui'.idles = Taken.idles /\ ui'.pending = Taken.pending /\ ui'.live
      BY <1>6, <3>2 DEF Only, Fields
    <3>4. Only({"idles", "live", "listMeasured", "clip", "heightAnim"}, ui, ui')
      BY <1>2, <1>6, <3>2 DEF Only
    <3> QED
      BY <1>2, <2>3, <3>1, <3>2, <3>3, <3>4, SameIdles
  <2>4. CASE ui.panelView # "closed" /\ ui' = grown
    <3>1. ui' \in UIs
      BY <1>5, <2>4, TypedGrowing
    <3>2. Only({"clip", "heightAnim"}, u, ui') /\ ui'.heightAnim
      BY <1>5, <2>4 DEF UIs, Only, Fields
    <3>3. ui'.idles = Taken.idles /\ ui'.pending = Taken.pending /\ ui'.live
      BY <1>6, <3>2 DEF Only, Fields
    <3>4. Only({"idles", "live", "listMeasured", "clip", "heightAnim"}, ui, ui')
      BY <1>2, <1>6, <3>2 DEF Only
    <3> QED
      BY <1>2, <2>4, <3>1, <3>2, <3>3, <3>4, SameIdles
  <2> QED
    BY <1>3, <2>1, <2>2, <2>3, <2>4
<1> HIDE DEF own, grown
<1>8. /\ ui'.panelView = ui.panelView /\ ui'.payload = ui.payload /\ ui'.stackView = ui.stackView
      /\ ui'.closingActive = ui.closingActive /\ ui'.widthAnim = ui.widthAnim
      /\ ui'.widthTo = ui.widthTo /\ ui'.width = ui.width /\ ui'.slide = ui.slide
      /\ ui'.frozen = ui.frozen /\ ui'.wasExpanded = ui.wasExpanded
  BY <1>7 DEF Only, Fields
<1>9. ASSUME Settling(ui) PROVE Settling(ui')
  <2>1. /\ Opens(ui') <=> Opens(ui)
        /\ Closes(ui') <=> Closes(ui)
    BY <1>7, <1>8 DEF Opens, Closes
  <2>2. ui.wasExpanded /\ ui.panelView # "closed"
    BY <1>2, <1>9 DEF Settling, Unmoved
  <2>3. Unmoved(ui')
    BY <1>8, <2>2 DEF Unmoved
  <2>4. \/ Waits(ui', "height") /\ ui'.heightAnim = ui.heightAnim /\ ui'.live = ui.live
        \/ ui'.live /\ (ui'.clip = "own" \/ ui'.heightAnim)
    BY <1>7, <2>2 DEF Only, Fields
  <2>5. /\ ui'.heightAnim => ui'.live
        /\ (ui'.live /\ ui'.clip = "own") \/ Waits(ui', "height") \/ ui'.heightAnim
    BY <1>9, <2>4 DEF Settling
  <2> QED
    BY <1>8, <1>9, <2>1, <2>2, <2>3, <2>5 DEF Settling
<1>10. Only(Fields \ {"panelView", "shown", "payload", "backdrop", "running", "crossed"}, ui, ui')
  BY <1>7 DEF Only, Fields
<1> QED
  BY <1>1, <1>7, <1>9, <1>10, SurfaceKeeps

\* The end of an animation has the detail page measured again.
LEMMA MeasuredKeeps ==
    ASSUME Inv, NEW u \in UIs, inside' \in BOOLEAN,
           Only({"widthAnim", "width", "slide", "listDetailAnimating"}, ui, u),
           Settling(ui) => Settling(u),
           \/ ui' = u
           \/ ui' = SyncDetailHeight(u, FALSE) /\ ui.panelView = "detail"
    PROVE  Inv'
<1>1. u.idles = ui.idles /\ u.pending = ui.pending /\ u.panelView = ui.panelView /\ Orderly(ui)
  BY DEF Only, Fields, Inv
<1>2. Orderly(u)
  BY <1>1, SameIdles
<1>3. CASE ui' = u
  <2>1. Only(Fields \ {"panelView", "shown", "payload", "backdrop", "running", "crossed"}, ui, ui')
    BY <1>3 DEF Only, Fields
  <2> QED
    BY <1>2, <1>3, <2>1, SurfaceKeeps
<1>4. CASE ui' = SyncDetailHeight(u, FALSE) /\ ui.panelView = "detail"
  <2> DEFINE b == FALSE
  <2>1. ui' = SyncDetailHeight(u, b) /\ b \in BOOLEAN
    BY <1>4
  <2> HIDE DEF b
  <2>2. /\ ui' \in UIs /\ Only({"heightAnim", "live", "clip", "idles"}, u, ui')
        /\ ~ui'.heightAnim /\ ui'.live
        /\ \A k : Waits(ui', k) <=> k = "height" \/ Waits(u, k)
        /\ Orderly(u) => Orderly(ui')
    BY <2>1, SyncDetailHeightFacts
  <2>3. /\ ui'.panelView = u.panelView /\ ui'.payload = u.payload /\ ui'.stackView = u.stackView
        /\ ui'.closingActive = u.closingActive /\ ui'.widthAnim = u.widthAnim
        /\ ui'.widthTo = u.widthTo /\ ui'.width = u.width /\ ui'.slide = u.slide
        /\ ui'.frozen = u.frozen /\ ui'.wasExpanded = u.wasExpanded
    BY <2>2 DEF Only, Fields
  <2>4. ASSUME Settling(ui) PROVE Settling(ui')
    <3>1. Settling(u) /\ u.panelView = "detail"
      BY <1>1, <1>4, <2>4
    <3>2. ~Opens(u) /\ ~Closes(u) /\ u.wasExpanded
      BY <3>1 DEF Settling
    <3>3. ~Opens(ui') /\ ~Closes(ui') /\ Waits(ui', "height")
      BY <2>2, <2>3, <3>2 DEF Opens, Closes
    <3>4. Unmoved(ui')
      BY <2>3, <3>2 DEF Unmoved
    <3> QED
      BY <2>2, <2>3, <3>1, <3>2, <3>3, <3>4 DEF Settling
  <2>5. Only(Fields \ {"panelView", "shown", "payload", "backdrop", "running", "crossed"}, ui, ui')
    BY <2>2 DEF Only, Fields
  <2> QED
    BY <1>2, <2>2, <2>4, <2>5, SurfaceKeeps
<1> QED
  BY <1>3, <1>4

LEMMA TypedArrived ==
    ASSUME NEW u \in UIs, NEW v \in Views
    PROVE  [u EXCEPT !.widthAnim = "none", !.width = v] \in UIs
BY DEF UIs

LEMMA WidthDoneKeeps ==
    ASSUME Inv, WidthDone
    PROVE  Inv'
<1> DEFINE t == ui.widthTo
           u == [ui EXCEPT !.widthAnim = "none", !.width = t]
<1>1. ui \in UIs /\ inside' \in BOOLEAN /\ ui.widthAnim = "shell" /\ t \in Views
  BY DEF Inv, WidthDone, UIs
<1>2. \/ ui' = u
      \/ ui' = SyncDetailHeight(u, FALSE) /\ ui.panelView = "detail"
  BY DEF WidthDone
<1> HIDE DEF t
<1>3. u \in UIs
  BY <1>1, TypedArrived
<1>4. Only({"widthAnim", "width"}, ui, u) /\ u.widthAnim = "none" /\ u.width = t
  BY <1>1 DEF UIs, Only, Fields
<1> HIDE DEF u
<1>5. /\ u.idles = ui.idles /\ u.panelView = ui.panelView /\ u.payload = ui.payload
      /\ u.stackView = ui.stackView /\ u.closingActive = ui.closingActive
      /\ u.widthTo = ui.widthTo /\ u.slide = ui.slide /\ u.live = ui.live /\ u.clip = ui.clip
      /\ u.frozen = ui.frozen /\ u.wasExpanded = ui.wasExpanded
      /\ u.heightAnim = ui.heightAnim
  BY <1>4 DEF Only, Fields
<1>6. ASSUME Settling(ui) PROVE Settling(u)
  <2>1. /\ Opens(u) <=> Opens(ui)
        /\ Closes(u) <=> Closes(ui)
        /\ Waits(u, "height") <=> Waits(ui, "height")
    BY <1>1, <1>4, <1>5, SameIdles DEF Opens, Closes
  <2>2. Unmoved(u) /\ ~ui.closingActive
    BY <1>1, <1>4, <1>5, <1>6, <2>1 DEF Settling, Unmoved
  <2>3. u.width = u.panelView
    BY <1>1, <1>4, <1>5, <1>6 DEF Settling, t
  <2> QED
    BY <1>4, <1>5, <1>6, <2>1, <2>2, <2>3 DEF Settling
<1>7. Only({"widthAnim", "width", "slide", "listDetailAnimating"}, ui, u)
  BY <1>4 DEF Only
<1> QED
  BY <1>1, <1>2, <1>3, <1>6, <1>7, MeasuredKeeps

LEMMA TypedSlid ==
    ASSUME NEW u \in UIs, NEW v \in Views
    PROVE  [u EXCEPT !.slide = FALSE, !.listDetailAnimating = FALSE, !.width = v] \in UIs
BY DEF UIs

LEMMA SlideDoneKeeps ==
    ASSUME Inv, SlideDone
    PROVE  Inv'
<1> DEFINE t == ui.widthTo
           u == [ui EXCEPT !.slide = FALSE, !.listDetailAnimating = FALSE, !.width = t]
<1>1. ui \in UIs /\ inside' \in BOOLEAN /\ ui.slide /\ t \in Views
  BY DEF Inv, SlideDone, UIs
<1>2. \/ ui' = u
      \/ ui' = SyncDetailHeight(u, FALSE) /\ ui.panelView = "detail"
  BY DEF SlideDone
<1> HIDE DEF t
<1>3. u \in UIs
  BY <1>1, TypedSlid
<1>4. Only({"slide", "listDetailAnimating", "width"}, ui, u) /\ ~u.slide /\ u.width = t
  BY <1>1 DEF UIs, Only, Fields
<1> HIDE DEF u
<1>5. /\ u.idles = ui.idles /\ u.panelView = ui.panelView /\ u.payload = ui.payload
      /\ u.stackView = ui.stackView /\ u.closingActive = ui.closingActive
      /\ u.widthTo = ui.widthTo /\ u.widthAnim = ui.widthAnim /\ u.live = ui.live
      /\ u.clip = ui.clip /\ u.frozen = ui.frozen /\ u.wasExpanded = ui.wasExpanded
      /\ u.heightAnim = ui.heightAnim
  BY <1>4 DEF Only, Fields
<1>6. ASSUME Settling(ui) PROVE Settling(u)
  <2>1. /\ Opens(u) <=> Opens(ui)
        /\ Closes(u) <=> Closes(ui)
        /\ Waits(u, "height") <=> Waits(ui, "height")
    BY <1>5, SameIdles DEF Opens, Closes
  <2>2. Unmoved(u)
    BY <1>4, <1>5, <1>6, <2>1 DEF Settling, Unmoved
  <2>3. u.width = u.panelView
    BY <1>1, <1>4, <1>5, <1>6 DEF Settling, t
  <2> QED
    BY <1>4, <1>5, <1>6, <2>1, <2>2, <2>3 DEF Settling
<1>7. Only({"widthAnim", "width", "slide", "listDetailAnimating"}, ui, u)
  BY <1>4 DEF Only
<1> QED
  BY <1>1, <1>2, <1>3, <1>6, <1>7, MeasuredKeeps

LEMMA TypedMoved ==
    ASSUME NEW u \in UIs, NEW v \in Views
    PROVE  [u EXCEPT !.widthAnim = "none", !.closingActive = FALSE, !.width = v] \in UIs
BY DEF UIs

LEMMA FrozenDoneKeeps ==
    ASSUME Inv, FrozenDone
    PROVE  Inv'
<1> DEFINE opening == ui.widthAnim = "open"
           v == IF opening THEN "list" ELSE "closed"
           x == [kind |-> IF opening THEN "openDone" ELSE "closeDone"]
           u == [ui EXCEPT !.widthAnim = "none", !.closingActive = FALSE, !.width = v]
<1>1. ui \in UIs /\ inside' \in BOOLEAN /\ ui.widthAnim \in {"open", "close"} /\ Orderly(ui)
  BY DEF Inv, FrozenDone
<1>2. ui' = Posted(u, x)
  BY DEF FrozenDone
<1>3. /\ v \in Views /\ x \in Idle /\ \A y : x # [kind |-> "panel", view |-> y]
      /\ opening => x.kind = "openDone" /\ v = "list"
      /\ ~opening => x.kind = "closeDone" /\ v = "closed"
  BY DEF Idle, Views
<1> HIDE DEF v, x
<1>4. u \in UIs
  BY <1>1, <1>3, TypedMoved
<1>5. /\ Only({"widthAnim", "closingActive", "width"}, ui, u)
      /\ u.widthAnim = "none" /\ ~u.closingActive /\ u.width = v
  BY <1>1 DEF UIs, Only, Fields
<1> HIDE DEF u
<1>6. u.idles = ui.idles /\ u.pending = ui.pending
  BY <1>5 DEF Only, Fields
<1>7. /\ ui' \in UIs /\ Only({"idles"}, u, ui')
      /\ \A k : Waits(ui', k) <=> Waits(ui, k) \/ x.kind = k
      /\ \A y : Asks(ui', y) <=> Asks(ui, y)
      /\ OneEach(ui')
  <2>1. OneEach(u) /\ x.kind \notin {"panel", "height"}
    BY <1>1, <1>3, <1>6, SameIdles DEF Orderly
  <2> QED
    BY <1>2, <1>3, <1>4, <1>6, <2>1, PostedFacts, SameIdles
<1>8. /\ ui'.panelView = ui.panelView /\ ui'.payload = ui.payload
      /\ ui'.stackView = ui.stackView /\ ui'.closingActive = u.closingActive
      /\ ui'.widthTo = ui.widthTo /\ ui'.widthAnim = "none" /\ ui'.live = ui.live
      /\ ui'.clip = ui.clip /\ ui'.frozen = ui.frozen /\ ui'.wasExpanded = ui.wasExpanded
      /\ ui'.heightAnim = ui.heightAnim /\ ui'.slide = ui.slide /\ ui'.width = v
      /\ ui'.pending = ui.pending
  BY <1>5, <1>7 DEF Only, Fields
<1>9. Orderly(ui')
  BY <1>1, <1>7, <1>8 DEF Orderly, Requested
<1>10. ASSUME Settling(ui) PROVE Settling(ui')
  <2>1. Unmoved(ui')
    BY <1>3, <1>7, <1>8, <1>10 DEF Settling, Unmoved
  <2>2. CASE opening
    <3>1. ui.panelView = "list" /\ ~Closes(ui)
      BY <1>10, <2>2 DEF Settling, Opens
    <3>2. Opens(ui') /\ ~Closes(ui')
      BY <1>3, <1>7, <1>8, <2>2, <3>1 DEF Opens, Closes
    <3> QED
      BY <1>5, <1>8, <1>10, <2>1, <3>1, <3>2 DEF Settling
  <2>3. CASE ~opening
    <3>1. ui.panelView = "closed" /\ ~Opens(ui)
      BY <1>1, <1>10, <2>3 DEF Settling, Closes
    <3>2. ~Opens(ui') /\ Closes(ui')
      BY <1>3, <1>7, <1>8, <2>3, <3>1 DEF Opens, Closes
    <3> QED
      BY <1>3, <1>5, <1>8, <1>10, <2>1, <2>3, <3>1, <3>2 DEF Settling
  <2> QED
    BY <2>2, <2>3
<1>11. Only(Fields \ {"panelView", "shown", "payload", "backdrop", "running", "crossed"}, ui, ui')
  BY <1>5, <1>7 DEF Only, Fields
<1> QED
  BY <1>1, <1>7, <1>9, <1>10, <1>11, SurfaceKeeps

LEMMA TypedExpanded ==
    ASSUME NEW u \in UIs
    PROVE  [u EXCEPT !.mode = "none", !.closingActive = FALSE, !.wasExpanded = TRUE] \in UIs
BY DEF UIs

LEMMA RunOpenDoneKeeps ==
    ASSUME Inv, RunOpenDone
    PROVE  Inv'
<1> DEFINE x == [Taken EXCEPT !.mode = "none", !.closingActive = FALSE, !.wasExpanded = TRUE]
           o == HideFrozen(x)
           b == FALSE
           c == TRUE
<1>1. ui \in UIs /\ inside' \in BOOLEAN /\ Due("openDone") /\ Orderly(ui)
  BY DEF Inv, RunOpenDone
<1>2. /\ Taken \in UIs /\ Only({"idles"}, ui, Taken) /\ Waits(ui, "openDone")
      /\ \A l : l # "openDone" => (Waits(Taken, l) <=> Waits(ui, l))
      /\ Orderly(Taken)
  BY <1>1, TakenFacts
<1>3. \/ ui.panelView # "list" /\ ui' = Taken
      \/ /\ ui.panelView = "list"
         /\ \E m \in Measures :
               ui' = UpdateShellWidth(SyncDetailHeight(RebuildDetail(o, m), b), c)
  BY DEF RunOpenDone
<1>4. CASE ui.panelView # "list" /\ ui' = Taken
  <2>1. ~Settling(ui)
    BY <1>2, <1>4 DEF Settling, Opens
  <2>2. Only(Fields \ {"panelView", "shown", "payload", "backdrop", "running", "crossed"}, ui, ui')
    BY <1>2, <1>4 DEF Only, Fields
  <2> QED
    BY <1>1, <1>2, <1>4, <2>1, <2>2, SurfaceKeeps
<1>5. CASE /\ ui.panelView = "list"
           /\ \E m \in Measures :
                 ui' = UpdateShellWidth(SyncDetailHeight(RebuildDetail(o, m), b), c)
  <2>1. b \in BOOLEAN /\ c \in BOOLEAN
    OBVIOUS
  <2> HIDE DEF b, c
  <2>2. x \in UIs
    BY <1>2, TypedExpanded
  <2>3. Only({"mode", "closingActive", "wasExpanded"}, Taken, x) /\ ~x.closingActive /\ x.wasExpanded
    BY <1>2 DEF UIs, Only, Fields
  <2> HIDE DEF x
  <2>4. o \in UIs /\ Only({"frozen"}, x, o) /\ ~o.frozen
    BY <2>2, HideFrozenFacts
  <2> HIDE DEF o
  <2>5. /\ Only({"idles", "mode", "closingActive", "wasExpanded", "frozen"}, ui, o)
        /\ ~o.closingActive /\ o.wasExpanded /\ o.idles = Taken.idles
        /\ o.pending = Taken.pending /\ o.panelView = "list" /\ o.payload = ui.payload
    BY <1>2, <1>5, <2>3, <2>4 DEF Only, Fields
  <2>6. o.payload # <<>> /\ o.panelView \in Pages
    BY <1>5, <2>5 DEF Inv, Pages
  <2>7. Rebuilt(o, ui')
    BY <1>5, <2>1, <2>4, <2>6, RebuiltFacts
  <2>8. Orderly(ui')
    BY <1>2, <2>5, <2>7, SameIdles DEF Rebuilt
  <2>9. Only({"mode", "closingActive", "wasExpanded", "frozen"} \cup Surface, ui, ui')
    BY <2>5, <2>7 DEF Only, Rebuilt, Surface
  <2>10. /\ ~ui'.closingActive /\ ui'.wasExpanded /\ ~ui'.frozen
         /\ ui'.panelView = "list" /\ ui'.payload = ui.payload
         /\ ui'.backdrop = ui.backdrop /\ ui'.running = ui.running
         /\ ui'.crossed = ui.crossed
    BY <2>4, <2>5, <2>7 DEF Only, Fields, Rebuilt, Surface
  <2>11. ASSUME Settling(ui) PROVE Settling(ui')
    <3>1. ~Closes(ui) /\ ui.payload # <<>>
      BY <1>5, <2>11 DEF Settling
    <3>2. ~Closes(ui')
      BY <1>2, <2>5, <2>7, <3>1, SameIdles DEF Rebuilt, Closes
    <3>3. Unmoved(ui')
      BY <2>10 DEF Unmoved
    <3> QED
      BY <2>5, <2>7, <2>10, <3>1, <3>2, <3>3 DEF Settling, Rebuilt
  <2> QED
    BY <1>1, <1>5, <2>7, <2>8, <2>10, <2>11
    DEF Inv, Rebuilt, DetailIsListed, BackdropBehindPanel
<1> QED
  BY <1>3, <1>4, <1>5

LEMMA InitialFacts ==
    /\ InitialUI \in UIs /\ InitialUI.panelView = "closed" /\ ~InitialUI.backdrop
    /\ Orderly(InitialUI) /\ Settling(InitialUI)
<1>1. InitialUI \in UIs
  BY DEF InitialUI, UIs, Idle, Lists, Views, Pages
<1>2. /\ InitialUI.idles = <<>> /\ InitialUI.pending = None
      /\ InitialUI.panelView = "closed" /\ ~InitialUI.backdrop
  BY DEF InitialUI
<1>3. \A k : ~Waits(InitialUI, k) /\ \A v : ~Asks(InitialUI, v)
  BY <1>2 DEF Waits, Asks
<1>4. Orderly(InitialUI)
  <2>1. \A v \in Views : v # None
    BY PanelAssumption DEF Views
  <2> QED
    BY <1>2, <1>3, <2>1 DEF Orderly, Requested, OneEach
<1>5. /\ InitialUI.stackView = "list" /\ ~InitialUI.wasExpanded /\ ~InitialUI.closingActive
      /\ InitialUI.width = "closed" /\ InitialUI.widthAnim = "none" /\ ~InitialUI.slide
      /\ ~InitialUI.heightAnim /\ ~InitialUI.live /\ ~InitialUI.frozen
  BY DEF InitialUI
<1>6. Settling(InitialUI)
  BY <1>2, <1>3, <1>5 DEF Settling, Unmoved, Opens, Closes
<1> QED
  BY <1>1, <1>2, <1>4, <1>6

LEMMA InitInv == Init => Inv
<1> SUFFICES ASSUME Init PROVE Inv
  OBVIOUS
<1> DEFINE u == InitialUI
<1>1. ui = [u EXCEPT !.backdropShown = TRUE] /\ inside \in BOOLEAN
  BY DEF Init
<1>2. u \in UIs /\ u.panelView = "closed" /\ ~u.backdrop /\ Orderly(u) /\ Settling(u)
  BY InitialFacts
<1> HIDE DEF u
<1>3. ui \in UIs
  BY <1>1, <1>2 DEF UIs
<1>4. Only({"backdropShown"}, u, ui)
  BY <1>1, <1>2 DEF UIs, Only, Fields
<1>5. ui.panelView = "closed" /\ ~ui.backdrop /\ ui.idles = u.idles /\ ui.pending = u.pending
  BY <1>2, <1>4 DEF Only, Fields
<1>6. Settling(ui)
  <2>1. Only({"hover", "selected", "pinned", "pending", "idles", "backdrop", "backdropAnim",
              "backdropShown", "rows", "shown", "mode", "listMeasured", "crossed", "running",
              "listDetailAnimating"}, u, ui)
    BY <1>4 DEF Only
  <2> QED
    BY <1>2, <1>5, <2>1, SameIdles, SettlingKept
<1> QED
  BY <1>1, <1>2, <1>3, <1>5, <1>6, SameIdles DEF Inv, DetailIsListed, BackdropBehindPanel

LEMMA QuitKeeps ==
    ASSUME Inv, Quit
    PROVE  Inv'
<1> DEFINE u == InitialUI
<1>1. ui' = [u EXCEPT !.running = FALSE] /\ inside' \in BOOLEAN
  BY DEF Quit, Inv
<1>2. u \in UIs /\ u.panelView = "closed" /\ ~u.backdrop /\ Orderly(u)
  BY InitialFacts
<1> HIDE DEF u
<1>3. ui' \in UIs
  BY <1>1, <1>2 DEF UIs
<1>4. Only({"running"}, u, ui') /\ ~ui'.running
  BY <1>1, <1>2 DEF UIs, Only, Fields
<1>5. /\ ui'.panelView = "closed" /\ ~ui'.backdrop
      /\ ui'.idles = u.idles /\ ui'.pending = u.pending
  BY <1>2, <1>4 DEF Only, Fields
<1> QED
  BY <1>1, <1>2, <1>3, <1>4, <1>5, SameIdles DEF Inv, DetailIsListed, BackdropBehindPanel

LEMMA NextInv == Inv /\ [Next]_vars => Inv'
<1> SUFFICES ASSUME Inv, [Next]_vars PROVE Inv'
  OBVIOUS
<1>1. CASE \/ HoverEnter \/ HoverLeave \/ ClickPill \/ (\E s \in Sessions : ClickRow(s))
           \/ ClickPage \/ ClickBack \/ FocusSession \/ ClickBackdrop \/ HoverTimeout
  BY <1>1, InputKeeps
<1>2. CASE \E p \in Payloads : DeliverPayload(p)
  BY <1>2, DeliverPayloadKeeps
<1>3. CASE Quit
  BY <1>3, QuitKeeps
<1>4. CASE RunPanel
  BY <1>4, RunPanelKeeps
<1>5. CASE RunHeight
  BY <1>5, RunHeightKeeps
<1>6. CASE RunFrozenOpen
  BY <1>6, RunFrozenOpenKeeps
<1>7. CASE RunOpenDone
  BY <1>7, RunOpenDoneKeeps
<1>8. CASE RunCloseDone
  BY <1>8, RunCloseDoneKeeps
<1>9. CASE WidthDone
  BY <1>9, WidthDoneKeeps
<1>10. CASE FrozenDone
  BY <1>10, FrozenDoneKeeps
<1>11. CASE SlideDone
  BY <1>11, SlideDoneKeeps
<1>12. CASE HeightDone
  BY <1>12, HeightDoneKeeps
<1>13. CASE BackdropDone
  BY <1>13, BackdropDoneKeeps
<1>14. CASE UNCHANGED vars
  <2>1. ui' = ui /\ inside' = inside
    BY <1>14 DEF vars
  <2> QED
    BY <2>1 DEF Inv, DetailIsListed, BackdropBehindPanel
<1> QED
  BY <1>1, <1>2, <1>3, <1>4, <1>5, <1>6, <1>7, <1>8, <1>9, <1>10, <1>11, <1>12, <1>13, <1>14
  DEF Next, Input, Callback

-----------------------------------------------------------------------------
(* The theorems.                                                           *)

LEMMA InvTypeOK == Inv => TypeOK
<1> SUFFICES ASSUME Inv PROVE TypeOK
  OBVIOUS
<1>1. ui \in UIs /\ inside \in BOOLEAN
  BY DEF Inv
<1>2. DOMAIN ui = DOMAIN InitialUI
  BY <1>1 DEF UIs, InitialUI
<1>3. ui.idles \in Seq(Idle)
  BY <1>1 DEF UIs
<1>4. ToSet(ui.idles) \subseteq Idle
  BY <1>3 DEF ToSet
<1>5. /\ ui.payload \in Payloads \cup {<<>>}
      /\ ui.panelView \in Views /\ ui.stackView \in {"list", "detail"}
      /\ ui.pending \in Views \cup {None}
      /\ ui.selected \in Sessions \cup {None} /\ ui.shown \in Sessions \cup {None}
      /\ ui.width \in Views \cup {"between"}
  BY <1>1 DEF UIs, Lists, Pages
<1> QED
  BY <1>1, <1>2, <1>4, <1>5 DEF TypeOK

LEMMA InvRequestWaits == Inv => RequestWaits
<1> SUFFICES ASSUME Inv, NEW v \in Views
             PROVE  ui.pending = v <=> [kind |-> "panel", view |-> v] \in ToSet(ui.idles)
  BY DEF RequestWaits
<1>1. ui.idles \in Seq(Idle) /\ (ui.pending = v <=> Asks(ui, v))
  BY DEF Inv, UIs, Orderly, Requested
<1>2. Asks(ui, v) <=> [kind |-> "panel", view |-> v] \in ToSet(ui.idles)
  BY <1>1 DEF Asks, ToSet
<1> QED
  BY <1>1, <1>2

LEMMA InvSettles == Inv => UncrossedSettles
<1> SUFFICES ASSUME Inv, AtRest, ~ui.crossed PROVE SurfaceMatches
  BY DEF UncrossedSettles
<1>1. Settling(ui) /\ \A k : ~Waits(ui, k)
  BY DEF Inv, AtRest, Waits
<1>2. ~Opens(ui) /\ ~Closes(ui)
  BY <1>1 DEF AtRest, Opens, Closes
<1>3. ui.panelView \in Views
  BY DEF Inv, UIs
<1> QED
  BY <1>1, <1>2, <1>3 DEF Settling, AtRest, SurfaceMatches, Views

\* The fields of the panel keep their ranges, however many callbacks wait.
THEOREM TypeCorrect == Spec => []TypeOK
BY InitInv, NextInv, InvTypeOK, PTL DEF Spec

\* The detail page shows a session that the panel lists, whatever payloads arrive.
THEOREM DetailListed == Spec => []DetailIsListed
<1>1. Inv => DetailIsListed
  BY DEF Inv
<1> QED
  BY <1>1, InitInv, NextInv, PTL DEF Spec

\* The backdrop is raised only behind an open panel, also when rebuildUI stops early.
THEOREM BackdropBehind == Spec => []BackdropBehindPanel
<1>1. Inv => BackdropBehindPanel
  BY DEF Inv
<1> QED
  BY <1>1, InitInv, NextInv, PTL DEF Spec

\* pendingPanelView names the view of the one panel callback that waits, so
\* schedulePanelView never drops a request that no callback will serve.
THEOREM LastRequestWaits == Spec => []RequestWaits
BY InitInv, NextInv, InvRequestWaits, PTL DEF Spec

\* When nothing is left to run and the view did not change under the moving list,
\* the panel shows what panelView says.
THEOREM Settles == Spec => []UncrossedSettles
BY InitInv, NextInv, InvSettles, PTL DEF Spec
-----------------------------------------------------------------------------
(* The work that is left.                                                  *)

LEMMA HeightWorkNat == HeightWork \in Nat /\ HeightWork >= 2 /\ DetailRetries \in Nat
BY PanelAssumption DEF HeightWork

\* The callbacks of a kind in a queue, and whether one waits.
At(q, k) == {i \in 1..Len(q) : q[i].kind = k}
Holds(q, x) == \E i \in 1..Len(q) : q[i] = x

LEMMA AtFinite ==
    ASSUME NEW q \in Seq(Idle), NEW k
    PROVE  IsFiniteSet(At(q, k)) /\ Cardinality(At(q, k)) \in Nat
<1>1. IsFiniteSet(1..Len(q))
  BY FS_Interval
<1>2. At(q, k) \subseteq 1..Len(q)
  BY DEF At
<1> QED
  BY <1>1, <1>2, FS_Subset, FS_CardinalityType

\* A queue without its i-th callback.
LEMMA Shifted ==
    ASSUME NEW p \in Seq(Idle), NEW q \in Seq(Idle), NEW i \in 1..Len(p),
           Len(q) = Len(p) - 1,
           \A j \in 1..(Len(p) - 1) : q[j] = IF j < i THEN p[j] ELSE p[j + 1]
    PROVE  /\ \A y : y.kind # p[i].kind => (Holds(q, y) <=> Holds(p, y))
           /\ \A k : k # p[i].kind => Cardinality(At(q, k)) = Cardinality(At(p, k))
           /\ Cardinality(At(q, p[i].kind)) = Cardinality(At(p, p[i].kind)) - 1
<1>1. PICK n \in Nat : n = Len(p) /\ Len(q) = n - 1 /\ i \in 1..n
  OBVIOUS
<1>2. \A j \in 1..(n - 1) : q[j] = IF j < i THEN p[j] ELSE p[j + 1]
  BY <1>1
<1>3. ASSUME NEW y, y.kind # p[i].kind PROVE Holds(q, y) <=> Holds(p, y)
  <2>1. ASSUME NEW j \in 1..(n - 1) PROVE \E l \in 1..n : p[l] = q[j]
    BY <1>1, <1>2
  <2>2. ASSUME NEW l \in 1..n, p[l].kind # p[i].kind
        PROVE  \E j \in 1..(n - 1) : q[j] = p[l]
    <3>1. CASE l < i
      BY <1>1, <1>2, <3>1
    <3>2. CASE l > i
      <4>1. l - 1 \in 1..(n - 1) /\ q[l - 1] = p[l]
        BY <1>1, <1>2, <3>2
      <4> QED
        BY <4>1
    <3>3. l # i
      BY <2>2
    <3> QED
      BY <1>1, <3>1, <3>2, <3>3
  <2> QED
    BY <1>1, <1>3, <2>1, <2>2 DEF Holds
<1>4. ASSUME NEW k PROVE Cardinality(At(q, k)) = Cardinality(At(p, k) \ {i})
  <2>1. PICK S : S = At(q, k)
    OBVIOUS
  <2>2. PICK T : T = At(p, k) \ {i}
    OBVIOUS
  <2>3. PICK f : f = [j \in S |-> IF j < i THEN j ELSE j + 1]
    OBVIOUS
  <2>4. \A j \in S : j \in 1..(n - 1) /\ q[j].kind = k
    BY <1>1, <2>1 DEF At
  <2>5. \A j \in T : j \in 1..n /\ j # i /\ p[j].kind = k
    BY <1>1, <2>2 DEF At
  <2>6. \A j \in S : f[j] \in T
    <3> SUFFICES ASSUME NEW j \in S PROVE f[j] \in T
      OBVIOUS
    <3>1. f[j] \in 1..n /\ f[j] # i /\ p[f[j]] = q[j]
      BY <1>1, <1>2, <2>3, <2>4
    <3> QED
      BY <1>1, <2>2, <2>4, <3>1 DEF At
  <2>7. \A j, l \in S : f[j] = f[l] => j = l
    BY <1>1, <2>3, <2>4
  <2>8. \A l \in T : \E j \in S : f[j] = l
    <3> SUFFICES ASSUME NEW l \in T PROVE \E j \in S : f[j] = l
      OBVIOUS
    <3>1. CASE l < i
      <4>1. l \in 1..(n - 1) /\ q[l] = p[l]
        BY <1>1, <1>2, <2>5, <3>1
      <4>2. l \in S
        BY <1>1, <2>1, <2>5, <4>1 DEF At
      <4> QED
        BY <2>3, <3>1, <4>2
    <3>2. CASE l > i
      <4>1. l - 1 \in 1..(n - 1) /\ q[l - 1] = p[l] /\ ~(l - 1 < i) /\ (l - 1) + 1 = l
        BY <1>1, <1>2, <2>5, <3>2
      <4>2. l - 1 \in S
        BY <1>1, <2>1, <2>5, <4>1 DEF At
      <4> QED
        BY <2>3, <4>1, <4>2
    <3> QED
      BY <1>1, <2>5, <3>1, <3>2
  <2>9. f \in Bijection(S, T)
    <3>1. f \in [S -> T]
      BY <2>3, <2>6
    <3>2. f \in Injection(S, T)
      BY <2>3, <2>7, <3>1 DEF Injection, IsInjective
    <3>3. f \in Surjection(S, T)
      BY <2>8, <3>1 DEF Surjection
    <3> QED
      BY <3>2, <3>3 DEF Bijection
  <2>10. IsFiniteSet(S)
    BY <2>1, AtFinite
  <2>11. Cardinality(S) = Cardinality(T)
    BY <2>9, <2>10, FS_Bijection DEF ExistsBijection
  <2> QED
    BY <2>1, <2>2, <2>11
<1>5. ASSUME NEW k, k # p[i].kind PROVE At(p, k) \ {i} = At(p, k)
  BY <1>5 DEF At
<1>6. Cardinality(At(p, p[i].kind) \ {i}) = Cardinality(At(p, p[i].kind)) - 1
  <2>1. PICK T : T = At(p, p[i].kind)
    OBVIOUS
  <2>2. IsFiniteSet(T) /\ i \in T
    BY <2>1, AtFinite DEF At
  <2>3. Cardinality(T \ {i}) = Cardinality(T) - 1
    BY <2>2, FS_RemoveElement
  <2> QED
    BY <2>1, <2>3
<1> QED
  BY <1>3, <1>4, <1>5, <1>6

\* A queue with a callback more.
LEMMA Appended ==
    ASSUME NEW q \in Seq(Idle), NEW x \in Idle
    PROVE  /\ \A y : Holds(Append(q, x), y) <=> Holds(q, y) \/ y = x
           /\ \A k : k # x.kind => Cardinality(At(Append(q, x), k)) = Cardinality(At(q, k))
           /\ Cardinality(At(Append(q, x), x.kind)) = Cardinality(At(q, x.kind)) + 1
<1>1. PICK n \in Nat, a \in Seq(Idle) :
        /\ n = Len(q) /\ a = Append(q, x) /\ Len(a) = n + 1
        /\ a[n + 1] = x /\ \A i \in 1..n : a[i] = q[i]
  <2>1. PICK n \in Nat : n = Len(q)
    OBVIOUS
  <2>2. PICK a \in Seq(Idle) : a = Append(q, x)
    <3>1. Append(q, x) \in Seq(Idle)
      OBVIOUS
    <3> QED
      BY <3>1
  <2>3. Len(a) = n + 1 /\ a[n + 1] = x /\ \A i \in 1..n : a[i] = q[i]
    BY <2>1, <2>2
  <2> QED
    BY <2>1, <2>2, <2>3
<1>2. \A y : Holds(a, y) <=> Holds(q, y) \/ y = x
  BY <1>1 DEF Holds
<1>3. ASSUME NEW k, k # x.kind PROVE At(a, k) = At(q, k)
  BY <1>1, <1>3 DEF At
<1>4. At(a, x.kind) = At(q, x.kind) \cup {n + 1} /\ n + 1 \notin At(q, x.kind)
  BY <1>1 DEF At
<1>5. Cardinality(At(a, x.kind)) = Cardinality(At(q, x.kind)) + 1
  <2>1. PICK T : T = At(q, x.kind)
    OBVIOUS
  <2>2. IsFiniteSet(T) /\ n + 1 \notin T
    BY <1>4, <2>1, AtFinite
  <2>3. Cardinality(T \cup {n + 1}) = Cardinality(T) + 1
    BY <2>2, FS_AddElement
  <2> QED
    BY <1>4, <2>1, <2>3
<1> QED
  BY <1>1, <1>2, <1>3, <1>5

\* A number of callbacks of the frozen list, and what is left of a height.
LEMMA WaitingAt ==
    ASSUME NEW u \in UIs
    PROVE  \A k : Waiting(u, k) = At(u.idles, k) /\ (Waits(u, k) <=> At(u.idles, k) # {})
<1>1. u.idles \in Seq(Idle) /\ DOMAIN u.idles = 1..Len(u.idles)
  BY DEF UIs
<1> QED
  BY <1>1 DEF Waiting, At, Waits

LEMMA HeightLeftIs ==
    ASSUME NEW u \in UIs, OneEach(u)
    PROVE  /\ ~Waits(u, "height") => HeightLeft(u) = 0
           /\ \A x \in Idle : x.kind = "height" /\ Holds(u.idles, x) =>
                 HeightLeft(u) = HeightWork - x.attempt /\ x.attempt \in 0..DetailRetries
           /\ HeightLeft(u) \in 0..HeightWork
<1>1. u.idles \in Seq(Idle)
  BY DEF UIs
<1>2. ~Waits(u, "height") => HeightLeft(u) = 0
  BY WaitingAt DEF HeightLeft
<1>3. ASSUME NEW x \in Idle, x.kind = "height", Holds(u.idles, x)
      PROVE  HeightLeft(u) = HeightWork - x.attempt /\ x.attempt \in 0..DetailRetries
  <2>1. x.attempt \in 0..DetailRetries
    BY <1>3 DEF Idle
  <2>2. PICK j \in 1..Len(u.idles) : u.idles[j] = x
    BY <1>3 DEF Holds
  <2>3. PICK S : S = Waiting(u, "height")
    OBVIOUS
  <2>4. j \in S /\ \A i \in S : i \in 1..Len(u.idles) /\ u.idles[i].kind = "height"
    BY <1>3, <2>2, <2>3, WaitingAt DEF At
  <2>5. \A i \in S : i = j
    BY <1>3, <2>2, <2>4 DEF OneEach
  <2>6. (CHOOSE i \in S : TRUE) = j
    BY <2>4, <2>5
  <2>7. Attempt(u) = x.attempt
    BY <2>2, <2>3, <2>6 DEF Attempt
  <2> QED
    BY <2>1, <2>3, <2>4, <2>7 DEF HeightLeft
<1>4. HeightLeft(u) \in 0..HeightWork
  <2>1. CASE Waits(u, "height")
    <3>1. PICK x \in Idle : x.kind = "height" /\ Holds(u.idles, x)
      BY <1>1, <2>1 DEF Waits, Holds
    <3>2. HeightLeft(u) = HeightWork - x.attempt /\ x.attempt \in 0..DetailRetries
      BY <1>3, <3>1
    <3> QED
      BY <3>2, HeightWorkNat DEF HeightWork
  <2> QED
    BY <1>2, <2>1, HeightWorkNat
<1> QED
  BY <1>2, <1>3, <1>4

\* Who waits for a height, and who for the frozen list, is as it was.
SameHeights(u, r) ==
    \A x : x.kind = "height" => (Holds(r.idles, x) <=> Holds(u.idles, x))
SameFrozen(u, r) ==
    \A k \in {"frozenOpen", "openDone", "closeDone"} :
        Cardinality(At(r.idles, k)) = Cardinality(At(u.idles, k))

LEMMA SameHeightLeft ==
    ASSUME NEW u \in UIs, NEW r \in UIs, OneEach(u), OneEach(r), SameHeights(u, r)
    PROVE  HeightLeft(r) = HeightLeft(u)
<1>1. u.idles \in Seq(Idle) /\ r.idles \in Seq(Idle)
  BY DEF UIs
<1>2. CASE Waits(u, "height")
  <2>1. PICK x \in Idle : x.kind = "height" /\ Holds(u.idles, x)
    BY <1>1, <1>2 DEF Waits, Holds
  <2>2. Holds(r.idles, x)
    BY <2>1 DEF SameHeights
  <2> QED
    BY <2>1, <2>2, HeightLeftIs
<1>3. CASE ~Waits(u, "height")
  <2>1. ASSUME Waits(r, "height") PROVE FALSE
    <3>1. PICK x \in Idle : x.kind = "height" /\ Holds(r.idles, x)
      BY <1>1, <2>1 DEF Waits, Holds
    <3>2. Holds(u.idles, x)
      BY <3>1 DEF SameHeights
    <3> QED
      BY <1>3, <3>1, <3>2 DEF Waits, Holds
  <2> QED
    BY <1>3, <2>1, HeightLeftIs
<1> QED
  BY <1>2, <1>3

LEMMA FrozenWorkIs ==
    ASSUME NEW u \in UIs
    PROVE  /\ FrozenWork(u) = Cardinality(At(u.idles, "frozenOpen")) * (2 * HeightWork + 4)
                              + Cardinality(At(u.idles, "openDone")) * (2 * HeightWork + 2)
                              + Cardinality(At(u.idles, "closeDone"))
           /\ FrozenWork(u) \in Nat
           /\ \A k : Cardinality(At(u.idles, k)) \in Nat
<1>1. u.idles \in Seq(Idle)
  BY DEF UIs
<1>2. \A k : Cardinality(At(u.idles, k)) \in Nat
  BY <1>1, AtFinite
<1>3. FrozenWork(u) = Cardinality(At(u.idles, "frozenOpen")) * (2 * HeightWork + 4)
                      + Cardinality(At(u.idles, "openDone")) * (2 * HeightWork + 2)
                      + Cardinality(At(u.idles, "closeDone"))
  BY WaitingAt DEF FrozenWork
<1>4. PICK a \in Nat, b \in Nat, c \in Nat, m \in Nat, n \in Nat :
        /\ a = Cardinality(At(u.idles, "frozenOpen")) /\ b = Cardinality(At(u.idles, "openDone"))
        /\ c = Cardinality(At(u.idles, "closeDone"))
        /\ m = 2 * HeightWork + 4 /\ n = 2 * HeightWork + 2
  BY <1>2, HeightWorkNat
<1>5. a * m \in Nat /\ b * n \in Nat
  OBVIOUS
<1>6. FrozenWork(u) = a * m + b * n + c
  BY <1>3, <1>4
<1> QED
  BY <1>2, <1>3, <1>5, <1>6

LEMMA SameFrozenWork ==
    ASSUME NEW u \in UIs, NEW r \in UIs, SameFrozen(u, r)
    PROVE  FrozenWork(r) = FrozenWork(u)
BY FrozenWorkIs DEF SameFrozen

\* A callback of the frozen list more or less.
LEMMA FrozenWorkMoves ==
    ASSUME NEW u \in UIs, NEW r \in UIs, NEW k \in {"frozenOpen", "openDone", "closeDone"},
           Cardinality(At(r.idles, k)) = Cardinality(At(u.idles, k)) + 1,
           \A l : l # k => Cardinality(At(r.idles, l)) = Cardinality(At(u.idles, l))
    PROVE  /\ k = "frozenOpen" => FrozenWork(r) = FrozenWork(u) + 2 * HeightWork + 4
           /\ k = "openDone" => FrozenWork(r) = FrozenWork(u) + 2 * HeightWork + 2
           /\ k = "closeDone" => FrozenWork(r) = FrozenWork(u) + 1
<1>1. PICK a \in Nat, b \in Nat, c \in Nat, h \in Nat :
        /\ a = Cardinality(At(u.idles, "frozenOpen")) /\ b = Cardinality(At(u.idles, "openDone"))
        /\ c = Cardinality(At(u.idles, "closeDone")) /\ h = HeightWork
  BY FrozenWorkIs, HeightWorkNat
<1>2. FrozenWork(u) = a * (2 * h + 4) + b * (2 * h + 2) + c
  BY <1>1, FrozenWorkIs
<1>3. PICK m \in Nat, n \in Nat : m = 2 * h + 4 /\ n = 2 * h + 2
  OBVIOUS
<1>4. (a + 1) * m = a * m + m /\ (b + 1) * n = b * n + n /\ a * m \in Nat /\ b * n \in Nat
  OBVIOUS
<1>5. CASE k = "frozenOpen"
  <2>1. FrozenWork(r) = (a + 1) * m + b * n + c
    BY <1>1, <1>3, <1>5, FrozenWorkIs
  <2> QED
    BY <1>1, <1>2, <1>3, <1>4, <1>5, <2>1
<1>6. CASE k = "openDone"
  <2>1. FrozenWork(r) = a * m + (b + 1) * n + c
    BY <1>1, <1>3, <1>6, FrozenWorkIs
  <2> QED
    BY <1>1, <1>2, <1>3, <1>4, <1>6, <2>1
<1>7. CASE k = "closeDone"
  <2>1. FrozenWork(r) = a * m + b * n + (c + 1)
    BY <1>1, <1>3, <1>7, FrozenWorkIs
  <2> QED
    BY <1>1, <1>2, <1>3, <1>4, <1>7, <2>1
<1> QED
  BY <1>5, <1>6, <1>7

\* What a request and the timers stand for.
LEMMA RestWork ==
    ASSUME NEW u \in UIs
    PROVE  /\ RequestWork(u) \in 0..(3 * HeightWork + 6) /\ TimerWork(u) \in Nat
           /\ u.pending = None => RequestWork(u) = 0
           /\ u.pending = u.panelView => RequestWork(u) = 1
           /\ u.pending \in Views => RequestWork(u) >= 1
           /\ u.pending \in Views /\ u.pending # u.panelView =>
                 RequestWork(u) = 3 * HeightWork + 6
<1>1. u.pending \in Views \cup {None} /\ u.panelView \in Views /\ None \notin Views
  BY PanelAssumption DEF UIs, Views
<1>2. PICK h \in Nat : h = HeightWork
  BY HeightWorkNat
<1>3. TimerWork(u) \in Nat
  BY <1>2 DEF TimerWork, Flag
<1> QED
  BY <1>1, <1>2, <1>3 DEF RequestWork

LEMMA WorkNat ==
    ASSUME NEW u \in UIs, OneEach(u)
    PROVE  /\ FrozenWork(u) \in Nat /\ HeightLeft(u) \in Nat
           /\ RequestWork(u) \in Nat /\ TimerWork(u) \in Nat
           /\ Work(u) = FrozenWork(u) + HeightLeft(u) + RequestWork(u) + TimerWork(u)
BY FrozenWorkIs, HeightLeftIs, RestWork, HeightWorkNat DEF Work

LEMMA WorkOrderly ==
    ASSUME NEW u \in UIs, Orderly(u)
    PROVE  Work(u) \in Nat
BY WorkNat DEF Orderly

\* Callbacks, request and view as they were.
LEMMA SameIdleWork ==
    ASSUME NEW u \in UIs, NEW r \in UIs, OneEach(u), r.idles = u.idles
    PROVE  /\ FrozenWork(r) = FrozenWork(u) /\ HeightLeft(r) = HeightLeft(u)
           /\ r.pending = u.pending /\ r.panelView = u.panelView =>
                 RequestWork(r) = RequestWork(u)
<1>1. OneEach(r)
  BY SameIdles
<1> QED
  BY <1>1, SameFrozenWork, SameHeightLeft DEF SameFrozen, SameHeights, RequestWork

\* Timers that stop, and others that go on.
LEMMA TimersStop ==
    ASSUME NEW u \in UIs, NEW r \in UIs, r.hover => u.hover, r.slide => u.slide,
           r.widthAnim = u.widthAnim \/ r.widthAnim = "none",
           r.heightAnim => u.heightAnim, r.backdropAnim = u.backdropAnim
    PROVE  TimerWork(r) <= TimerWork(u)
<1>1. PICK h \in Nat : h = HeightWork
  BY HeightWorkNat
<1>2. /\ u.hover \in BOOLEAN /\ u.slide \in BOOLEAN /\ u.heightAnim \in BOOLEAN
      /\ r.hover \in BOOLEAN /\ r.slide \in BOOLEAN /\ r.heightAnim \in BOOLEAN
  BY DEF UIs
<1> QED
  BY <1>1, <1>2 DEF TimerWork, Flag

\* A width animation or a slide that starts, while no other timer does.
LEMMA TimersStart ==
    ASSUME NEW u \in UIs, NEW r \in UIs, r.hover => u.hover,
           r.heightAnim => u.heightAnim, r.backdropAnim = u.backdropAnim
    PROVE  /\ r.widthAnim \in {"none", "shell"} /\ (r.slide => u.slide) =>
                 TimerWork(r) <= TimerWork(u) + HeightWork + 1
           /\ r.widthAnim \in {"open", "close"} /\ (r.slide => u.slide) =>
                 TimerWork(r) <= TimerWork(u) + 2 * HeightWork + 3
           /\ r.widthAnim = u.widthAnim \/ r.widthAnim = "none" =>
                 TimerWork(r) <= TimerWork(u) + HeightWork + 1
<1>1. PICK h \in Nat : h = HeightWork
  BY HeightWorkNat
<1>2. /\ u.hover \in BOOLEAN /\ u.slide \in BOOLEAN /\ u.heightAnim \in BOOLEAN
      /\ r.hover \in BOOLEAN /\ r.slide \in BOOLEAN /\ r.heightAnim \in BOOLEAN
  BY DEF UIs
<1> QED
  BY <1>1, <1>2 DEF TimerWork, Flag

-----------------------------------------------------------------------------
(* What building the panel costs.                                          *)

\* Going from u to r adds at most n of work.
Costs(u, r, n) == Work(r) <= Work(u) + n

\* Callbacks, request and view stay.
LEMMA TimersCost ==
    ASSUME NEW u \in UIs, NEW r \in UIs, OneEach(u), r.idles = u.idles,
           r.pending = u.pending, r.panelView = u.panelView,
           NEW n \in Nat, TimerWork(r) <= TimerWork(u) + n
    PROVE  Costs(u, r, n)
<1>1. OneEach(r)
  BY SameIdles
<1> QED
  BY <1>1, SameIdleWork, WorkNat DEF Costs

\* The callback of one kind is taken back or posted again.
LEMMA WithoutQueue ==
    ASSUME NEW u \in UIs, NEW k
    PROVE  /\ \A y : y.kind # k => (Holds(Without(u, k).idles, y) <=> Holds(u.idles, y))
           /\ \A l : l # k => Cardinality(At(Without(u, k).idles, l)) = Cardinality(At(u.idles, l))
<1>1. CASE \A i \in DOMAIN u.idles : u.idles[i].kind # k
  BY <1>1 DEF Without
<1>2. CASE \E i \in DOMAIN u.idles : u.idles[i].kind = k
  <2>1. PICK p \in Seq(Idle) : p = u.idles
    BY DEF UIs
  <2>2. PICK i : i = CHOOSE j \in DOMAIN p : p[j].kind = k
    OBVIOUS
  <2>3. i \in 1..Len(p) /\ p[i].kind = k
    BY <1>2, <2>1, <2>2
  <2>4. PICK q : q = RemoveAt(p, i)
    OBVIOUS
  <2>5. /\ q \in Seq(Idle) /\ Len(q) = Len(p) - 1
        /\ \A j \in 1..(Len(p) - 1) : q[j] = IF j < i THEN p[j] ELSE p[j + 1]
    BY <2>3, <2>4, RemoveAtFacts
  <2>6. Without(u, k) = [u EXCEPT !.idles = q]
    BY <1>2, <2>1, <2>2, <2>4 DEF Without
  <2>7. Without(u, k).idles = q
    BY <2>6 DEF UIs
  <2>8. /\ \A y : y.kind # k => (Holds(q, y) <=> Holds(p, y))
        /\ \A l : l # k => Cardinality(At(q, l)) = Cardinality(At(p, l))
    BY <2>3, <2>5, Shifted, SMTT(40)
  <2> QED
    BY <2>1, <2>7, <2>8
<1> QED
  BY <1>1, <1>2

LEMMA PostedQueue ==
    ASSUME NEW u \in UIs, NEW x \in Idle
    PROVE  /\ \A y : Holds(Posted(u, x).idles, y) <=> Holds(u.idles, y) \/ y = x
           /\ \A k : k # x.kind => Cardinality(At(Posted(u, x).idles, k)) = Cardinality(At(u.idles, k))
           /\ Cardinality(At(Posted(u, x).idles, x.kind)) = Cardinality(At(u.idles, x.kind)) + 1
<1>1. PICK q \in Seq(Idle) : q = u.idles
  BY DEF UIs
<1>2. Posted(u, x).idles = Append(q, x)
  BY <1>1 DEF Posted, UIs
<1> QED
  BY <1>1, <1>2, Appended

LEMMA SyncDetailHeightCosts ==
    ASSUME NEW u \in UIs, Orderly(u), NEW b \in BOOLEAN, NEW r, r = SyncDetailHeight(u, b)
    PROVE  Costs(u, r, HeightWork)
<1> DEFINE w == Without(u, "height")
           c == IF u.live /\ w.clip # "zero" THEN "fixed" ELSE "zero"
           a == [w EXCEPT !.heightAnim = FALSE, !.live = TRUE, !.clip = c]
           x == [kind |-> "height", animate |-> b, attempt |-> 0]
<1>1. r = Posted(a, x)
  BY DEF SyncDetailHeight
<1>2. x \in Idle /\ x.kind = "height" /\ x.attempt = 0
  BY PanelAssumption DEF Idle
<1>3. w \in UIs
  BY WithoutFacts
<1>4. \A l : l # "height" => Cardinality(At(w.idles, l)) = Cardinality(At(u.idles, l))
  BY WithoutQueue
<1> HIDE DEF w, c
<1>5. a \in UIs /\ a.idles = w.idles
  <2>1. c \in {"zero", "fixed", "own"} /\ TRUE \in BOOLEAN /\ FALSE \in BOOLEAN
    BY DEF c
  <2>2. a \in UIs
    BY ONLY <1>3, <2>1, TypedHeight
  <2>3. a.idles = w.idles
    BY <1>3 DEF UIs
  <2> QED
    BY <2>2, <2>3
<1> HIDE DEF a, x
<1>6. \A l : l # "height" => Cardinality(At(r.idles, l)) = Cardinality(At(a.idles, l))
  BY <1>1, <1>2, <1>5, PostedQueue
<1>7. Holds(r.idles, x)
  BY <1>1, <1>2, <1>5, PostedQueue
<1>8. r \in UIs /\ Orderly(r) /\ ~r.heightAnim /\ Only({"heightAnim", "live", "clip", "idles"}, u, r)
  BY SyncDetailHeightFacts
<1>9. SameFrozen(u, r)
  BY <1>4, <1>5, <1>6 DEF SameFrozen
<1>10. OneEach(u) /\ OneEach(r)
  BY <1>8 DEF Orderly
<1>11. FrozenWork(r) = FrozenWork(u) /\ HeightLeft(r) = HeightWork
  BY <1>2, <1>7, <1>8, <1>9, <1>10, SameFrozenWork, HeightLeftIs, HeightWorkNat
<1>12. /\ r.pending = u.pending /\ r.panelView = u.panelView /\ r.hover = u.hover
       /\ r.slide = u.slide /\ r.widthAnim = u.widthAnim /\ r.backdropAnim = u.backdropAnim
  BY <1>8 DEF Only, Fields
<1>13. TimerWork(r) <= TimerWork(u) /\ RequestWork(r) = RequestWork(u)
  BY <1>8, <1>12, TimersStop DEF RequestWork
<1> QED
  BY <1>8, <1>10, <1>11, <1>13, WorkNat, HeightWorkNat DEF Costs

\* A request adds no callback of another kind.
LEMMA ScheduleCosts ==
    ASSUME NEW u \in UIs, Orderly(u), NEW v \in Views, NEW r, r = SchedulePanelView(u, v)
    PROVE  /\ r.pending = v
           /\ Costs(u, r, RequestWork(r))
<1>1. r \in UIs /\ Only({"pending", "idles"}, u, r) /\ Orderly(r)
  BY SchedulePanelViewFacts
<1>2. OneEach(u) /\ OneEach(r)
  BY <1>1 DEF Orderly
<1>3. r.pending = v /\ SameFrozen(u, r) /\ SameHeights(u, r)
  <2>1. CASE u.pending = v
    BY <2>1 DEF SchedulePanelView, SameFrozen, SameHeights
  <2>2. CASE u.pending # v
    <3> DEFINE w == Without(u, "panel")
               a == [w EXCEPT !.pending = v]
               x == [kind |-> "panel", view |-> v]
    <3>1. r = Posted(a, x)
      BY <2>2 DEF SchedulePanelView
    <3>2. x \in Idle /\ x.kind = "panel"
      BY DEF Idle
    <3>3. w \in UIs
      BY WithoutFacts
    <3>4. /\ \A y : y.kind # "panel" => (Holds(w.idles, y) <=> Holds(u.idles, y))
          /\ \A l : l # "panel" => Cardinality(At(w.idles, l)) = Cardinality(At(u.idles, l))
      BY WithoutQueue
    <3> HIDE DEF w
    <3>5. a \in UIs /\ a.idles = w.idles /\ a.pending = v
      BY <3>3 DEF UIs
    <3> HIDE DEF a, x
    <3>6. /\ \A y : Holds(r.idles, y) <=> Holds(a.idles, y) \/ y = x
          /\ \A l : l # "panel" => Cardinality(At(r.idles, l)) = Cardinality(At(a.idles, l))
      BY <3>1, <3>2, <3>5, PostedQueue
    <3>7. Only({"idles"}, a, r)
      BY <3>1, <3>2, <3>5, PostedFacts
    <3>8. r.pending = v
      BY <3>5, <3>7 DEF Only, Fields
    <3>9. SameFrozen(u, r)
      BY <3>4, <3>5, <3>6 DEF SameFrozen
    <3>10. SameHeights(u, r)
      BY <3>2, <3>4, <3>5, <3>6 DEF SameHeights
    <3> QED
      BY <3>8, <3>9, <3>10
  <2> QED
    BY <2>1, <2>2
<1>4. FrozenWork(r) = FrozenWork(u) /\ HeightLeft(r) = HeightLeft(u)
  BY <1>1, <1>2, <1>3, SameFrozenWork, SameHeightLeft
<1>5. /\ r.hover = u.hover /\ r.slide = u.slide /\ r.widthAnim = u.widthAnim
      /\ r.heightAnim = u.heightAnim /\ r.backdropAnim = u.backdropAnim
  BY <1>1 DEF Only, Fields
<1>6. TimerWork(r) <= TimerWork(u)
  BY <1>1, <1>5, TimersStop
<1> QED
  BY <1>1, <1>2, <1>3, <1>4, <1>6, WorkNat DEF Costs

LEMMA SetStackViewCosts ==
    ASSUME NEW u \in UIs, OneEach(u), NEW v \in Pages, NEW m \in Measures,
           NEW r, r = SetStackView(u, v, m)
    PROVE  Costs(u, r, HeightWork + 1)
<1>1. /\ r \in UIs
      /\ Only({"width", "widthAnim", "widthTo", "slide", "listDetailAnimating", "stackView"}, u, r)
  BY SetStackViewFacts
<1>2. r.widthAnim = u.widthAnim \/ r.widthAnim = "none"
  <2>1. PICK y : y = StopSlide(u) /\ y \in UIs /\ y.widthAnim = u.widthAnim
    BY StopSlideFacts DEF Only, Fields
  <2>2. CASE u.stackView = v
    <3>1. r = [y EXCEPT !.listDetailAnimating = FALSE]
      BY <2>1, <2>2 DEF SetStackView
    <3> QED
      BY <2>1, <3>1 DEF UIs
  <2>3. CASE u.stackView # v
    <3>1. PICK w : w = StopWidth(y) /\ w \in UIs /\ w.widthAnim = "none"
      BY <2>1, StopWidthFacts
    <3>2. r = [w EXCEPT !.slide = TRUE, !.listDetailAnimating = m.moves, !.widthTo = v,
                        !.stackView = v]
      BY <2>1, <2>3, <3>1 DEF SetStackView
    <3> QED
      BY <3>1, <3>2 DEF UIs
  <2> QED
    BY <2>2, <2>3
<1>3. /\ r.hover = u.hover /\ r.idles = u.idles /\ r.pending = u.pending
      /\ r.panelView = u.panelView
      /\ r.heightAnim = u.heightAnim /\ r.backdropAnim = u.backdropAnim
  BY <1>1 DEF Only, Fields
<1>4. TimerWork(r) <= TimerWork(u) + HeightWork + 1
  BY <1>1, <1>2, <1>3, TimersStart
<1>5. HeightWork + 1 \in Nat /\ TimerWork(r) <= TimerWork(u) + (HeightWork + 1)
  BY <1>1, <1>4, HeightWorkNat, RestWork
<1> QED
  BY <1>1, <1>3, <1>5, TimersCost

LEMMA UpdateShellWidthCosts ==
    ASSUME NEW u \in UIs, Orderly(u), NEW b \in BOOLEAN, NEW r, r = UpdateShellWidth(u, b)
    PROVE  /\ Costs(u, r, HeightWork + 1)
           /\ b /\ u.panelView # "detail" => Costs(u, r, 0)
<1>1. PICK t \in Views : t = TargetWidth(u)
  BY DEF TargetWidth, UIs, Views
<1>2. PICK s : /\ s = StopWidth(u) /\ s \in UIs /\ s.widthAnim = "none"
               /\ Only({"width", "widthAnim"}, u, s)
  BY StopWidthFacts
<1>3. /\ s.hover = u.hover /\ s.idles = u.idles /\ s.pending = u.pending
      /\ s.panelView = u.panelView /\ s.slide = u.slide
      /\ s.heightAnim = u.heightAnim /\ s.backdropAnim = u.backdropAnim
  BY <1>2 DEF Only, Fields
<1>4. PICK w : w = [s EXCEPT !.width = t]
  OBVIOUS
<1>5. /\ w \in UIs /\ w.widthAnim = "none"
      /\ w.hover = u.hover /\ w.idles = u.idles /\ w.pending = u.pending
      /\ w.panelView = u.panelView /\ w.slide = u.slide
      /\ w.heightAnim = u.heightAnim /\ w.backdropAnim = u.backdropAnim
  BY <1>2, <1>3, <1>4 DEF UIs
<1>6. OneEach(u) /\ Orderly(w) /\ OneEach(w)
  BY <1>5, SameIdles DEF Orderly
<1>7. Costs(u, w, 0)
  <2>1. TimerWork(w) <= TimerWork(u) + 0
    BY <1>5, TimersStop, RestWork
  <2> QED
    BY <1>5, <1>6, <2>1, TimersCost
<1>8. CASE ~b
  <2>1. r = [s EXCEPT !.widthAnim = "shell", !.widthTo = t]
    BY <1>1, <1>2, <1>8 DEF UpdateShellWidth
  <2>2. r \in UIs
    <3>1. [s EXCEPT !.widthAnim = "shell", !.widthTo = t] \in UIs
      BY <1>2, TypedWidth
    <3> QED
      BY <2>1, <3>1
  <2>3. /\ r.widthAnim = "shell" /\ r.hover = u.hover /\ r.idles = u.idles
        /\ r.pending = u.pending /\ r.panelView = u.panelView /\ r.slide = u.slide
        /\ r.heightAnim = u.heightAnim /\ r.backdropAnim = u.backdropAnim
    BY <1>2, <1>3, <2>1 DEF UIs
  <2>4. TimerWork(r) <= TimerWork(u) + HeightWork + 1
    BY <2>2, <2>3, TimersStart
  <2>5. HeightWork + 1 \in Nat /\ TimerWork(r) <= TimerWork(u) + (HeightWork + 1)
    BY <2>2, <2>4, HeightWorkNat, RestWork
  <2> QED
    BY <1>6, <1>8, <2>2, <2>3, <2>5, TimersCost
<1>9. CASE b /\ u.panelView = "detail"
  <2>1. r = SyncDetailHeight(w, FALSE)
    BY <1>1, <1>2, <1>4, <1>9 DEF UpdateShellWidth
  <2>2. Costs(w, r, HeightWork) /\ r \in UIs /\ Orderly(r)
    BY <1>5, <1>6, <2>1, SyncDetailHeightCosts, SyncDetailHeightFacts
  <2>3. Work(u) \in Nat /\ Work(w) \in Nat /\ Work(r) \in Nat
    BY <1>5, <1>6, <2>2, WorkNat DEF Orderly
  <2> QED
    <3>1. Work(r) <= Work(u) + HeightWork + 1
      BY <1>7, <2>2, <2>3, HeightWorkNat DEF Costs
    <3>2. Costs(u, r, HeightWork + 1)
      BY <2>3, <3>1, HeightWorkNat DEF Costs
    <3> QED
      BY <1>9, <3>2
<1>10. CASE b /\ u.panelView # "detail"
  <2>1. r = w
    BY <1>1, <1>2, <1>4, <1>10 DEF UpdateShellWidth
  <2>3. Work(u) \in Nat /\ Work(w) \in Nat
    BY <1>5, <1>6, WorkNat
  <2> QED
    BY <1>7, <2>1, <2>3, HeightWorkNat DEF Costs
<1> QED
  BY <1>8, <1>9, <1>10

\* Fields that no work depends on.
Still ==
    {"running", "payload", "selected", "stackView", "pinned", "wasExpanded", "closingActive",
     "mode", "width", "widthTo", "listDetailAnimating", "live", "clip", "frozen", "rows",
     "shown", "backdrop", "backdropShown", "listMeasured", "crossed"}

LEMMA StillCosts ==
    ASSUME NEW u \in UIs, NEW r \in UIs, OneEach(u), Only(Still, u, r)
    PROVE  OneEach(r) /\ Work(r) = Work(u)
<1>1. /\ r.idles = u.idles /\ r.pending = u.pending /\ r.panelView = u.panelView
      /\ r.hover = u.hover /\ r.widthAnim = u.widthAnim /\ r.slide = u.slide
      /\ r.heightAnim = u.heightAnim /\ r.backdropAnim = u.backdropAnim
  BY DEF Only, Fields, Still
<1>2. OneEach(r)
  BY <1>1, SameIdles
<1>3. /\ FrozenWork(r) = FrozenWork(u) /\ HeightLeft(r) = HeightLeft(u)
      /\ RequestWork(r) = RequestWork(u)
  BY <1>1, SameIdleWork
<1>4. TimerWork(r) = TimerWork(u)
  BY <1>1 DEF TimerWork
<1> QED
  BY <1>2, <1>3, <1>4 DEF Work

\* A detail that is not listed makes way by a request for the view that is shown.
LEMMA ListedSelectedCosts ==
    ASSUME NEW u \in UIs, Orderly(u), u.payload # <<>>, u.panelView = "detail",
           NEW r, r = ListedSelected(u)
    PROVE  Costs(u, r, 1)
<1>1. r \in UIs /\ Orderly(r) /\ r.panelView = u.panelView
  BY ListedSelectedFacts DEF Only, Fields
<1>2. Work(u) \in Nat /\ Work(r) \in Nat
  BY <1>1, WorkNat DEF Orderly
<1>3. CASE u.selected \in ToSet(u.payload)
  BY <1>2, <1>3 DEF ListedSelected, Costs
<1>4. CASE u.selected \notin ToSet(u.payload)
  <2>1. PICK s \in Sessions : r = OpenDetail(u, s)
    BY <1>4, FirstListed DEF ListedSelected
  <2> DEFINE w == [CancelHoverClose(u) EXCEPT !.selected = s]
  <2>2. r = SchedulePanelView(w, "detail") /\ "detail" \in Views
    BY <2>1 DEF OpenDetail, Views
  <2>3. w \in UIs
    BY DEF CancelHoverClose, UIs
  <2>4. Only({"hover", "selected"}, u, w) /\ ~w.hover
    BY DEF CancelHoverClose, UIs, Only, Fields
  <2> HIDE DEF w
  <2>5. /\ w.idles = u.idles /\ w.pending = u.pending /\ w.panelView = u.panelView
        /\ w.widthAnim = u.widthAnim /\ w.slide = u.slide
        /\ w.heightAnim = u.heightAnim /\ w.backdropAnim = u.backdropAnim
    BY <2>4 DEF Only, Fields
  <2>6. Orderly(w) /\ OneEach(u)
    BY <2>5, SameIdles DEF Orderly
  <2>7. TimerWork(w) <= TimerWork(u) + 0
    BY <2>3, <2>4, <2>5, TimersStop, RestWork
  <2>8. Costs(u, w, 0)
    BY <2>3, <2>5, <2>6, <2>7, TimersCost
  <2>9. r.pending = "detail" /\ Costs(w, r, RequestWork(r))
    BY <2>2, <2>3, <2>6, ScheduleCosts
  <2>10. RequestWork(r) = 1
    BY <1>1, <2>9, RestWork
  <2>11. Work(w) \in Nat
    BY <2>3, <2>6, WorkNat DEF Orderly
  <2> QED
    BY <1>2, <2>8, <2>9, <2>10, <2>11 DEF Costs
<1> QED
  BY <1>3, <1>4

LEMMA RebuildDetailCosts ==
    ASSUME NEW u \in UIs, Orderly(u), NEW m \in Measures, u.payload # <<>>,
           u.panelView \in Pages, NEW r, r = RebuildDetail(u, m)
    PROVE  /\ u.panelView = "detail" => Costs(u, r, HeightWork + 2)
           /\ u.panelView = "list" => Costs(u, r, HeightWork + 1)
<1> DEFINE l == RebuildList(u)
<1>1. l \in UIs /\ Only({"rows"}, u, l)
  BY DEF RebuildList, UIs, Only, Fields
<1>2. r \in UIs /\ Orderly(r)
  BY RebuildDetailFacts
<1>3. /\ l.payload = u.payload /\ l.idles = u.idles /\ l.pending = u.pending
      /\ l.panelView = u.panelView
  BY <1>1 DEF Only, Fields
<1>4. Orderly(l) /\ OneEach(l) /\ OneEach(u)
  BY <1>3, SameIdles DEF Orderly
<1>5. Work(l) = Work(u)
  <2>1. Only(Still, u, l)
    BY <1>1 DEF Only, Still
  <2> QED
    BY <1>1, <1>4, <2>1, StillCosts
<1>6. Work(u) \in Nat /\ Work(r) \in Nat
  BY <1>2, <1>4, WorkNat DEF Orderly
<1>7. CASE u.panelView = "list"
  <2>1. r = SetStackView(l, "list", m) /\ "list" \in Pages
    BY <1>7 DEF RebuildDetail, Pages
  <2> HIDE DEF l
  <2>2. Costs(l, r, HeightWork + 1)
    BY <1>1, <1>4, <2>1, SetStackViewCosts
  <2> QED
    BY <1>5, <1>7, <2>2 DEF Costs
<1>8. CASE u.panelView = "detail"
  <2> DEFINE w == ListedSelected(l)
             a == RebuildSelectedDetail(w)
  <2>1. r = SetStackView(a, "detail", m) /\ "detail" \in Pages
    BY <1>8 DEF RebuildDetail, Pages
  <2> HIDE DEF l
  <2>2. w \in UIs /\ Orderly(w)
    BY <1>1, <1>3, <1>4, ListedSelectedFacts
  <2>3. Costs(l, w, 1)
    BY <1>1, <1>3, <1>4, <1>8, ListedSelectedCosts
  <2> HIDE DEF w
  <2>4. a \in UIs
    BY <2>2 DEF RebuildSelectedDetail, UIs
  <2>5. Only(Still, w, a)
    BY <2>2 DEF RebuildSelectedDetail, UIs, Only, Fields, Still
  <2> HIDE DEF a
  <2>6. OneEach(a) /\ Work(a) = Work(w)
    BY <2>2, <2>4, <2>5, StillCosts DEF Orderly
  <2>7. Costs(a, r, HeightWork + 1)
    BY <2>1, <2>4, <2>6, SetStackViewCosts
  <2>8. Work(w) \in Nat
    BY <2>2, WorkNat DEF Orderly
  <2> QED
    BY <1>5, <1>6, <1>8, <2>3, <2>6, <2>7, <2>8, HeightWorkNat DEF Costs
<1> QED
  BY <1>7, <1>8

LEMMA FrozenTransitionCosts ==
    ASSUME NEW u \in UIs, Orderly(u), NEW k \in {"open", "close"}, NEW t \in Views,
           NEW r, r = FrozenTransition(u, k, t)
    PROVE  Costs(u, r, 2 * HeightWork + 3)
<1> DEFINE w == Without(u, "height")
           s == StopWidth(w)
<1>1. w \in UIs /\ \A l : l # "height" => Cardinality(At(w.idles, l)) = Cardinality(At(u.idles, l))
  BY WithoutFacts, WithoutQueue
<1>2. r = [s EXCEPT !.heightAnim = FALSE, !.widthAnim = k, !.widthTo = t, !.frozen = TRUE,
                    !.closingActive = TRUE]
  BY DEF FrozenTransition
<1>3. s \in UIs /\ Only({"width", "widthAnim"}, w, s)
  BY <1>1, StopWidthFacts
<1> HIDE DEF w, s
<1>4. r.idles = w.idles
  <2>1. r.idles = s.idles
    BY <1>2, <1>3 DEF UIs
  <2>2. s.idles = w.idles
    BY <1>3 DEF Only, Fields
  <2> QED
    BY <2>1, <2>2
<1>5. /\ r \in UIs /\ r.widthAnim = k /\ ~r.heightAnim /\ Orderly(r) /\ ~Waits(r, "height")
      /\ Only({"width", "widthAnim", "widthTo", "heightAnim", "frozen", "closingActive",
                "idles"}, u, r)
  BY FrozenTransitionFacts
<1>6. /\ r.pending = u.pending /\ r.panelView = u.panelView /\ r.hover = u.hover
      /\ r.slide = u.slide /\ r.backdropAnim = u.backdropAnim
  BY <1>5 DEF Only, Fields
<1>7. SameFrozen(u, r)
  BY <1>1, <1>4 DEF SameFrozen
<1>8. OneEach(u) /\ OneEach(r)
  BY <1>5 DEF Orderly
<1>9. FrozenWork(r) = FrozenWork(u) /\ HeightLeft(r) = 0 /\ RequestWork(r) = RequestWork(u)
  BY <1>5, <1>6, <1>7, <1>8, SameFrozenWork, HeightLeftIs DEF RequestWork
<1>10. TimerWork(r) <= TimerWork(u) + 2 * HeightWork + 3
  BY <1>5, <1>6, TimersStart
<1> QED
  BY <1>5, <1>8, <1>9, <1>10, WorkNat, HeightWorkNat DEF Costs

LEMMA StartFrozenListOpenCosts ==
    ASSUME NEW u \in UIs, Orderly(u), NEW r, r = StartFrozenListOpen(u)
    PROVE  Costs(u, r, 2 * HeightWork + 4)
<1> DEFINE e == [u EXCEPT !.mode = "opening", !.live = FALSE, !.clip = "zero"]
           a == [e EXCEPT !.frozen = TRUE]
           x == [kind |-> "frozenOpen"]
<1>1. e \in UIs
  BY TypedStart
<1>2. r = Posted(a, x)
  BY DEF StartFrozenListOpen
<1>3. x \in Idle /\ x.kind = "frozenOpen"
  BY DEF Idle
<1>4. e.idles = u.idles
  BY DEF UIs
<1> HIDE DEF e
<1>5. a \in UIs /\ a.idles = u.idles
  BY <1>1, <1>4, ZenonT(40) DEF UIs
<1> HIDE DEF a, x
<1>6. /\ \A y : Holds(r.idles, y) <=> Holds(u.idles, y) \/ y = x
      /\ \A k : k # "frozenOpen" => Cardinality(At(r.idles, k)) = Cardinality(At(u.idles, k))
      /\ Cardinality(At(r.idles, "frozenOpen")) = Cardinality(At(u.idles, "frozenOpen")) + 1
  BY <1>2, <1>3, <1>5, PostedQueue
<1>7. /\ r \in UIs /\ Orderly(r)
      /\ Only({"mode", "live", "clip", "frozen", "idles"}, u, r)
  BY StartFrozenListOpenFacts
<1>8. /\ r.pending = u.pending /\ r.panelView = u.panelView /\ r.hover = u.hover
      /\ r.slide = u.slide /\ r.backdropAnim = u.backdropAnim /\ r.widthAnim = u.widthAnim
      /\ r.heightAnim = u.heightAnim
  BY <1>7 DEF Only, Fields
<1>9. SameHeights(u, r)
  BY <1>3, <1>6 DEF SameHeights
<1>10. OneEach(u) /\ OneEach(r)
  BY <1>7 DEF Orderly
<1>11. HeightLeft(r) = HeightLeft(u) /\ RequestWork(r) = RequestWork(u)
  BY <1>7, <1>8, <1>9, <1>10, SameHeightLeft DEF RequestWork
<1>12. FrozenWork(r) = FrozenWork(u) + 2 * HeightWork + 4
  BY <1>6, <1>7, FrozenWorkMoves
<1>13. TimerWork(r) <= TimerWork(u)
  BY <1>7, <1>8, TimersStop
<1> QED
  BY <1>7, <1>10, <1>11, <1>12, <1>13, WorkNat, HeightWorkNat DEF Costs

LEMMA ResetLiveSlideToListCosts ==
    ASSUME NEW u \in UIs, OneEach(u), NEW r, r = ResetLiveSlideToList(u)
    PROVE  r \in UIs /\ OneEach(r) /\ Work(r) <= Work(u)
<1>1. /\ r \in UIs /\ Only({"width", "slide", "listDetailAnimating", "stackView"}, u, r)
      /\ ~r.slide
  BY ResetLiveSlideToListFacts
<1>2. /\ r.pending = u.pending /\ r.panelView = u.panelView /\ r.hover = u.hover
      /\ r.idles = u.idles /\ r.backdropAnim = u.backdropAnim /\ r.widthAnim = u.widthAnim
      /\ r.heightAnim = u.heightAnim
  BY <1>1 DEF Only, Fields
<1>3. TimerWork(r) <= TimerWork(u) + 0
  BY <1>1, <1>2, TimersStop, RestWork
<1>4. Costs(u, r, 0) /\ OneEach(r)
  BY <1>1, <1>2, <1>3, TimersCost, SameIdles
<1> QED
  BY <1>1, <1>4, WorkNat DEF Costs

LEMMA StartFrozenListCloseCosts ==
    ASSUME NEW u \in UIs, Orderly(u), NEW r, r = StartFrozenListClose(u)
    PROVE  Costs(u, r, 2 * HeightWork + 3)
<1> DEFINE l == ResetLiveSlideToList(u)
           h == [l EXCEPT !.mode = "closing", !.live = FALSE, !.clip = "zero"]
<1>1. l \in UIs /\ OneEach(l) /\ Work(l) <= Work(u)
  BY ResetLiveSlideToListCosts DEF Orderly
<1>2. r = FrozenTransition(h, "close", "closed") /\ "closed" \in Views
  BY DEF StartFrozenListClose, Views
<1>3. Only({"width", "slide", "listDetailAnimating", "stackView"}, u, l)
  BY ResetLiveSlideToListFacts
<1> HIDE DEF l
<1>4. h \in UIs
  BY <1>1, TypedStart
<1>5. Only({"mode", "live", "clip"}, l, h)
  BY <1>1 DEF UIs, Only, Fields
<1> HIDE DEF h
<1>6. Work(h) = Work(l)
  <2>1. Only(Still, l, h)
    BY <1>5 DEF Only, Still
  <2> QED
    BY <1>1, <1>4, <2>1, StillCosts
<1>7. h.idles = u.idles /\ h.pending = u.pending
  BY <1>3, <1>5 DEF Only, Fields
<1>8. Orderly(h)
  BY <1>7, SameIdles
<1>9. Costs(h, r, 2 * HeightWork + 3) /\ r \in UIs /\ Orderly(r)
  BY <1>2, <1>4, <1>8, FrozenTransitionCosts, FrozenTransitionFacts
<1>10. Work(u) \in Nat /\ Work(h) \in Nat /\ Work(r) \in Nat
  BY <1>4, <1>8, <1>9, WorkNat DEF Orderly
<1> QED
  BY <1>1, <1>6, <1>9, <1>10, HeightWorkNat DEF Costs

LEMMA ForgetSessionsCosts ==
    ASSUME NEW u \in UIs, Orderly(u), NEW r, r = ForgetSessions(u)
    PROVE  Work(r) <= Work(u)
<1> DEFINE w == Without(u, "panel")
           c == CancelHoverClose(w)
           l == ResetLiveSlideToList(c)
<1>1. /\ w \in UIs
      /\ \A y : y.kind # "panel" => (Holds(w.idles, y) <=> Holds(u.idles, y))
      /\ \A k : k # "panel" => Cardinality(At(w.idles, k)) = Cardinality(At(u.idles, k))
  BY WithoutFacts, WithoutQueue
<1> HIDE DEF w
<1>2. c \in UIs /\ c.idles = w.idles
  <2>1. c \in UIs
    BY <1>1, ZenonT(40) DEF CancelHoverClose, UIs
  <2>2. c.idles = w.idles
    BY <1>1 DEF CancelHoverClose, UIs
  <2> QED
    BY <2>1, <2>2
<1> HIDE DEF c
<1>3. l \in UIs /\ Only({"width", "slide", "listDetailAnimating", "stackView"}, c, l)
  BY <1>2, ResetLiveSlideToListFacts
<1>4. r = [l EXCEPT !.panelView = "closed", !.pending = None, !.pinned = FALSE, !.selected = None]
  BY DEF ForgetSessions, l, c, w
<1> HIDE DEF l
<1>5. r.idles = w.idles /\ r.pending = None
  <2>1. l.idles = w.idles
    BY <1>2, <1>3 DEF Only, Fields
  <2> QED
    BY <1>3, <1>4, <2>1 DEF UIs
<1>6. /\ r \in UIs /\ Orderly(r) /\ ~r.slide
      /\ Only({"hover", "panelView", "pending", "pinned", "selected", "idles",
                "width", "slide", "listDetailAnimating", "stackView"}, u, r)
  BY ForgetSessionsFacts
<1>7. OneEach(u) /\ OneEach(r)
  BY <1>6 DEF Orderly
<1>8. SameFrozen(u, r) /\ SameHeights(u, r)
  BY <1>1, <1>5 DEF SameFrozen, SameHeights
<1>9. FrozenWork(r) = FrozenWork(u) /\ HeightLeft(r) = HeightLeft(u) /\ RequestWork(r) = 0
  BY <1>5, <1>6, <1>7, <1>8, SameFrozenWork, SameHeightLeft, RestWork
<1>10. r.widthAnim = u.widthAnim /\ r.heightAnim = u.heightAnim /\ r.backdropAnim = u.backdropAnim
  BY <1>6 DEF Only, Fields
<1>11. r.hover => u.hover
  <2>1. ~c.hover
    BY <1>1 DEF c, CancelHoverClose, UIs
  <2>2. l.hover = c.hover
    BY <1>3 DEF Only, Fields
  <2>3. r.hover = l.hover
    BY <1>3, <1>4 DEF UIs
  <2> QED
    BY <2>1, <2>2, <2>3
<1>12. TimerWork(r) <= TimerWork(u)
  BY <1>6, <1>10, <1>11, TimersStop
<1> QED
  BY <1>6, <1>7, <1>9, <1>12, WorkNat

LEMMA SyncBackdropCosts ==
    ASSUME NEW u \in UIs, OneEach(u), NEW b \in BOOLEAN, NEW r, r = SyncBackdrop(u, b)
    PROVE  Costs(u, r, 1)
<1>1. r \in UIs /\ Only({"backdrop", "backdropAnim", "backdropShown"}, u, r)
  BY SyncBackdropFacts
<1>2. /\ r.pending = u.pending /\ r.panelView = u.panelView /\ r.hover = u.hover
      /\ r.idles = u.idles /\ r.slide = u.slide /\ r.widthAnim = u.widthAnim
      /\ r.heightAnim = u.heightAnim
  BY <1>1 DEF Only, Fields
<1>3. TimerWork(r) <= TimerWork(u) + 1
  <2>1. PICK h \in Nat : h = HeightWork
    BY HeightWorkNat
  <2> QED
    BY <1>2, <2>1 DEF TimerWork, Flag
<1> QED
  BY <1>1, <1>2, <1>3, TimersCost

\* The page is built, measured and given its width.
LEMMA RebuiltCosts ==
    ASSUME NEW u \in UIs, Orderly(u), NEW m \in Measures, u.payload # <<>>,
           u.panelView \in Pages, NEW b \in BOOLEAN, NEW c \in BOOLEAN,
           NEW w, w = SyncDetailHeight(RebuildDetail(u, m), b),
           NEW r, (r = w /\ w.listDetailAnimating) \/ r = UpdateShellWidth(w, c)
    PROVE  /\ Costs(u, r, 3 * HeightWork + 3)
           /\ u.panelView = "list" /\ c => Costs(u, r, 2 * HeightWork + 1)
<1>1. PICK d : d = RebuildDetail(u, m) /\ d \in UIs /\ Orderly(d) /\ d.panelView = u.panelView
  BY RebuildDetailFacts DEF Only, Fields
<1>2. /\ u.panelView = "detail" => Costs(u, d, HeightWork + 2)
      /\ u.panelView = "list" => Costs(u, d, HeightWork + 1)
  BY <1>1, RebuildDetailCosts
<1>3. w \in UIs /\ Orderly(w) /\ w.panelView = u.panelView
  BY <1>1, SyncDetailHeightFacts DEF Only, Fields
<1>4. Costs(d, w, HeightWork)
  BY <1>1, SyncDetailHeightCosts
<1>5. PICK h \in Nat : h = HeightWork /\ h >= 2
  BY HeightWorkNat
<1>6. Work(u) \in Nat /\ Work(d) \in Nat /\ Work(w) \in Nat
  BY <1>1, <1>3, WorkOrderly
<1>7. /\ Work(w) <= Work(u) + 2 * h + 2
      /\ u.panelView = "list" => Work(w) <= Work(u) + 2 * h + 1
  BY <1>2, <1>4, <1>5, <1>6 DEF Costs, Pages
<1>8. CASE r = w
  BY <1>5, <1>6, <1>7, <1>8 DEF Costs
<1>9. CASE r = UpdateShellWidth(w, c)
  <2>1. r \in UIs /\ Orderly(r)
    BY <1>3, <1>9, UpdateShellWidthFacts
  <2>2. /\ Costs(w, r, HeightWork + 1)
        /\ c /\ u.panelView # "detail" => Costs(w, r, 0)
    BY <1>3, <1>9, UpdateShellWidthCosts
  <2>3. Work(r) \in Nat
    BY <2>1, WorkNat DEF Orderly
  <2> QED
    BY <1>5, <1>6, <1>7, <2>2, <2>3 DEF Costs
<1> QED
  BY <1>8, <1>9

LEMMA RebuildOpenCosts ==
    ASSUME NEW u \in UIs, Orderly(u), NEW m \in Measures, u.payload # <<>>,
           u.panelView \in Pages, NEW r, r = RebuildOpen(u, m)
    PROVE  Costs(u, r, 3 * HeightWork + 3)
<1>1. r \in UIs /\ Orderly(r)
  BY RebuildOpenFacts
<1>2. Work(u) \in Nat /\ Work(r) \in Nat
  BY <1>1, WorkNat DEF Orderly
<1>3. CASE u.panelView = "list" /\ ~u.wasExpanded
  <2>1. r = StartFrozenListOpen(u)
    BY <1>3 DEF RebuildOpen
  <2>2. Costs(u, r, 2 * HeightWork + 4)
    BY <2>1, StartFrozenListOpenCosts
  <2> QED
    BY <1>2, <2>2, HeightWorkNat DEF Costs
<1>4. CASE ~(u.panelView = "list" /\ ~u.wasExpanded)
  <2> DEFINE x == [u EXCEPT !.wasExpanded = TRUE, !.mode = "none"]
             o == HideFrozen(x)
             w == SyncDetailHeight(RebuildDetail(o, m), TRUE)
  <2>1. x \in UIs
    BY DEF UIs
  <2>2. Only({"wasExpanded", "mode"}, u, x)
    BY DEF UIs, Only, Fields
  <2>3. (r = w /\ w.listDetailAnimating) \/ r = UpdateShellWidth(w, m.still)
    BY <1>4 DEF RebuildOpen
  <2> HIDE DEF x
  <2>4. o \in UIs /\ Only({"frozen"}, x, o)
    BY <2>1, HideFrozenFacts
  <2> HIDE DEF o
  <2>5. /\ o.idles = u.idles /\ o.pending = u.pending /\ o.panelView = u.panelView
        /\ o.payload = u.payload
    BY <2>2, <2>4 DEF Only, Fields
  <2>6. Only(Still, u, o)
    BY <2>2, <2>4 DEF Only, Still
  <2>7. Work(o) = Work(u) /\ Orderly(o)
    BY <2>4, <2>5, <2>6, StillCosts, SameIdles DEF Orderly
  <2>8. m.still \in BOOLEAN
    BY DEF Measures
  <2>9. PICK b : w = SyncDetailHeight(RebuildDetail(o, m), b) /\ b \in BOOLEAN
    OBVIOUS
  <2> HIDE DEF w
  <2>10. Costs(o, r, 3 * HeightWork + 3)
    BY <2>3, <2>4, <2>5, <2>7, <2>8, <2>9, RebuiltCosts
  <2> QED
    BY <2>7, <2>10 DEF Costs
<1> QED
  BY <1>3, <1>4

LEMMA RebuildClosedCosts ==
    ASSUME NEW u \in UIs, Orderly(u), NEW m \in Measures, u.panelView = "closed",
           NEW r, r = RebuildClosed(u, m)
    PROVE  Costs(u, r, 2 * HeightWork + 3)
<1>1. r \in UIs /\ Orderly(r)
  BY RebuildClosedFacts
<1>2. Work(u) \in Nat /\ Work(r) \in Nat
  BY <1>1, WorkNat DEF Orderly
<1>3. CASE ~u.wasExpanded
  <2> DEFINE y == [u EXCEPT !.live = FALSE, !.clip = "zero", !.mode = "none", !.width = "closed"]
  <2>1. r = [y EXCEPT !.frozen = FALSE]
    BY <1>3 DEF RebuildClosed, HideFrozen
  <2>2. Only({"live", "clip", "mode", "width"}, u, y) /\ DOMAIN y = DOMAIN u
    BY DEF UIs, Only, Fields
  <2>3. Only({"frozen"}, y, r)
    BY <2>1 DEF UIs, Only, Fields
  <2> HIDE DEF y
  <2>4. Only(Still, u, r)
    BY <2>2, <2>3 DEF Only, Still
  <2>5. Work(r) = Work(u)
    BY <1>1, <2>4, StillCosts DEF Orderly
  <2> QED
    BY <1>2, <2>5, HeightWorkNat DEF Costs
<1>4. CASE u.wasExpanded
  <2> DEFINE l == [u EXCEPT !.wasExpanded = FALSE]
  <2>1. l \in UIs
    BY DEF UIs
  <2>2. Only({"wasExpanded"}, u, l)
    BY DEF UIs, Only, Fields
  <2>3. r = l \/ r = StartFrozenListClose(l)
    BY <1>4 DEF RebuildClosed
  <2> HIDE DEF l
  <2>4. l.idles = u.idles /\ l.pending = u.pending /\ Only(Still, u, l)
    BY <2>2 DEF Only, Fields, Still
  <2>5. Work(l) = Work(u) /\ Orderly(l)
    BY <2>1, <2>4, StillCosts, SameIdles DEF Orderly
  <2>6. CASE r = l
    BY <1>2, <2>5, <2>6, HeightWorkNat DEF Costs
  <2>7. CASE r = StartFrozenListClose(l)
    BY <2>1, <2>5, <2>7, StartFrozenListCloseCosts DEF Costs
  <2> QED
    BY <2>3, <2>6, <2>7
<1> QED
  BY <1>3, <1>4

\* A rebuild costs less than a request for it.
LEMMA RebuildUICosts ==
    ASSUME NEW u \in UIs, Orderly(u), NEW m \in Measures, NEW r, r = RebuildUI(u, m)
    PROVE  Costs(u, r, 3 * HeightWork + 4)
<1> DEFINE f == IF u.payload = <<>> THEN ForgetSessions(u) ELSE u
           k == SyncBackdrop(f, BackdropActive(u))
           c == [k EXCEPT !.closingActive = FALSE, !.mode = "none"]
           free == IF k.closingActive THEN HideFrozen(c) ELSE k
<1>1. BackdropActive(u) \in BOOLEAN
  BY DEF BackdropActive, UIs
<1>2. f \in UIs /\ Orderly(f) /\ Work(f) <= Work(u) /\ f.payload = u.payload
      /\ (u.payload = <<>> => f.panelView = "closed")
  <2>1. CASE u.payload = <<>>
    BY <2>1, ForgetSessionsFacts, ForgetSessionsCosts DEF Only, Fields
  <2>2. CASE u.payload # <<>>
    BY <2>2, WorkNat DEF Orderly
  <2> QED
    BY <2>1, <2>2
<1>3. r = IF k.closingActive /\ k.panelView # "detail" THEN k
          ELSE IF k.panelView = "closed" THEN RebuildClosed(free, m)
          ELSE RebuildOpen(free, m)
  BY DEF RebuildUI
<1> HIDE DEF f
<1>4. k \in UIs /\ Only({"backdrop", "backdropAnim", "backdropShown"}, f, k) /\ Costs(f, k, 1)
  BY <1>1, <1>2, SyncBackdropFacts, SyncBackdropCosts DEF Orderly
<1> HIDE DEF k
<1>5. /\ k.panelView = f.panelView /\ k.payload = u.payload /\ k.idles = f.idles
      /\ k.pending = f.pending
  BY <1>2, <1>4 DEF Only, Fields
<1>6. Orderly(k)
  BY <1>2, <1>5, SameIdles
<1>7. free \in UIs /\ Only({"closingActive", "mode", "frozen"}, k, free)
  <2>1. c \in UIs
    BY <1>4, TypedInterrupted
  <2>2. Only({"closingActive", "mode"}, k, c)
    BY <1>4 DEF UIs, Only, Fields
  <2> HIDE DEF c
  <2>3. CASE k.closingActive
    <3>1. free \in UIs /\ Only({"frozen"}, c, free)
      BY <2>1, <2>3, HideFrozenFacts
    <3> QED
      BY <2>2, <3>1 DEF Only
  <2>4. CASE ~k.closingActive
    BY <1>4, <2>4 DEF Only
  <2> QED
    BY <2>3, <2>4
<1> HIDE DEF free
<1>8. /\ free.idles = k.idles /\ free.pending = k.pending /\ free.panelView = k.panelView
      /\ free.payload = k.payload /\ Only(Still, k, free)
  BY <1>7 DEF Only, Fields, Still
<1>9. Orderly(free) /\ Work(free) = Work(k)
  BY <1>4, <1>6, <1>7, <1>8, StillCosts, SameIdles DEF Orderly
<1>10. r \in UIs /\ Orderly(r)
  BY RebuildUIFacts
<1>11. Work(u) \in Nat /\ Work(f) \in Nat /\ Work(k) \in Nat /\ Work(r) \in Nat
  BY <1>2, <1>4, <1>6, <1>10, WorkOrderly
<1>12. r = k \/ Costs(free, r, 3 * HeightWork + 3)
  <2>1. CASE r = RebuildClosed(free, m) /\ k.panelView = "closed"
    <3>1. Costs(free, r, 2 * HeightWork + 3)
      BY <1>7, <1>8, <1>9, <2>1, RebuildClosedCosts
    <3> QED
      BY <1>9, <1>11, <3>1, HeightWorkNat DEF Costs
  <2>2. CASE r = RebuildOpen(free, m) /\ k.panelView # "closed"
    <3>1. free.panelView \in Pages /\ free.payload # <<>>
      BY <1>2, <1>5, <1>7, <1>8, <2>2 DEF UIs, Views, Pages
    <3> QED
      BY <1>7, <1>9, <2>2, <3>1, RebuildOpenCosts
  <2> QED
    BY <1>3, <2>1, <2>2
<1> QED
  BY <1>2, <1>4, <1>9, <1>11, <1>12, HeightWorkNat DEF Costs

-----------------------------------------------------------------------------
(* What a callback or a timer takes away.                                  *)

LEMMA TakenQueue ==
    ASSUME ui \in UIs, NEW k, Due(k)
    PROVE  /\ \A y : y.kind # k => (Holds(Taken.idles, y) <=> Holds(ui.idles, y))
           /\ \A l : l # k => Cardinality(At(Taken.idles, l)) = Cardinality(At(ui.idles, l))
           /\ Cardinality(At(ui.idles, k)) = Cardinality(At(Taken.idles, k)) + 1
           /\ Holds(ui.idles, ui.idles[1])
<1>1. PICK p \in Seq(Idle) : p = ui.idles
  BY DEF UIs
<1>2. p # <<>> /\ p[1].kind = k
  BY <1>1 DEF Due
<1>3. 1 \in 1..Len(p)
  BY <1>2
<1>4. PICK q \in Seq(Idle) :
        q = Tail(p) /\ Len(q) = Len(p) - 1 /\ \A j \in 1..(Len(p) - 1) : q[j] = p[j + 1]
  <2>1. Tail(p) \in Seq(Idle)
    BY <1>2
  <2>2. Len(Tail(p)) = Len(p) - 1 /\ \A j \in 1..(Len(p) - 1) : Tail(p)[j] = p[j + 1]
    BY <1>2
  <2> QED
    BY <2>1, <2>2
<1>5. Taken.idles = q
  BY <1>1, <1>4 DEF Taken, UIs
<1>6. PICK i \in 1..Len(p) : i = 1
  BY <1>3
<1>7. /\ \A y : y.kind # k => (Holds(q, y) <=> Holds(p, y))
      /\ \A l : l # k => Cardinality(At(q, l)) = Cardinality(At(p, l))
      /\ Cardinality(At(q, k)) = Cardinality(At(p, k)) - 1
  <2>1. /\ q \in Seq(Idle) /\ Len(q) = Len(p) - 1
        /\ \A j \in 1..(Len(p) - 1) : q[j] = IF j < i THEN p[j] ELSE p[j + 1]
    BY <1>4, <1>6
  <2>2. /\ \A y : y.kind # p[i].kind => (Holds(q, y) <=> Holds(p, y))
        /\ \A l : l # p[i].kind => Cardinality(At(q, l)) = Cardinality(At(p, l))
        /\ Cardinality(At(q, p[i].kind)) = Cardinality(At(p, p[i].kind)) - 1
    BY <2>1, Shifted, SMTT(40)
  <2> QED
    BY <1>2, <1>6, <2>2
<1>8. Cardinality(At(p, k)) \in Nat /\ Cardinality(At(q, k)) \in Nat
  BY AtFinite
<1>9. Cardinality(At(p, k)) = Cardinality(At(q, k)) + 1
  BY <1>7, <1>8
<1>10. Holds(p, p[1])
  BY <1>3 DEF Holds
<1> QED
  BY <1>1, <1>5, <1>7, <1>9, <1>10

\* The first callback takes its own work away, and leaves request and timers.
LEMMA TakenWork ==
    ASSUME ui \in UIs, OneEach(ui), NEW k, Due(k)
    PROVE  /\ Taken \in UIs /\ OneEach(Taken)
           /\ TimerWork(Taken) = TimerWork(ui) /\ RequestWork(Taken) = RequestWork(ui)
           /\ k \in {"panel", "height"} => FrozenWork(Taken) = FrozenWork(ui)
           /\ k # "height" => HeightLeft(Taken) = HeightLeft(ui)
           /\ k = "height" => HeightLeft(Taken) = 0
           /\ k = "frozenOpen" => FrozenWork(ui) = FrozenWork(Taken) + 2 * HeightWork + 4
           /\ k = "openDone" => FrozenWork(ui) = FrozenWork(Taken) + 2 * HeightWork + 2
           /\ k = "closeDone" => FrozenWork(ui) = FrozenWork(Taken) + 1
<1>1. PICK t : t = Taken
  OBVIOUS
<1>2. /\ t \in UIs /\ Only({"idles"}, ui, t) /\ OneEach(t)
      /\ k = "height" => ~Waits(t, "height")
  BY <1>1, TakenFacts
<1>3. /\ \A y : y.kind # k => (Holds(t.idles, y) <=> Holds(ui.idles, y))
      /\ \A l : l # k => Cardinality(At(t.idles, l)) = Cardinality(At(ui.idles, l))
      /\ Cardinality(At(ui.idles, k)) = Cardinality(At(t.idles, k)) + 1
  BY <1>1, TakenQueue
<1>4. /\ t.pending = ui.pending /\ t.panelView = ui.panelView /\ t.hover = ui.hover
      /\ t.widthAnim = ui.widthAnim /\ t.slide = ui.slide /\ t.heightAnim = ui.heightAnim
      /\ t.backdropAnim = ui.backdropAnim
  BY <1>2 DEF Only, Fields
<1>5. TimerWork(t) = TimerWork(ui) /\ RequestWork(t) = RequestWork(ui)
  BY <1>4 DEF TimerWork, RequestWork
<1>6. k \in {"panel", "height"} => FrozenWork(t) = FrozenWork(ui)
  <2>1. k \in {"panel", "height"} => SameFrozen(ui, t)
    BY <1>3 DEF SameFrozen
  <2> QED
    BY <1>2, <2>1, SameFrozenWork
<1>7. k # "height" => HeightLeft(t) = HeightLeft(ui)
  <2>1. k # "height" => SameHeights(ui, t)
    BY <1>3 DEF SameHeights
  <2> QED
    BY <1>2, <2>1, SameHeightLeft
<1>8. k = "height" => HeightLeft(t) = 0
  BY <1>2, HeightLeftIs
<1>9. k \in {"frozenOpen", "openDone", "closeDone"} =>
        /\ k = "frozenOpen" => FrozenWork(ui) = FrozenWork(t) + 2 * HeightWork + 4
        /\ k = "openDone" => FrozenWork(ui) = FrozenWork(t) + 2 * HeightWork + 2
        /\ k = "closeDone" => FrozenWork(ui) = FrozenWork(t) + 1
  <2>1. \A l : l # k => Cardinality(At(ui.idles, l)) = Cardinality(At(t.idles, l))
    BY <1>3
  <2> QED
    BY <1>2, <1>3, <2>1, FrozenWorkMoves
<1> QED
  BY <1>1, <1>2, <1>5, <1>6, <1>7, <1>8, <1>9

\* Work of a timer that is over.
LEMMA TimersLess ==
    ASSUME NEW u \in UIs, NEW r \in UIs, Orderly(u), r.idles = u.idles,
           r.pending = u.pending, r.panelView = u.panelView,
           NEW n \in Nat, TimerWork(r) + n <= TimerWork(u)
    PROVE  Orderly(r) /\ Work(r) + n <= Work(u)
<1>1. OneEach(u)
  BY DEF Orderly
<1>2. OneEach(r) /\ Orderly(r)
  BY <1>1, SameIdles
<1>3. /\ FrozenWork(r) = FrozenWork(u) /\ HeightLeft(r) = HeightLeft(u)
      /\ RequestWork(r) = RequestWork(u)
  BY <1>1, SameIdleWork
<1> QED
  BY <1>1, <1>2, <1>3, WorkNat

LEMMA HeightDoneDrains ==
    ASSUME Inv, HeightDone
    PROVE  Work(ui') < Work(ui)
<1>1. ui \in UIs /\ Orderly(ui) /\ ui.heightAnim
  BY DEF Inv, HeightDone
<1>2. PICK r : r = ui' /\ r = [ui EXCEPT !.heightAnim = FALSE, !.clip = "own"]
  BY DEF HeightDone
<1>3. r \in UIs
  BY <1>2, HeightDoneKeeps DEF Inv
<1>4. Only({"heightAnim", "clip"}, ui, r) /\ ~r.heightAnim
  BY <1>1, <1>2 DEF UIs, Only, Fields
<1>5. /\ r.pending = ui.pending /\ r.panelView = ui.panelView /\ r.hover = ui.hover
      /\ r.idles = ui.idles /\ r.slide = ui.slide /\ r.widthAnim = ui.widthAnim
      /\ r.backdropAnim = ui.backdropAnim
  BY <1>4 DEF Only, Fields
<1>6. TimerWork(r) + 1 <= TimerWork(ui)
  BY <1>1, <1>4, <1>5, HeightWorkNat DEF TimerWork, Flag
<1>7. Orderly(r) /\ Work(r) + 1 <= Work(ui)
  BY <1>1, <1>3, <1>5, <1>6, TimersLess
<1>8. Work(r) \in Nat /\ Work(ui) \in Nat
  BY <1>1, <1>3, <1>7, WorkOrderly
<1> QED
  BY <1>2, <1>7, <1>8

LEMMA BackdropDoneDrains ==
    ASSUME Inv, BackdropDone
    PROVE  Work(ui') < Work(ui)
<1>1. ui \in UIs /\ Orderly(ui) /\ ui.backdropAnim # "none"
  BY DEF Inv, BackdropDone
<1>2. PICK r, b : /\ r = ui' /\ b = (ui.backdropAnim = "in")
                  /\ r = [ui EXCEPT !.backdropAnim = "none", !.backdropShown = b]
  BY DEF BackdropDone
<1>3. r \in UIs
  BY <1>1, <1>2, ZenonT(40) DEF UIs
<1>4. Only({"backdropAnim", "backdropShown"}, ui, r) /\ r.backdropAnim = "none"
  BY <1>1, <1>2 DEF UIs, Only, Fields
<1>5. /\ r.pending = ui.pending /\ r.panelView = ui.panelView /\ r.hover = ui.hover
      /\ r.idles = ui.idles /\ r.slide = ui.slide /\ r.widthAnim = ui.widthAnim
      /\ r.heightAnim = ui.heightAnim
  BY <1>4 DEF Only, Fields
<1>6. TimerWork(r) + 1 <= TimerWork(ui)
  BY <1>1, <1>4, <1>5, HeightWorkNat DEF TimerWork, Flag
<1>7. Orderly(r) /\ Work(r) + 1 <= Work(ui)
  BY <1>1, <1>3, <1>5, <1>6, TimersLess
<1>8. Work(r) \in Nat /\ Work(ui) \in Nat
  BY <1>1, <1>3, <1>7, WorkOrderly
<1> QED
  BY <1>2, <1>7, <1>8

\* The end of a width animation or a slide may measure the detail page again.
LEMMA MeasuredDrains ==
    ASSUME ui \in UIs, Orderly(ui), NEW u \in UIs, u.idles = ui.idles,
           u.pending = ui.pending, u.panelView = ui.panelView,
           TimerWork(u) + (HeightWork + 1) <= TimerWork(ui),
           NEW r, r = u \/ r = SyncDetailHeight(u, FALSE)
    PROVE  Work(r) < Work(ui)
<1>1. HeightWork + 1 \in Nat /\ HeightWork \in Nat
  BY HeightWorkNat
<1>2. Orderly(u) /\ Work(u) + (HeightWork + 1) <= Work(ui)
  BY <1>1, TimersLess
<1>3. Work(u) \in Nat /\ Work(ui) \in Nat
  BY <1>2, WorkOrderly
<1>4. CASE r = u
  BY <1>1, <1>2, <1>3, <1>4
<1>5. CASE r = SyncDetailHeight(u, FALSE)
  <2>1. PICK b \in BOOLEAN : r = SyncDetailHeight(u, b)
    BY <1>5
  <2>2. r \in UIs /\ Orderly(r)
    BY <1>2, <2>1, SyncDetailHeightFacts
  <2>3. Costs(u, r, HeightWork)
    BY <1>2, <2>1, SyncDetailHeightCosts
  <2>4. Work(r) \in Nat
    BY <2>2, WorkOrderly
  <2> QED
    BY <1>1, <1>2, <1>3, <2>3, <2>4 DEF Costs
<1> QED
  BY <1>4, <1>5

LEMMA WidthDoneDrains ==
    ASSUME Inv, WidthDone
    PROVE  Work(ui') < Work(ui)
<1> DEFINE t == ui.widthTo
           u == [ui EXCEPT !.widthAnim = "none", !.width = t]
<1>1. ui \in UIs /\ Orderly(ui) /\ ui.widthAnim = "shell" /\ t \in Views
  BY DEF Inv, WidthDone, UIs
<1>2. ui' = u \/ ui' = SyncDetailHeight(u, FALSE)
  BY DEF WidthDone
<1> HIDE DEF t
<1>3. u \in UIs
  BY <1>1, TypedArrived
<1>4. Only({"widthAnim", "width"}, ui, u) /\ u.widthAnim = "none"
  BY <1>1 DEF UIs, Only, Fields
<1> HIDE DEF u
<1>5. /\ u.pending = ui.pending /\ u.panelView = ui.panelView /\ u.hover = ui.hover
      /\ u.idles = ui.idles /\ u.slide = ui.slide /\ u.heightAnim = ui.heightAnim
      /\ u.backdropAnim = ui.backdropAnim
  BY <1>4 DEF Only, Fields
<1>6. TimerWork(u) + (HeightWork + 1) <= TimerWork(ui)
  BY <1>1, <1>4, <1>5, HeightWorkNat DEF TimerWork, Flag
<1> QED
  BY <1>1, <1>2, <1>3, <1>5, <1>6, MeasuredDrains

LEMMA SlideDoneDrains ==
    ASSUME Inv, SlideDone
    PROVE  Work(ui') < Work(ui)
<1> DEFINE t == ui.widthTo
           u == [ui EXCEPT !.slide = FALSE, !.listDetailAnimating = FALSE, !.width = t]
<1>1. ui \in UIs /\ Orderly(ui) /\ ui.slide /\ t \in Views
  BY DEF Inv, SlideDone, UIs
<1>2. ui' = u \/ ui' = SyncDetailHeight(u, FALSE)
  BY DEF SlideDone
<1> HIDE DEF t
<1>3. u \in UIs
  BY <1>1, TypedSlid
<1>4. Only({"slide", "listDetailAnimating", "width"}, ui, u) /\ ~u.slide
  BY <1>1 DEF UIs, Only, Fields
<1> HIDE DEF u
<1>5. /\ u.pending = ui.pending /\ u.panelView = ui.panelView /\ u.hover = ui.hover
      /\ u.idles = ui.idles /\ u.widthAnim = ui.widthAnim /\ u.heightAnim = ui.heightAnim
      /\ u.backdropAnim = ui.backdropAnim
  BY <1>4 DEF Only, Fields
<1>6. TimerWork(u) + (HeightWork + 1) <= TimerWork(ui)
  BY <1>1, <1>4, <1>5, HeightWorkNat DEF TimerWork, Flag
<1> QED
  BY <1>1, <1>2, <1>3, <1>5, <1>6, MeasuredDrains

LEMMA HoverTimeoutDrains ==
    ASSUME Inv, HoverTimeout
    PROVE  Work(ui') < Work(ui)
<1> DEFINE c == [CancelHoverClose(ui) EXCEPT !.pinned = FALSE]
           v == "closed"
<1>1. ui \in UIs /\ Orderly(ui) /\ ui.hover
  BY DEF Inv, HoverTimeout
<1>2. ui' = SchedulePanelView(c, v) /\ v \in Views
  BY DEF HoverTimeout, ClosePanel, Views
<1>3. c \in UIs /\ Only({"hover", "pinned"}, ui, c) /\ ~c.hover
  <2> DEFINE w == CancelHoverClose(ui)
  <2>1. w \in UIs
    BY <1>1, CancelHoverCloseFacts DEF Requests
  <2>2. Only({"hover"}, ui, w) /\ ~w.hover
    BY <1>1 DEF CancelHoverClose, UIs, Only, Fields
  <2> HIDE DEF w
  <2>3. [w EXCEPT !.pinned = FALSE] \in UIs
    BY <2>1 DEF UIs
  <2>4. Only({"pinned"}, w, [w EXCEPT !.pinned = FALSE])
    BY <2>1 DEF UIs, Only, Fields
  <2>5. c = [w EXCEPT !.pinned = FALSE]
    BY DEF w
  <2> HIDE DEF c
  <2>6. Only({"pinned"}, w, c)
    BY <2>4, <2>5
  <2>7. c.hover = w.hover /\ Only({"hover", "pinned"}, ui, c)
    BY <2>2, <2>6 DEF Only, Fields
  <2> QED
    BY <2>2, <2>3, <2>5, <2>7
<1> HIDE DEF c, v
<1>4. /\ c.pending = ui.pending /\ c.panelView = ui.panelView /\ c.widthAnim = ui.widthAnim
      /\ c.idles = ui.idles /\ c.slide = ui.slide /\ c.heightAnim = ui.heightAnim
      /\ c.backdropAnim = ui.backdropAnim
  BY <1>3 DEF Only, Fields
<1>5. TimerWork(c) + (3 * HeightWork + 7) <= TimerWork(ui)
  <2>1. PICK h \in Nat : h = HeightWork
    BY HeightWorkNat
  <2> QED
    BY <1>1, <1>3, <1>4, <2>1 DEF TimerWork, Flag
<1>6. Orderly(c) /\ Work(c) + (3 * HeightWork + 7) <= Work(ui)
  <2>1. 3 * HeightWork + 7 \in Nat
    BY HeightWorkNat
  <2> QED
    BY <1>1, <1>3, <1>4, <1>5, <2>1, TimersLess
<1>7. PICK r : r = ui' /\ r = SchedulePanelView(c, v)
  BY <1>2
<1>8. r \in UIs /\ Orderly(r)
  BY <1>2, <1>3, <1>6, <1>7, SchedulePanelViewFacts
<1>9. Costs(c, r, RequestWork(r)) /\ RequestWork(r) \in 0..(3 * HeightWork + 6)
  BY <1>2, <1>3, <1>6, <1>7, <1>8, ScheduleCosts, RestWork
<1>10. Work(ui) \in Nat /\ Work(c) \in Nat /\ Work(r) \in Nat
  BY <1>1, <1>3, <1>6, <1>8, WorkOrderly
<1> QED
  BY <1>6, <1>7, <1>9, <1>10, HeightWorkNat DEF Costs

LEMMA FrozenDoneDrains ==
    ASSUME Inv, FrozenDone
    PROVE  Work(ui') < Work(ui)
<1> DEFINE opening == ui.widthAnim = "open"
           v == IF opening THEN "list" ELSE "closed"
           x == [kind |-> IF opening THEN "openDone" ELSE "closeDone"]
           u == [ui EXCEPT !.widthAnim = "none", !.closingActive = FALSE, !.width = v]
<1>1. ui \in UIs /\ ui.widthAnim \in {"open", "close"} /\ Orderly(ui)
  BY DEF Inv, FrozenDone
<1>2. ui' = Posted(u, x)
  BY DEF FrozenDone
<1>3. v \in Views /\ x \in Idle /\ x.kind \in {"openDone", "closeDone"}
  BY DEF Idle, Views
<1> HIDE DEF v, x
<1>4. u \in UIs
  BY <1>1, <1>3, TypedMoved
<1>5. Only({"widthAnim", "closingActive", "width"}, ui, u) /\ u.widthAnim = "none"
  BY <1>1 DEF UIs, Only, Fields
<1> HIDE DEF u
<1>6. /\ u.pending = ui.pending /\ u.panelView = ui.panelView /\ u.hover = ui.hover
      /\ u.idles = ui.idles /\ u.slide = ui.slide /\ u.heightAnim = ui.heightAnim
      /\ u.backdropAnim = ui.backdropAnim
  BY <1>5 DEF Only, Fields
<1>7. TimerWork(u) + (2 * HeightWork + 3) <= TimerWork(ui)
  <2>1. PICK h \in Nat : h = HeightWork
    BY HeightWorkNat
  <2> QED
    BY <1>1, <1>5, <1>6, <2>1 DEF TimerWork, Flag
<1>8. Orderly(u) /\ Work(u) + (2 * HeightWork + 3) <= Work(ui)
  <2>1. 2 * HeightWork + 3 \in Nat
    BY HeightWorkNat
  <2> QED
    BY <1>1, <1>4, <1>6, <1>7, <2>1, TimersLess
<1>9. PICK r : r = ui' /\ r = Posted(u, x)
  BY <1>2
<1>10. r \in UIs /\ Orderly(r)
  BY <1>9, FrozenDoneKeeps DEF Inv
<1>11. /\ \A y : Holds(r.idles, y) <=> Holds(u.idles, y) \/ y = x
       /\ \A k : k # x.kind => Cardinality(At(r.idles, k)) = Cardinality(At(u.idles, k))
       /\ Cardinality(At(r.idles, x.kind)) = Cardinality(At(u.idles, x.kind)) + 1
  BY <1>3, <1>4, <1>9, PostedQueue
<1>12. OneEach(u) /\ OneEach(r)
  BY <1>8, <1>10 DEF Orderly
<1>13. HeightLeft(r) = HeightLeft(u)
  <2>1. SameHeights(u, r)
    BY <1>3, <1>11 DEF SameHeights
  <2> QED
    BY <1>4, <1>10, <1>12, <2>1, SameHeightLeft
<1>14. FrozenWork(r) = FrozenWork(u) + 2 * HeightWork + 2 \/ FrozenWork(r) = FrozenWork(u) + 1
  <2>1. PICK k : k = x.kind /\ k \in {"openDone", "closeDone"}
    BY <1>3
  <2>2. /\ Cardinality(At(r.idles, k)) = Cardinality(At(u.idles, k)) + 1
        /\ \A l : l # k => Cardinality(At(r.idles, l)) = Cardinality(At(u.idles, l))
    BY <1>11, <2>1
  <2> QED
    BY <1>4, <1>10, <2>1, <2>2, FrozenWorkMoves
<1>15. RequestWork(r) = RequestWork(u) /\ TimerWork(r) = TimerWork(u)
  <2>1. Only({"idles"}, u, r)
    BY <1>3, <1>4, <1>9, PostedFacts
  <2>2. /\ r.pending = u.pending /\ r.panelView = u.panelView /\ r.hover = u.hover
        /\ r.widthAnim = u.widthAnim /\ r.slide = u.slide /\ r.heightAnim = u.heightAnim
        /\ r.backdropAnim = u.backdropAnim
    BY <2>1 DEF Only, Fields
  <2> QED
    BY <2>2 DEF RequestWork, TimerWork
<1>16. Work(ui) \in Nat
  BY <1>1, WorkOrderly
<1>17. Work(r) + 1 <= Work(u) + (2 * HeightWork + 3) /\ Work(r) \in Nat /\ Work(u) \in Nat
  BY <1>4, <1>10, <1>12, <1>13, <1>14, <1>15, WorkNat, HeightWorkNat
<1> QED
  BY <1>8, <1>9, <1>16, <1>17, HeightWorkNat

LEMMA RunCloseDoneDrains ==
    ASSUME Inv, RunCloseDone
    PROVE  Work(ui') < Work(ui)
<1> DEFINE a == [Taken EXCEPT !.mode = "none"]
<1>1. ui \in UIs /\ Orderly(ui) /\ OneEach(ui) /\ Due("closeDone")
  BY DEF Inv, RunCloseDone, Orderly
<1>2. /\ Taken \in UIs /\ OneEach(Taken)
      /\ TimerWork(Taken) = TimerWork(ui) /\ RequestWork(Taken) = RequestWork(ui)
      /\ HeightLeft(Taken) = HeightLeft(ui) /\ FrozenWork(ui) = FrozenWork(Taken) + 1
  BY <1>1, TakenWork
<1>3. PICK r : r = ui' /\ r = [a EXCEPT !.frozen = FALSE]
  BY DEF RunCloseDone, HideFrozen
<1>4. r \in UIs /\ Orderly(r)
  BY <1>3, RunCloseDoneKeeps DEF Inv
<1>5. Only(Still, Taken, r)
  <2>1. Only({"mode"}, Taken, a) /\ DOMAIN a = DOMAIN Taken
    BY <1>2 DEF UIs, Only, Fields
  <2>2. DOMAIN a = Fields
    BY <1>2, <2>1 DEF UIs, Fields
  <2> HIDE DEF a
  <2>3. Only({"frozen"}, a, r)
    BY <1>3, <2>2 DEF Only, Fields
  <2> QED
    BY <2>1, <2>3 DEF Only, Still
<1>6. Work(r) = Work(Taken)
  BY <1>2, <1>4, <1>5, StillCosts
<1>7. Work(ui) = Work(Taken) + 1 /\ Work(Taken) \in Nat
  BY <1>1, <1>2, WorkNat
<1> QED
  BY <1>3, <1>6, <1>7

LEMMA RunFrozenOpenDrains ==
    ASSUME Inv, RunFrozenOpen
    PROVE  Work(ui') < Work(ui)
<1> DEFINE k == "open"
           t == "list"
           f == FrozenTransition(Taken, k, t)
<1>1. ui \in UIs /\ Orderly(ui) /\ OneEach(ui) /\ Due("frozenOpen")
  BY DEF Inv, RunFrozenOpen, Orderly
<1>2. /\ Taken \in UIs /\ OneEach(Taken)
      /\ TimerWork(Taken) = TimerWork(ui) /\ RequestWork(Taken) = RequestWork(ui)
      /\ HeightLeft(Taken) = HeightLeft(ui)
      /\ FrozenWork(ui) = FrozenWork(Taken) + 2 * HeightWork + 4
  BY <1>1, TakenWork
<1>3. Orderly(Taken)
  BY <1>1, TakenFacts
<1>4. k \in {"open", "close"} /\ t \in Views
  BY DEF Views
<1>5. PICK r : r = ui' /\ r = [f EXCEPT !.listMeasured = TRUE]
  BY DEF RunFrozenOpen
<1>6. r \in UIs /\ Orderly(r)
  BY <1>5, RunFrozenOpenKeeps DEF Inv
<1> HIDE DEF k, t
<1>7. f \in UIs /\ Orderly(f) /\ Costs(Taken, f, 2 * HeightWork + 3)
  BY <1>2, <1>3, <1>4, FrozenTransitionFacts, FrozenTransitionCosts
<1> HIDE DEF f
<1>8. Only(Still, f, r)
  <2>1. Only({"listMeasured"}, f, r)
    BY <1>5, <1>7 DEF UIs, Only, Fields
  <2> QED
    BY <2>1 DEF Only, Still
<1>9. Work(r) = Work(f)
  BY <1>6, <1>7, <1>8, StillCosts DEF Orderly
<1>10. Work(ui) = Work(Taken) + (2 * HeightWork + 4) /\ Work(Taken) \in Nat
  BY <1>1, <1>2, WorkNat, HeightWorkNat
<1>11. Work(f) \in Nat
  BY <1>7, WorkOrderly
<1> QED
  BY <1>5, <1>7, <1>9, <1>10, <1>11, HeightWorkNat DEF Costs

LEMMA RunOpenDoneDrains ==
    ASSUME Inv, RunOpenDone
    PROVE  Work(ui') < Work(ui)
<1> DEFINE x == [Taken EXCEPT !.mode = "none", !.closingActive = FALSE, !.wasExpanded = TRUE]
           o == HideFrozen(x)
           b == FALSE
           c == TRUE
<1>1. ui \in UIs /\ Orderly(ui) /\ OneEach(ui) /\ Due("openDone")
  BY DEF Inv, RunOpenDone, Orderly
<1>2. /\ Taken \in UIs /\ OneEach(Taken)
      /\ TimerWork(Taken) = TimerWork(ui) /\ RequestWork(Taken) = RequestWork(ui)
      /\ HeightLeft(Taken) = HeightLeft(ui)
      /\ FrozenWork(ui) = FrozenWork(Taken) + 2 * HeightWork + 2
  BY <1>1, TakenWork
<1>3. Orderly(Taken) /\ Only({"idles"}, ui, Taken)
  BY <1>1, TakenFacts
<1>4. Work(ui) = Work(Taken) + (2 * HeightWork + 2) /\ Work(Taken) \in Nat
  BY <1>1, <1>2, WorkNat, HeightWorkNat
<1>5. \/ ui' = Taken
      \/ /\ ui.panelView = "list"
         /\ \E m \in Measures :
               ui' = UpdateShellWidth(SyncDetailHeight(RebuildDetail(o, m), b), c)
  BY DEF RunOpenDone
<1>6. CASE ui' = Taken
  <2>1. PICK r : r = ui' /\ r = Taken
    BY <1>6
  <2> QED
    BY <1>4, <2>1, HeightWorkNat
<1>7. CASE /\ ui.panelView = "list"
           /\ \E m \in Measures :
                 ui' = UpdateShellWidth(SyncDetailHeight(RebuildDetail(o, m), b), c)
  <2>1. b \in BOOLEAN /\ c \in BOOLEAN /\ c
    OBVIOUS
  <2> HIDE DEF b, c
  <2>2. x \in UIs
    BY <1>2, TypedExpanded
  <2>3. Only({"mode", "closingActive", "wasExpanded"}, Taken, x)
    BY <1>2 DEF UIs, Only, Fields
  <2> HIDE DEF x
  <2>4. o \in UIs /\ Only({"frozen"}, x, o)
    BY <2>2, HideFrozenFacts
  <2> HIDE DEF o
  <2>5. /\ Only(Still, Taken, o) /\ o.idles = Taken.idles /\ o.pending = Taken.pending
        /\ o.panelView = "list" /\ o.payload = ui.payload
    BY <1>3, <1>7, <2>3, <2>4 DEF Only, Fields, Still
  <2>6. Work(o) = Work(Taken) /\ Orderly(o)
    BY <1>2, <1>3, <2>4, <2>5, StillCosts, SameIdles
  <2>7. o.payload # <<>> /\ o.panelView \in Pages
    BY <1>7, <2>5 DEF Inv, Pages
  <2>8. PICK m \in Measures :
          ui' = UpdateShellWidth(SyncDetailHeight(RebuildDetail(o, m), b), c)
    BY <1>7
  <2>9. PICK r, w : /\ r = ui' /\ w = SyncDetailHeight(RebuildDetail(o, m), b)
                    /\ r = UpdateShellWidth(w, c)
    BY <2>8
  <2>10. Costs(o, r, 2 * HeightWork + 1)
    BY <2>1, <2>4, <2>5, <2>6, <2>7, <2>9, RebuiltCosts
  <2>11. r \in UIs /\ Orderly(r)
    BY <2>9, RunOpenDoneKeeps DEF Inv
  <2>12. Work(r) \in Nat
    BY <2>11, WorkOrderly
  <2> QED
    BY <1>4, <2>6, <2>9, <2>10, <2>12, HeightWorkNat DEF Costs
<1> QED
  BY <1>5, <1>6, <1>7

LEMMA RunPanelDrains ==
    ASSUME Inv, RunPanel
    PROVE  Work(ui') < Work(ui)
<1> DEFINE v == ui.idles[1].view
           u == [Taken EXCEPT !.pending = None]
           b == ui.crossed \/ ListMoves(ui)
           w == [u EXCEPT !.panelView = v, !.crossed = b]
<1>1. ui \in UIs /\ Orderly(ui) /\ OneEach(ui) /\ Due("panel")
  BY DEF Inv, RunPanel, Orderly
<1>2. /\ Taken \in UIs /\ OneEach(Taken)
      /\ TimerWork(Taken) = TimerWork(ui)
      /\ HeightLeft(Taken) = HeightLeft(ui) /\ FrozenWork(Taken) = FrozenWork(ui)
  BY <1>1, TakenWork
<1>3. /\ Only({"idles"}, ui, Taken) /\ ui.idles[1] \in Idle /\ ui.idles[1].kind = "panel"
      /\ ~Waits(Taken, "panel")
  BY <1>1, TakenFacts
<1>4. v \in Views /\ ui.idles[1] = [kind |-> "panel", view |-> v]
  BY <1>3 DEF Idle
<1>5. ui.pending = v
  <2>1. Asks(ui, v)
    BY <1>1, <1>4, TakenQueue DEF Holds, Asks
  <2> QED
    BY <1>1, <1>4, <2>1 DEF Orderly, Requested
<1>6. b \in BOOLEAN
  BY <1>1 DEF UIs
<1>7. \/ ui.panelView = v /\ ui' = u
      \/ /\ ui.panelView # v
         /\ \E m \in Measures :
                ui' = RebuildUI([u EXCEPT !.panelView = v, !.crossed = @ \/ ListMoves(ui)], m)
  BY DEF RunPanel
<1>8. u \in UIs
  BY <1>2 DEF UIs
<1>9. Only({"pending"}, Taken, u) /\ u.pending = None
  BY <1>2 DEF UIs, Only, Fields
<1>10. u.crossed = ui.crossed
  BY <1>3, <1>9 DEF Only, Fields
<1>11. [u EXCEPT !.panelView = v, !.crossed = @ \/ ListMoves(ui)] = w
  BY <1>10
<1> HIDE DEF u, v, b
\* Without the request, only its own work is gone.
<1>12. ASSUME NEW r \in UIs, Only({"panelView", "crossed"}, u, r)
       PROVE  Orderly(r) /\ Work(ui) = Work(r) + RequestWork(ui)
  <2>1. /\ r.idles = Taken.idles /\ r.pending = None /\ r.hover = Taken.hover
        /\ r.widthAnim = Taken.widthAnim /\ r.slide = Taken.slide
        /\ r.heightAnim = Taken.heightAnim /\ r.backdropAnim = Taken.backdropAnim
    BY <1>9, <1>12 DEF Only, Fields
  <2>2. OneEach(r) /\ ~Waits(r, "panel")
    BY <1>2, <1>3, <2>1, SameIdles
  <2>3. Orderly(r)
    <3>1. \A y : ~Asks(r, y)
      BY <2>2 DEF Asks, Waits
    <3>2. \A y \in Views : y # None
      BY PanelAssumption DEF Views
    <3> QED
      BY <2>1, <2>2, <3>1, <3>2 DEF Orderly, Requested
  <2>4. FrozenWork(r) = FrozenWork(Taken) /\ HeightLeft(r) = HeightLeft(Taken)
    BY <1>2, <2>1, SameIdleWork
  <2>5. TimerWork(r) = TimerWork(Taken)
    BY <2>1 DEF TimerWork
  <2>6. RequestWork(r) = 0
    BY <2>1, RestWork
  <2> QED
    BY <1>1, <1>2, <2>2, <2>3, <2>4, <2>5, <2>6, WorkNat
<1>13. CASE ui.panelView = v /\ ui' = u
  <2>1. Only({"panelView", "crossed"}, u, u)
    BY DEF Only
  <2>2. Work(ui) = Work(u) + RequestWork(ui) /\ Work(u) \in Nat
    BY <1>8, <1>12, <2>1, WorkOrderly
  <2>3. RequestWork(ui) = 1
    BY <1>1, <1>5, <1>13, RestWork
  <2>4. PICK r : r = ui' /\ r = u
    BY <1>13
  <2> QED
    BY <2>2, <2>3, <2>4
<1>14. CASE ui.panelView # v /\ \E m \in Measures : ui' = RebuildUI(w, m)
  <2>1. w \in UIs
    BY <1>4, <1>6, <1>8 DEF UIs
  <2>2. Only({"panelView", "crossed"}, u, w)
    BY <1>8 DEF UIs, Only, Fields
  <2> HIDE DEF w
  <2>3. PICK m \in Measures : ui' = RebuildUI(w, m)
    BY <1>14
  <2>4. PICK r : r = ui' /\ r = RebuildUI(w, m)
    BY <2>3
  <2>5. r \in UIs /\ Orderly(r)
    BY <2>4, RunPanelKeeps DEF Inv
  <2>6. Orderly(w) /\ Work(ui) = Work(w) + RequestWork(ui)
    BY <1>12, <2>1, <2>2
  <2>7. Costs(w, r, 3 * HeightWork + 4)
    BY <2>1, <2>4, <2>6, RebuildUICosts
  <2>8. RequestWork(ui) = 3 * HeightWork + 6
    BY <1>1, <1>4, <1>5, <1>14, RestWork
  <2>9. Work(w) \in Nat /\ Work(r) \in Nat
    BY <2>1, <2>5, <2>6, WorkOrderly
  <2> QED
    BY <2>4, <2>6, <2>7, <2>8, <2>9, HeightWorkNat DEF Costs
<1> QED
  BY <1>7, <1>11, <1>13, <1>14

LEMMA RunHeightDrains ==
    ASSUME Inv, RunHeight
    PROVE  Work(ui') < Work(ui)
<1> DEFINE i == ui.idles[1]
           b == Taken.listMeasured \/ ui.panelView = "list"
           u == [Taken EXCEPT !.live = TRUE, !.listMeasured = b]
           own == [u EXCEPT !.clip = "own"]
           grown == [u EXCEPT !.clip = "fixed", !.heightAnim = TRUE]
<1>1. ui \in UIs /\ Orderly(ui) /\ OneEach(ui) /\ Due("height")
  BY DEF Inv, RunHeight, Orderly
<1>2. /\ Taken \in UIs /\ OneEach(Taken)
      /\ TimerWork(Taken) = TimerWork(ui) /\ RequestWork(Taken) = RequestWork(ui)
      /\ HeightLeft(Taken) = 0 /\ FrozenWork(Taken) = FrozenWork(ui)
  BY <1>1, TakenWork
<1>3. i \in Idle /\ i.kind = "height"
  BY <1>1, TakenFacts
<1>4. HeightLeft(ui) = HeightWork - i.attempt /\ i.attempt \in 0..DetailRetries
  BY <1>1, <1>3, TakenQueue, HeightLeftIs
<1>5. HeightLeft(ui) >= 2 /\ Work(ui) = Work(Taken) + HeightLeft(ui) /\ Work(Taken) \in Nat
  BY <1>1, <1>2, <1>4, WorkNat, HeightWorkNat DEF HeightWork
<1>6. \/ ui' = Taken
      \/ ui' = Posted(Taken, NextAttempt(i)) /\ MayRetry(i)
      \/ ui' = own \/ ui' = grown
  BY DEF RunHeight
<1>7. PICK r : r = ui' /\ r \in UIs /\ Orderly(r) /\ OneEach(r)
  BY RunHeightKeeps DEF Inv, Orderly
<1>8. b \in BOOLEAN
  BY <1>2 DEF UIs
<1> HIDE DEF b
<1>9. u \in UIs
  BY <1>2, <1>8, TypedReleased
<1>10. Only({"live", "listMeasured"}, Taken, u)
  BY <1>2 DEF UIs, Only, Fields
<1> HIDE DEF u
<1>11. CASE ui' = Taken
  BY <1>4, <1>5, <1>7, <1>11, HeightWorkNat
<1>12. CASE ui' = Posted(Taken, NextAttempt(i)) /\ MayRetry(i)
  <2> DEFINE n == NextAttempt(i)
  <2>1. n \in Idle /\ n.kind = "height" /\ n.attempt = i.attempt + 1
    BY <1>3, <1>12, PanelAssumption DEF NextAttempt, MayRetry, Idle
  <2>2. r = Posted(Taken, n)
    BY <1>7, <1>12
  <2> HIDE DEF n
  <2>3. Holds(r.idles, n) /\ SameFrozen(Taken, r)
    BY <1>2, <2>1, <2>2, PostedQueue DEF SameFrozen
  <2>4. HeightLeft(r) = HeightWork - (i.attempt + 1)
    BY <1>7, <2>1, <2>3, HeightLeftIs
  <2>5. FrozenWork(r) = FrozenWork(Taken)
    BY <1>2, <1>7, <2>3, SameFrozenWork
  <2>6. Only({"idles"}, Taken, r)
    BY <1>2, <2>1, <2>2, PostedFacts
  <2>7. RequestWork(r) = RequestWork(Taken) /\ TimerWork(r) = TimerWork(Taken)
    <3>1. /\ r.pending = Taken.pending /\ r.panelView = Taken.panelView
          /\ r.hover = Taken.hover /\ r.widthAnim = Taken.widthAnim
          /\ r.slide = Taken.slide /\ r.heightAnim = Taken.heightAnim
          /\ r.backdropAnim = Taken.backdropAnim
      BY <2>6 DEF Only, Fields
    <3> QED
      BY <3>1 DEF RequestWork, TimerWork
  <2> QED
    BY <1>1, <1>2, <1>4, <1>7, <2>4, <2>5, <2>7, WorkNat, HeightWorkNat
<1>13. CASE ui' = own
  <2>1. Only({"clip"}, u, r)
    BY <1>7, <1>9, <1>13 DEF UIs, Only, Fields
  <2>2. Only(Still, Taken, r)
    BY <1>10, <2>1 DEF Only, Still
  <2>3. Work(r) = Work(Taken)
    BY <1>2, <1>7, <2>2, StillCosts
  <2> QED
    BY <1>4, <1>5, <1>7, <2>3, HeightWorkNat
<1>14. CASE ui' = grown
  <2>1. Only({"clip", "heightAnim"}, u, r)
    BY <1>7, <1>9, <1>14 DEF UIs, Only, Fields
  <2>2. /\ r.idles = Taken.idles /\ r.pending = Taken.pending
        /\ r.panelView = Taken.panelView /\ r.hover = Taken.hover
        /\ r.widthAnim = Taken.widthAnim /\ r.slide = Taken.slide
        /\ r.backdropAnim = Taken.backdropAnim
    BY <1>10, <2>1 DEF Only, Fields
  <2>3. TimerWork(r) <= TimerWork(Taken) + 1
    <3>1. PICK h \in Nat : h = HeightWork
      BY HeightWorkNat
    <3> QED
      BY <2>2, <3>1 DEF TimerWork, Flag
  <2>4. Costs(Taken, r, 1)
    BY <1>2, <1>7, <2>2, <2>3, TimersCost
  <2>5. Work(r) \in Nat
    BY <1>7, WorkOrderly
  <2>6. Work(r) < Work(ui)
    BY <1>4, <1>5, <2>4, <2>5, HeightWorkNat DEF Costs
  <2> QED
    BY <1>7, <2>6
<1> QED
  BY <1>6, <1>11, <1>12, <1>13, <1>14

LEMMA CallbackDrains ==
    ASSUME Inv, Callback
    PROVE  Work(ui') < Work(ui) /\ Work(ui) \in Nat /\ Work(ui') \in Nat
<1>1. Work(ui') < Work(ui)
  BY RunPanelDrains, RunHeightDrains, RunFrozenOpenDrains, RunOpenDoneDrains,
     RunCloseDoneDrains, HoverTimeoutDrains, WidthDoneDrains, FrozenDoneDrains,
     SlideDoneDrains, HeightDoneDrains, BackdropDoneDrains
  DEF Callback
<1>2. Work(ui) \in Nat
  BY WorkOrderly DEF Inv
<1>3. Inv'
  <2>1. [Next]_vars
    BY DEF Next
  <2> QED
    BY <2>1, NextInv
<1>4. PICK r : r = ui' /\ r \in UIs /\ Orderly(r)
  BY <1>3 DEF Inv
<1>5. Work(r) \in Nat
  BY <1>4, WorkOrderly
<1> QED
  BY <1>1, <1>2, <1>4, <1>5

\* Every idle callback and the last tick of every timer (app_gtk.go) leaves less work
\* than it found, and work is a natural number: from any state the panel can be in,
\* at most Work(ui) of them run before it comes to rest or something is input.
THEOREM Drains == Spec => CallbacksDrain
<1>1. Inv /\ [Next]_vars => [Work(ui') >= Work(ui) => ~Callback]_vars
  <2> SUFFICES ASSUME Inv, Callback PROVE ~(Work(ui') >= Work(ui))
    OBVIOUS
  <2>1. Work(ui') < Work(ui) /\ Work(ui) \in Nat /\ Work(ui') \in Nat
    BY CallbackDrains
  <2> QED
    BY <2>1
<1> QED
  BY <1>1, InitInv, NextInv, PTL DEF Spec, CallbacksDrain
=============================================================================
