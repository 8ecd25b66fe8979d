------------------------- MODULE WaylandClientProofs -------------------------
(***************************************************************************)
(* The conversation of a focus request with a compositor, for any windows  *)
(* and titles and any number of changes.                                   *)
(***************************************************************************)
EXTENDS WaylandClient, FiniteSetTheorems, SequenceTheorems, TLAPS

OfWindow == {"toplevel", "details", "done", "closed"}
Events ==
    [kind : {"global"}, w : Interfaces, title : {Nil}]
    \cup [kind : {"callback", "finished"}, w : {Nil}, title : {Nil}]
    \cup [kind : {"toplevel", "done", "closed"}, w : Windows, title : {Nil}]
    \cup [kind : {"details"}, w : Windows, title : Titles]

TypeInv ==
    /\ phase \in Final \cup {"dial", "globals", "windows", "choose", "activated"}
    /\ globals \subseteq Interfaces /\ target \in Windows \cup {Nil}
    /\ toplevels \in [Windows -> Toplevel \cup {Nil}]
    /\ life \in [Windows -> {"unborn", "open", "closed"}] /\ title \in [Windows -> Titles]
    /\ offered \subseteq Interfaces /\ bound \in BOOLEAN
    /\ raised \subseteq Windows /\ changed \in 0..MaxWindowChanges
    /\ incoming \in Seq(Events)

-----------------------------------------------------------------------------
(* Roundtrips.                                                             *)

Carried == target \in raised \/ life[target] = "closed"

\* What is left of the requests of the roundtrip that the client waits for.
Asking ==
    /\ phase = "dial" => requests = <<>> /\ incoming = <<>> /\ ~bound
    /\ phase = "globals" => requests \in {<<"registry", "sync">>, <<"sync">>, <<>>} /\ ~bound
    /\ phase = "windows" => IF bound THEN requests \in {<<"seat", "sync">>, <<"sync">>, <<>>}
                         ELSE requests = <<"bind", "seat", "sync">>
    /\ phase = "choose" => requests = <<>> /\ bound
    /\ phase = "activated" =>
          /\ bound /\ target \in Windows /\ life[target] # "unborn"
          /\ \/ requests = <<target, "sync">>
             \/ requests \in {<<"sync">>, <<>>} /\ Carried
    /\ phase = "ok" => target \in Windows

IsCallback(i) == incoming[i].kind = "callback"
NoCallback == \A i \in 1..Len(incoming) : ~IsCallback(i)

\* One answer at most is on its way, and only when all requests have been served.
Answer ==
    /\ \A i, j \in 1..Len(incoming) : IsCallback(i) /\ IsCallback(j) => i = j
    /\ requests # <<>> \/ phase = "choose" => NoCallback

-----------------------------------------------------------------------------
(* Windows.                                                                *)

Handled(w) == toplevels[w] # Nil
Says(es, i, w, kind) == es[i].kind = kind /\ es[i].w = w
Tells(i, w, kind) == Says(incoming, i, w, kind)
Coming(w) == \E i \in 1..Len(incoming) : Tells(i, w, "toplevel")

\* Nothing is told of a window before it opens, or before the manager is bound.
Untold ==
    \A w \in Windows : life[w] = "unborn" \/ ~bound =>
        /\ ~Handled(w)
        /\ \A i \in 1..Len(incoming), kind \in OfWindow : ~Tells(i, w, kind)

\* The client is given each handle once, before anything else about it.
OneHandle ==
    \A w \in Windows, i, j \in 1..Len(incoming) :
        Tells(i, w, "toplevel") => ~Handled(w) /\ (Tells(j, w, "toplevel") => i = j)
InOrder ==
    \A w \in Windows, j \in 1..Len(incoming), kind \in {"details", "done", "closed"} :
        Tells(j, w, kind) =>
            Handled(w) \/ \E i \in 1..Len(incoming) : i < j /\ Tells(i, w, "toplevel")

Living ==
    \A w \in Windows : IsOpen(w) =>
        /\ Handled(w) => ~toplevels[w].closed
        /\ \A i \in 1..Len(incoming) : ~Tells(i, w, "closed")
Reported ==
    bound /\ Talking => \A w \in Windows : IsOpen(w) => Handled(w) \/ Coming(w)
ListedOnce ==
    /\ listed \subseteq Windows /\ (~bound => listed = {})
    /\ \A w \in listed : life[w] # "unborn"

\* What the client will know of a window when the answer comes.
InTime(i) == \A c \in 1..Len(incoming) : IsCallback(c) => i < c
Named(w) ==
    \/ Handled(w) /\ toplevels[w].title \in Titles
    \/ \E i \in 1..Len(incoming) : Tells(i, w, "details") /\ InTime(i)
Initialized(w) ==
    \/ Handled(w) /\ toplevels[w].initialized
    \/ \E i \in 1..Len(incoming) : Tells(i, w, "done") /\ InTime(i)
Complete ==
    phase = "windows" => \A w \in listed : IsOpen(w) => Named(w) /\ Initialized(w)

Inv ==
    /\ TypeInv /\ Asking /\ OkMeansRaised /\ Answer
    /\ Untold /\ OneHandle /\ InOrder /\ Living /\ Reported
    /\ ListedOnce /\ Complete /\ ChoosesAmongAll

-----------------------------------------------------------------------------
(* The stream of events.                                                   *)

\* A queue of which the first event is taken.
LEMMA Taken ==
    ASSUME incoming \in Seq(Events), incoming # <<>>, incoming' = Tail(incoming)
    PROVE  /\ incoming' \in Seq(Events) /\ Len(incoming) \in Nat \ {0}
           /\ Head(incoming) = incoming[1] /\ incoming[1] \in Events
           /\ Len(incoming') = Len(incoming) - 1
           /\ \A i \in 1..Len(incoming') : incoming'[i] = incoming[i + 1]
<1>1. Len(incoming) \in Nat \ {0} /\ Head(incoming) = incoming[1]
  BY DEF Events
<1>2. incoming' \in Seq(Events) /\ Len(incoming') = Len(incoming) - 1
  BY <1>1
<1>3. \A i \in 1..Len(incoming') : incoming'[i] = incoming[i + 1]
  BY <1>1, <1>2
<1>4. incoming[1] \in Events
  BY <1>1, ElementOfSeq
<1> QED
  BY <1>1, <1>2, <1>3, <1>4

\* A queue to which events are added.
LEMMA Added ==
    ASSUME incoming \in Seq(Events), NEW es \in Seq(Events), incoming' = incoming \o es
    PROVE  /\ incoming' \in Seq(Events) /\ Len(incoming) \in Nat /\ Len(es) \in Nat
           /\ Len(incoming') = Len(incoming) + Len(es)
           /\ \A i \in 1..Len(incoming) : incoming'[i] = incoming[i]
           /\ \A i \in 1..Len(es) : incoming'[Len(incoming) + i] = es[i]
           /\ \A i \in (Len(incoming) + 1)..Len(incoming') :
                 i - Len(incoming) \in 1..Len(es) /\ incoming'[i] = es[i - Len(incoming)]
<1>1. /\ incoming' \in Seq(Events) /\ Len(incoming) \in Nat /\ Len(es) \in Nat
      /\ Len(incoming') = Len(incoming) + Len(es)
  BY ConcatProperties
<1>2. \A i \in 1..Len(incoming') :
         incoming'[i] = IF i <= Len(incoming) THEN incoming[i] ELSE es[i - Len(incoming)]
  BY ConcatProperties
<1>3. \A i \in 1..Len(incoming) : i \in 1..Len(incoming') /\ i <= Len(incoming)
  BY <1>1
<1>4. \A i \in 1..Len(es) :
         /\ Len(incoming) + i \in 1..Len(incoming') /\ ~(Len(incoming) + i <= Len(incoming))
         /\ (Len(incoming) + i) - Len(incoming) = i
  BY <1>1
<1>5. \A i \in (Len(incoming) + 1)..Len(incoming') :
         /\ i \in 1..Len(incoming') /\ ~(i <= Len(incoming))
         /\ i - Len(incoming) \in 1..Len(es)
  BY <1>1
<1> QED
  BY <1>1, <1>2, <1>3, <1>4, <1>5

\* What the compositor may report while windows come and go.
Tidings(es) ==
    /\ \A v \in Windows :
          \/ life'[v] = life[v]
          \/ life[v] = "unborn" /\ life'[v] = "open"
          \/ life[v] = "open" /\ life'[v] = "closed"
    /\ \A v \in Windows, i \in 1..Len(es), kind \in OfWindow :
          Says(es, i, v, kind) => bound /\ life'[v] # "unborn"
    /\ \A v \in Windows, i, j \in 1..Len(es) :
          Says(es, i, v, "toplevel") =>
              life[v] = "unborn" /\ (Says(es, j, v, "toplevel") => i = j)
    /\ \A v \in Windows, j \in 1..Len(es), kind \in {"details", "done", "closed"} :
          Says(es, j, v, kind) =>
              /\ Talking
              /\ \/ life[v] = "open"
                 \/ \E i \in 1..Len(es) : i < j /\ Says(es, i, v, "toplevel")
    /\ \A v \in Windows, i \in 1..Len(es) : Says(es, i, v, "closed") => life'[v] = "closed"
    /\ bound /\ Talking =>
          \A v \in Windows : life[v] = "unborn" /\ life'[v] # "unborn" =>
              \E i \in 1..Len(es) : Says(es, i, v, "toplevel")

\* Such events keep what is known of the windows in order.
LEMMA TidingsKeep ==
    ASSUME Inv, NEW es \in Seq(Events), incoming' = incoming \o es, Tidings(es),
           UNCHANGED <<phase, toplevels, bound, listed>>
    PROVE  Untold' /\ OneHandle' /\ InOrder' /\ Living' /\ Reported' /\ ListedOnce'
<1>1. /\ Len(incoming) \in Nat /\ Len(es) \in Nat
      /\ Len(incoming') = Len(incoming) + Len(es)
      /\ \A i \in 1..Len(incoming) : incoming'[i] = incoming[i]
      /\ \A i \in 1..Len(es) : incoming'[Len(incoming) + i] = es[i]
      /\ \A i \in (Len(incoming) + 1)..Len(incoming') :
            i - Len(incoming) \in 1..Len(es) /\ incoming'[i] = es[i - Len(incoming)]
  BY Added DEF Inv, TypeInv
<1>2. ASSUME NEW i \in 1..Len(incoming'), NEW v \in Windows, NEW kind \in OfWindow, Tells(i, v, kind)'
      PROVE  \/ i \in 1..Len(incoming) /\ Tells(i, v, kind)
             \/ /\ i > Len(incoming) /\ i - Len(incoming) \in 1..Len(es)
                /\ Says(es, i - Len(incoming), v, kind)
  <2>1. CASE i <= Len(incoming)
    BY <1>1, <1>2, <2>1 DEF Tells, Says
  <2>2. CASE i > Len(incoming)
    <3>1. i \in (Len(incoming) + 1)..Len(incoming')
      BY <1>1, <2>2
    <3> QED
      BY <1>1, <1>2, <2>2, <3>1 DEF Tells, Says
  <2> QED
    BY <1>1, <2>1, <2>2
<1>3. \A i \in 1..Len(incoming), v \in Windows, kind \in OfWindow :
         Tells(i, v, kind) => i \in 1..Len(incoming') /\ Tells(i, v, kind)'
  BY <1>1 DEF Tells, Says
<1>4. \A i \in 1..Len(es), v \in Windows, kind \in OfWindow :
         Says(es, i, v, kind) =>
             \E k \in 1..Len(incoming') : k = Len(incoming) + i /\ Tells(k, v, kind)'
  <2>1. \A i \in 1..Len(es) : Len(incoming) + i \in 1..Len(incoming')
    BY <1>1
  <2> QED
    BY <1>1, <2>1 DEF Tells, Says
<1>5. \A v \in Windows : (Handled(v)' <=> Handled(v)) /\ (Coming(v) => Coming(v)')
  BY <1>3 DEF Handled, Coming, OfWindow
<1>6. Talking' <=> Talking
  BY DEF Talking
<1>7. Untold'
  <2> SUFFICES ASSUME NEW v \in Windows, life'[v] = "unborn" \/ ~bound
               PROVE  ~Handled(v)' /\ \A i \in 1..Len(incoming'), kind \in OfWindow : ~Tells(i, v, kind)'
    BY DEF Untold
  <2>1. life[v] = "unborn" \/ ~bound
    BY DEF Tidings
  <2>2. ~Handled(v) /\ \A i \in 1..Len(incoming), kind \in OfWindow : ~Tells(i, v, kind)
    BY <2>1 DEF Inv, Untold
  <2>3. \A i \in 1..Len(es), kind \in OfWindow : ~Says(es, i, v, kind)
    BY DEF Tidings
  <2> QED
    BY <1>2, <1>5, <2>2, <2>3
<1>8. ASSUME NEW v \in Windows, life[v] = "unborn"
      PROVE  ~Handled(v) /\ ~Coming(v)
  BY <1>8 DEF Inv, Untold, Coming, OfWindow
<1>9. OneHandle'
  <2> SUFFICES ASSUME NEW v \in Windows, NEW i \in 1..Len(incoming'), NEW j \in 1..Len(incoming'),
                      Tells(i, v, "toplevel")'
               PROVE  ~Handled(v)' /\ (Tells(j, v, "toplevel")' => i = j)
    BY DEF OneHandle
  <2>1. CASE i \in 1..Len(incoming) /\ Tells(i, v, "toplevel")
    <3>1. ~Handled(v) /\ Coming(v)
      BY <2>1 DEF Inv, OneHandle, Coming
    <3>2. life[v] # "unborn"
      BY <1>8, <3>1
    <3>3. \A k \in 1..Len(es) : ~Says(es, k, v, "toplevel")
      BY <3>2 DEF Tidings
    <3>4. Tells(j, v, "toplevel")' => j \in 1..Len(incoming) /\ Tells(j, v, "toplevel")
      BY <1>2, <3>3 DEF OfWindow
    <3> QED
      BY <1>5, <2>1, <3>1, <3>4 DEF Inv, OneHandle
  <2>2. CASE i > Len(incoming) /\ i - Len(incoming) \in 1..Len(es)
              /\ Says(es, i - Len(incoming), v, "toplevel")
    <3>1. life[v] = "unborn"
      BY <2>2 DEF Tidings
    <3>2. ~Handled(v) /\ ~Coming(v)
      BY <1>8, <3>1
    <3>3. Tells(j, v, "toplevel")' =>
             /\ j > Len(incoming) /\ j - Len(incoming) \in 1..Len(es)
             /\ Says(es, j - Len(incoming), v, "toplevel")
      BY <1>2, <3>2 DEF OfWindow, Coming
    <3>4. Tells(j, v, "toplevel")' => i - Len(incoming) = j - Len(incoming)
      BY <2>2, <3>3 DEF Tidings
    <3> QED
      BY <1>1, <1>5, <3>2, <3>4
  <2> QED
    BY <1>2, <2>1, <2>2 DEF OfWindow
<1>10. \A v \in Windows : life'[v] = "open" => \/ life[v] = "open"
                                              \/ life[v] = "unborn"
  BY DEF Tidings
<1>11. InOrder'
  <2> SUFFICES ASSUME NEW v \in Windows, NEW j \in 1..Len(incoming'),
                      NEW kind \in {"details", "done", "closed"}, Tells(j, v, kind)'
               PROVE  Handled(v)' \/ \E i \in 1..Len(incoming') : i < j /\ Tells(i, v, "toplevel")'
    BY DEF InOrder
  <2>1. CASE j \in 1..Len(incoming) /\ Tells(j, v, kind)
    <3>1. Handled(v) \/ \E i \in 1..Len(incoming) : i < j /\ Tells(i, v, "toplevel")
      BY <2>1 DEF Inv, InOrder
    <3> QED
      BY <1>3, <1>5, <3>1 DEF OfWindow
  <2>2. CASE j > Len(incoming) /\ j - Len(incoming) \in 1..Len(es)
              /\ Says(es, j - Len(incoming), v, kind)
    <3>1. /\ Talking /\ bound
          /\ \/ life[v] = "open"
             \/ \E i \in 1..Len(es) : i < j - Len(incoming) /\ Says(es, i, v, "toplevel")
      BY <2>2 DEF Tidings, OfWindow
    <3>2. CASE life[v] = "open"
      <4>1. Handled(v) \/ Coming(v)
        BY <3>1, <3>2 DEF Inv, Reported, IsOpen
      <4>2. CASE Coming(v)
        <5>1. PICK i \in 1..Len(incoming) : Tells(i, v, "toplevel")
          BY <4>2 DEF Coming
        <5>2. i < j
          BY <1>1, <2>2
        <5> QED
          BY <1>3, <5>1, <5>2 DEF OfWindow
      <4> QED
        BY <1>5, <4>1, <4>2
    <3>3. CASE \E i \in 1..Len(es) : i < j - Len(incoming) /\ Says(es, i, v, "toplevel")
      <4>1. PICK i \in 1..Len(es) : i < j - Len(incoming) /\ Says(es, i, v, "toplevel")
        BY <3>3
      <4>2. Len(incoming) + i < j
        BY <1>1, <4>1
      <4> QED
        BY <1>4, <4>1, <4>2 DEF OfWindow
    <3> QED
      BY <3>1, <3>2, <3>3
  <2> QED
    BY <1>2, <2>1, <2>2 DEF OfWindow
<1>12. Living'
  <2> SUFFICES ASSUME NEW v \in Windows, life'[v] = "open"
               PROVE  /\ Handled(v)' => ~toplevels'[v].closed
                      /\ \A i \in 1..Len(incoming') : ~Tells(i, v, "closed")'
    BY DEF Living, IsOpen
  <2>1. \A i \in 1..Len(es) : ~Says(es, i, v, "closed")
    BY DEF Tidings
  <2>2. CASE life[v] = "open"
    <3>1. (Handled(v) => ~toplevels[v].closed) /\ \A i \in 1..Len(incoming) : ~Tells(i, v, "closed")
      BY <2>2 DEF Inv, Living, IsOpen
    <3> QED
      BY <1>2, <1>5, <2>1, <3>1 DEF OfWindow
  <2>3. CASE life[v] = "unborn"
    <3>1. ~Handled(v) /\ \A i \in 1..Len(incoming) : ~Tells(i, v, "closed")
      BY <2>3 DEF Inv, Untold, OfWindow
    <3> QED
      BY <1>2, <1>5, <2>1, <3>1 DEF OfWindow
  <2> QED
    BY <1>10, <2>2, <2>3
<1>13. Reported'
  <2> SUFFICES ASSUME bound, Talking, NEW v \in Windows, life'[v] = "open"
               PROVE  Handled(v)' \/ Coming(v)'
    BY <1>6 DEF Reported, IsOpen
  <2>1. CASE life[v] = "open"
    BY <1>5, <2>1 DEF Inv, Reported, IsOpen
  <2>2. CASE life[v] = "unborn"
    <3>1. PICK i \in 1..Len(es) : Says(es, i, v, "toplevel")
      BY <2>2 DEF Tidings
    <3> QED
      BY <1>4, <3>1 DEF Coming, OfWindow
  <2> QED
    BY <1>10, <2>1, <2>2
<1>14. ListedOnce'
  BY DEF Inv, ListedOnce, Tidings
<1> QED
  BY <1>7, <1>9, <1>11, <1>12, <1>13, <1>14

\* Events without an answer do not change what is expected of the answer.
LEMMA QuietKeep ==
    ASSUME Inv, NEW es \in Seq(Events), incoming' = incoming \o es,
           \A i \in 1..Len(es) : es[i].kind # "callback",
           \A v \in Windows : life[v] \in {"unborn", "open"} \/ life'[v] # "open",
           UNCHANGED <<phase, toplevels, listed>>, requests' # <<>> => requests # <<>>
    PROVE  Answer' /\ Complete' /\ ChoosesAmongAll'
<1>1. /\ Len(incoming) \in Nat /\ Len(es) \in Nat
      /\ Len(incoming') = Len(incoming) + Len(es)
      /\ \A i \in 1..Len(incoming) : incoming'[i] = incoming[i]
      /\ \A i \in (Len(incoming) + 1)..Len(incoming') :
            i - Len(incoming) \in 1..Len(es) /\ incoming'[i] = es[i - Len(incoming)]
  BY Added DEF Inv, TypeInv
<1>2. \A i \in 1..Len(incoming') : IsCallback(i)' => i \in 1..Len(incoming) /\ IsCallback(i)
  <2> SUFFICES ASSUME NEW i \in 1..Len(incoming'), IsCallback(i)'
               PROVE  i \in 1..Len(incoming) /\ IsCallback(i)
    OBVIOUS
  <2>1. CASE i <= Len(incoming)
    BY <1>1, <2>1 DEF IsCallback
  <2>2. CASE i > Len(incoming)
    <3>1. i \in (Len(incoming) + 1)..Len(incoming')
      BY <1>1, <2>2
    <3> QED
      BY <1>1, <3>1 DEF IsCallback
  <2> QED
    BY <1>1, <2>1, <2>2
<1>3. Answer'
  BY <1>2 DEF Inv, Answer, NoCallback
<1>4. \A i \in 1..Len(incoming) :
         /\ i \in 1..Len(incoming')
         /\ InTime(i) => InTime(i)'
         /\ \A v, kind : Tells(i, v, kind) => Tells(i, v, kind)'
  <2>1. \A i \in 1..Len(incoming) : i \in 1..Len(incoming')
    BY <1>1
  <2> QED
    BY <1>1, <1>2, <2>1 DEF InTime, Tells, Says
<1>5. \A v \in Windows : (Named(v) => Named(v)') /\ (Initialized(v) => Initialized(v)')
  BY <1>4 DEF Named, Initialized, Handled
<1>6. \A v \in listed : v \in Windows /\ (IsOpen(v)' => IsOpen(v))
  BY DEF Inv, ListedOnce, IsOpen
<1>7. Complete'
  BY <1>5, <1>6 DEF Inv, Complete
<1>8. ChoosesAmongAll'
  BY <1>6 DEF Inv, ChoosesAmongAll
<1> QED
  BY <1>3, <1>7, <1>8

-----------------------------------------------------------------------------
(* Windows come and go.                                                    *)

\* Windows come and go, and the compositor reports it, or nobody listens.
LEMMA ChangeKeeps ==
    ASSUME Inv, NEW es \in Seq(Events), incoming' = incoming \o es, Tidings(es),
           \A i \in 1..Len(es) : es[i].kind # "callback", phase = "dial" => es = <<>>,
           UNCHANGED <<client, requests, offered, bound, raised, listed>>,
           life' \in [Windows -> {"unborn", "open", "closed"}], title' \in [Windows -> Titles],
           changed' \in 0..MaxWindowChanges
    PROVE  Inv'
<1>1. UNCHANGED <<phase, globals, toplevels, target, requests, offered, bound, raised, listed>>
  BY DEF client
<1>2. TypeInv'
  <2>1. incoming' \in Seq(Events)
    BY Added DEF Inv, TypeInv
  <2> QED
    BY <1>1, <2>1 DEF Inv, TypeInv
<1>3. /\ Untold' /\ OneHandle' /\ InOrder' /\ Living' /\ Reported' /\ ListedOnce'
  BY <1>1, TidingsKeep
<1>4. \A v \in Windows : /\ life[v] \in {"unborn", "open"} \/ life'[v] # "open"
                         /\ life[v] # "unborn" => life'[v] # "unborn"
                         /\ life[v] = "closed" => life'[v] = "closed"
  BY DEF Tidings, Inv, TypeInv
<1>5. Answer' /\ Complete' /\ ChoosesAmongAll'
  BY <1>1, <1>4, QuietKeep
<1>6. target \in Windows /\ Carried => Carried'
  BY <1>1, <1>4 DEF Carried
<1>7. OkMeansRaised'
  BY <1>1, <1>6 DEF Inv, Asking, OkMeansRaised, Carried
<1>8. phase = "dial" => incoming' = <<>>
  BY DEF Inv, Asking
<1>9. Asking'
  BY <1>1, <1>4, <1>6, <1>8 DEF Inv, Asking
<1> QED
  BY <1>2, <1>3, <1>5, <1>7, <1>9 DEF Inv

\* The messages about windows are events of the stream.
LEMMA EventTypes ==
    ASSUME NEW w \in Windows, NEW t \in Titles
    PROVE  /\ Event("toplevel", w, Nil) \in Events /\ Event("done", w, Nil) \in Events
           /\ Event("closed", w, Nil) \in Events /\ Event("details", w, t) \in Events
BY DEF Event, Events

\* What an event is about.
LEMMA EventFields ==
    ASSUME NEW kind, NEW w, NEW t
    PROVE  Event(kind, w, t).kind = kind /\ Event(kind, w, t).w = w
BY DEF Event

\* A window opens: a handle and its details.
LEMMA OpensKeeps ==
    ASSUME WaylandAssumption, Inv, NEW w \in Windows, NEW t \in Titles, Opens(w, t)
    PROVE  Inv'
<1> DEFINE a == Event("toplevel", w, Nil)
           b == Event("details", w, t)
           es == IF bound /\ Talking THEN <<a, b>> ELSE <<>>
<1>1. /\ a \in Events /\ a.kind = "toplevel" /\ a.w = w
      /\ b \in Events /\ b.kind = "details" /\ b.w = w
  BY EventTypes DEF Event
<1>2. /\ life[w] = "unborn" /\ changed < MaxWindowChanges /\ changed' = changed + 1
      /\ life' = [life EXCEPT ![w] = "open"] /\ title' = [title EXCEPT ![w] = t]
      /\ incoming' = incoming \o es
      /\ UNCHANGED <<client, requests, offered, bound, raised, listed>>
  BY DEF Opens, Change, Emits
<1> HIDE DEF a, b
<1>3. es \in Seq(Events) /\ (~(bound /\ Talking) => es = <<>>)
      /\ (bound /\ Talking => Len(es) = 2 /\ es[1] = a /\ es[2] = b)
  BY <1>1
<1> HIDE DEF es
<1>4. \A i \in 1..Len(es) : bound /\ Talking /\ ((i = 1 /\ es[i] = a) \/ (i = 2 /\ es[i] = b))
  <2> TAKE i \in 1..Len(es)
  <2>1. bound /\ Talking
    BY <1>3
  <2>2. i \in 1..2
    BY <1>3, <2>1
  <2> QED
    BY <1>3, <2>1, <2>2
<1>5. bound /\ Talking => 1 \in 1..Len(es) /\ es[1] = a
  <2>1. Len(es) = 2 => 1 \in 1..Len(es)
    OBVIOUS
  <2> QED
    BY <1>3, <2>1
<1>6. life \in [Windows -> {"unborn", "open", "closed"}] /\ title \in [Windows -> Titles]
  BY DEF Inv, TypeInv
<1>7. life'[w] = "open" /\ \A v \in Windows \ {w} : life'[v] = life[v]
  BY <1>2, <1>6
<1>8. Tidings(es)
  <2>1. \A v \in Windows : life'[v] = life[v] \/ (life[v] = "unborn" /\ life'[v] = "open")
    BY <1>2, <1>7
  <2>2. \A v \in Windows, i \in 1..Len(es), kind \in OfWindow : Says(es, i, v, kind) =>
           /\ v = w /\ bound /\ Talking
           /\ (i = 1 /\ kind = "toplevel") \/ (i = 2 /\ kind = "details")
    BY <1>1, <1>4 DEF Says
  <2>3. bound /\ Talking => 1 \in 1..Len(es) /\ Says(es, 1, w, "toplevel")
    BY <1>1, <1>5 DEF Says
  <2>4. \A v \in Windows, j \in 1..Len(es), kind \in {"details", "done", "closed"} :
           Says(es, j, v, kind) =>
               Talking /\ \E i \in 1..Len(es) : i < j /\ Says(es, i, v, "toplevel")
    <3> SUFFICES ASSUME NEW v \in Windows, NEW j \in 1..Len(es),
                        NEW kind \in {"details", "done", "closed"}, Says(es, j, v, kind)
                 PROVE  Talking /\ \E i \in 1..Len(es) : i < j /\ Says(es, i, v, "toplevel")
      OBVIOUS
    <3>1. v = w /\ bound /\ Talking /\ j = 2
      BY <2>2 DEF OfWindow
    <3> QED
      BY <2>3, <3>1
  <2>5. bound /\ Talking =>
          \A v \in Windows : life[v] = "unborn" /\ life'[v] # "unborn" =>
              \E i \in 1..Len(es) : Says(es, i, v, "toplevel")
    BY <1>7, <2>3
  <2> QED
    BY <1>2, <1>7, <2>1, <2>2, <2>4, <2>5 DEF Tidings, OfWindow
<1>9. \A i \in 1..Len(es) : es[i].kind # "callback"
  BY <1>1, <1>4
<1>10. phase = "dial" => es = <<>>
  BY <1>3 DEF Talking
<1>11. changed' \in 0..MaxWindowChanges
  BY <1>2 DEF Inv, TypeInv, WaylandAssumption
<1>12. life' \in [Windows -> {"unborn", "open", "closed"}] /\ title' \in [Windows -> Titles]
  BY <1>2, <1>6
<1> QED
  BY <1>2, <1>3, <1>8, <1>9, <1>10, <1>11, <1>12, ChangeKeeps

\* One event, or none, about a window that is open.
LEMMA OneTiding ==
    ASSUME WaylandAssumption, Inv, NEW w \in Windows, NEW e \in Events,
           NEW es, es = IF bound /\ Talking THEN <<e>> ELSE <<>>, incoming' = incoming \o es,
           e.w = w, e.kind \in {"details", "done", "closed"},
           life[w] = "open", NEW l \in {"open", "closed"}, life' = [life EXCEPT ![w] = l],
           e.kind = "closed" => l = "closed",
           changed < MaxWindowChanges, changed' = changed + 1, title' \in [Windows -> Titles],
           UNCHANGED <<client, requests, offered, bound, raised, listed>>
    PROVE  Inv'
<1>1. es \in Seq(Events) /\ (~(bound /\ Talking) => es = <<>>)
      /\ (bound /\ Talking => Len(es) = 1 /\ es[1] = e)
  OBVIOUS
<1>2. \A i \in 1..Len(es) : bound /\ Talking /\ i = 1 /\ es[i] = e
  BY <1>1
<1>3. life \in [Windows -> {"unborn", "open", "closed"}]
  BY DEF Inv, TypeInv
<1>4. life'[w] = l /\ \A v \in Windows \ {w} : life'[v] = life[v]
  BY <1>3
<1>5. Tidings(es)
  <2>1. \A v \in Windows : life'[v] = life[v] \/ (life[v] = "open" /\ life'[v] = "closed")
    BY <1>4
  <2>2. \A v \in Windows, i \in 1..Len(es), kind \in OfWindow : Says(es, i, v, kind) =>
           v = w /\ bound /\ Talking /\ kind = e.kind
    BY <1>2 DEF Says
  <2> QED
    BY <1>4, <2>1, <2>2 DEF Tidings, OfWindow
<1>6. \A i \in 1..Len(es) : es[i].kind # "callback"
  BY <1>2
<1>7. phase = "dial" => es = <<>>
  BY <1>1 DEF Talking
<1>8. changed' \in 0..MaxWindowChanges
  BY DEF Inv, TypeInv, WaylandAssumption
<1>9. life' \in [Windows -> {"unborn", "open", "closed"}]
  BY <1>3
<1> QED
  BY <1>1, <1>5, <1>6, <1>7, <1>8, <1>9, ChangeKeeps

\* A window that is open has another title.
LEMMA RetitlesKeeps ==
    ASSUME WaylandAssumption, Inv, NEW w \in Windows, NEW t \in Titles, Retitles(w, t)
    PROVE  Inv'
<1> DEFINE e == Event("details", w, t)
           es == IF bound /\ Talking THEN <<e>> ELSE <<>>
<1>1. e \in Events /\ e.w = w /\ e.kind = "details"
  BY EventTypes DEF Event
<1>2. /\ life[w] = "open" /\ changed < MaxWindowChanges /\ changed' = changed + 1
      /\ life' = [life EXCEPT ![w] = "open"] /\ title' = [title EXCEPT ![w] = t]
      /\ incoming' = incoming \o es
      /\ UNCHANGED <<client, requests, offered, bound, raised, listed>>
  BY DEF Retitles, IsOpen, Change, Emits
<1>3. title' \in [Windows -> Titles]
  BY <1>2 DEF Inv, TypeInv
<1> HIDE DEF e
<1> QED
  BY <1>1, <1>2, <1>3, OneTiding

\* A window closes.
LEMMA ClosesKeeps ==
    ASSUME WaylandAssumption, Inv, NEW w \in Windows, Closes(w)
    PROVE  Inv'
<1> DEFINE e == Event("closed", w, Nil)
           es == IF bound /\ Talking THEN <<e>> ELSE <<>>
<1>1. e \in Events /\ e.w = w /\ e.kind = "closed"
  BY DEF Event, Events
<1>2. /\ life[w] = "open" /\ changed < MaxWindowChanges /\ changed' = changed + 1
      /\ life' = [life EXCEPT ![w] = "closed"] /\ title' = [title EXCEPT ![w] = title[w]]
      /\ incoming' = incoming \o es
      /\ UNCHANGED <<client, requests, offered, bound, raised, listed>>
  BY DEF Closes, IsOpen, Change, Emits
<1>3. title' \in [Windows -> Titles]
  BY <1>2 DEF Inv, TypeInv
<1> HIDE DEF e
<1> QED
  BY <1>1, <1>2, <1>3, OneTiding

\* What was told of a window is complete.
LEMMA IdleKeeps ==
    ASSUME WaylandAssumption, Inv, NEW w \in Windows, Idle(w)
    PROVE  Inv'
<1> DEFINE e == Event("done", w, Nil)
           es == IF bound /\ Talking THEN <<e>> ELSE <<>>
<1>1. e \in Events /\ e.w = w /\ e.kind = "done"
  BY DEF Event, Events
<1>2. /\ life[w] = "open" /\ changed < MaxWindowChanges /\ changed' = changed + 1
      /\ life' = life /\ title' = title
      /\ incoming' = incoming \o es
      /\ UNCHANGED <<client, requests, offered, bound, raised, listed>>
  BY DEF Idle, IsOpen, Emits
<1>3. title' \in [Windows -> Titles] /\ life' = [life EXCEPT ![w] = "open"]
  BY <1>2 DEF Inv, TypeInv
<1> HIDE DEF e
<1> QED
  BY <1>1, <1>2, <1>3, OneTiding

\* The compositor withdraws the manager.
LEMMA FinishesKeeps ==
    ASSUME WaylandAssumption, Inv, Finishes
    PROVE  Inv'
<1> DEFINE e == Event("finished", Nil, Nil)
           es == <<e>>
<1>1. e \in Events /\ e.kind = "finished"
  BY DEF Event, Events
<1>2. /\ Talking /\ changed' = MaxWindowChanges /\ life' = life /\ title' = title
      /\ incoming' = incoming \o es
      /\ UNCHANGED <<client, requests, offered, bound, raised, listed>>
  BY DEF Finishes, Emits
<1> HIDE DEF e
<1>3. es \in Seq(Events) /\ \A i \in 1..Len(es) : es[i] = e
  BY <1>1
<1> HIDE DEF es
<1>4. Tidings(es)
  BY <1>1, <1>2, <1>3 DEF Tidings, Says, OfWindow
<1>5. changed' \in 0..MaxWindowChanges
  BY <1>2 DEF WaylandAssumption
<1>6. life' \in [Windows -> {"unborn", "open", "closed"}] /\ title' \in [Windows -> Titles]
  BY <1>2 DEF Inv, TypeInv
<1>7. phase # "dial"
  BY <1>2 DEF Talking
<1> QED
  BY <1>1, <1>2, <1>3, <1>4, <1>5, <1>6, <1>7, ChangeKeeps

-----------------------------------------------------------------------------
(* The compositor serves a request.                                        *)

\* An order of a finite set has each of its elements in one place.
LEMMA Orders ==
    ASSUME NEW S, IsFiniteSet(S), NEW order \in SetToSeqs(S)
    PROVE  /\ order \in Seq(S) /\ Len(order) \in Nat /\ DOMAIN order = 1..Len(order)
           /\ \A i, j \in 1..Len(order) : order[i] = order[j] => i = j
           /\ \A x \in S : \E i \in 1..Len(order) : order[i] = x
<1> DEFINE n == Cardinality(S)
<1>1. n \in Nat
  BY FS_CardinalityType
<1>2. order \in [1..n -> S] /\ \A i, j \in 1..n : order[i] = order[j] => i = j
  BY DEF SetToSeqs
<1>3. order \in Injection(1..n, S)
  BY <1>2 DEF Injection, IsInjective
<1>4. Cardinality(1..n) = n
  BY <1>1, FS_Interval
<1>5. order \in Surjection(1..n, S)
  BY <1>3, <1>4, FS_Injection
<1>6. \A x \in S : \E i \in 1..n : order[i] = x
  BY <1>5 DEF Surjection
<1> HIDE DEF n
<1>7. order \in Seq(S) /\ Len(order) = n /\ DOMAIN order = 1..n
  BY <1>1, <1>2, IsASeq, LenProperties
<1> QED
  BY <1>1, <1>2, <1>6, <1>7

\* Which of a window's three events is at a place of the list.
Place(es, i, order, k) ==
    /\ i \in {3 * k - 2, 3 * k - 1, 3 * k} /\ es[i].w = order[k]
    /\ i = 3 * k - 2 => es[i].kind = "toplevel"
    /\ i = 3 * k - 1 => es[i].kind = "details"
    /\ i = 3 * k => es[i].kind = "done"

\* The list has the three events of each window, one window after the other.
LEMMA ListingFacts ==
    ASSUME NEW order \in Seq(Windows), Len(order) \in Nat, title \in [Windows -> Titles],
           NEW es, es = Listing(order)
    PROVE  /\ es \in Seq(Events)
           /\ \A i \in 1..Len(es) : \E k \in 1..Len(order) : Place(es, i, order, k)
           /\ \A k \in 1..Len(order) :
                 {3 * k - 2, 3 * k - 1, 3 * k} \subseteq 1..Len(es)
<1> DEFINE n == Len(order)
           at(i) == (i + 2) \div 3
           e(i) == Details(order[at(i)])[((i - 1) % 3) + 1]
<1>1. \A i \in 1..3 * n :
         /\ at(i) \in 1..n
         /\ \/ i = 3 * at(i) - 2 /\ (i - 1) % 3 = 0
            \/ i = 3 * at(i) - 1 /\ (i - 1) % 3 = 1
            \/ i = 3 * at(i) /\ (i - 1) % 3 = 2
  OBVIOUS
<1>2. es = [i \in 1..3 * n |-> e(i)]
  BY DEF Listing
<1>3. ASSUME NEW k \in 1..n
      PROVE  /\ order[k] \in Windows
             /\ Details(order[k])[1] = Event("toplevel", order[k], Nil)
             /\ Details(order[k])[2] = Event("details", order[k], title[order[k]])
             /\ Details(order[k])[3] = Event("done", order[k], Nil)
  BY DEF Details
<1>4. \A i \in 1..3 * n :
         /\ e(i) \in Events /\ e(i).w = order[at(i)]
         /\ i = 3 * at(i) - 2 => e(i).kind = "toplevel"
         /\ i = 3 * at(i) - 1 => e(i).kind = "details"
         /\ i = 3 * at(i) => e(i).kind = "done"
  <2> SUFFICES ASSUME NEW i \in 1..3 * n
               PROVE  /\ e(i) \in Events /\ e(i).w = order[at(i)]
                      /\ i = 3 * at(i) - 2 => e(i).kind = "toplevel"
                      /\ i = 3 * at(i) - 1 => e(i).kind = "details"
                      /\ i = 3 * at(i) => e(i).kind = "done"
    OBVIOUS
  <2> DEFINE k == at(i)
  <2>1. k \in 1..n /\ \/ i = 3 * k - 2 /\ (i - 1) % 3 = 0
                      \/ i = 3 * k - 1 /\ (i - 1) % 3 = 1
                      \/ i = 3 * k /\ (i - 1) % 3 = 2
    BY <1>1
  <2>2. e(i) = Details(order[k])[((i - 1) % 3) + 1]
    OBVIOUS
  <2> HIDE DEF k, e
  <2>3. order[k] \in Windows /\ title[order[k]] \in Titles
    BY <1>3, <2>1
  <2>7. k \in Nat /\ at(i) = k
    BY <2>1 DEF k
  <2>4. CASE i = 3 * k - 2 /\ (i - 1) % 3 = 0
    <3>1. e(i) = Event("toplevel", order[k], Nil)
      BY <1>3, <2>1, <2>2, <2>4
    <3>2. e(i) \in Events /\ e(i).w = order[k] /\ e(i).kind = "toplevel"
      BY <2>3, <3>1, EventTypes, EventFields
    <3> QED
      BY <2>1, <2>7, <2>4, <3>2
  <2>5. CASE i = 3 * k - 1 /\ (i - 1) % 3 = 1
    <3>1. e(i) = Event("details", order[k], title[order[k]])
      BY <1>3, <2>1, <2>2, <2>5
    <3>2. e(i) \in Events /\ e(i).w = order[k] /\ e(i).kind = "details"
      BY <2>3, <3>1, EventTypes, EventFields
    <3> QED
      BY <2>1, <2>7, <2>5, <3>2
  <2>6. CASE i = 3 * k /\ (i - 1) % 3 = 2
    <3>1. e(i) = Event("done", order[k], Nil)
      BY <1>3, <2>1, <2>2, <2>6
    <3>2. e(i) \in Events /\ e(i).w = order[k] /\ e(i).kind = "done"
      BY <2>3, <3>1, EventTypes, EventFields
    <3> QED
      BY <2>1, <2>7, <2>6, <3>2
  <2> QED
    BY <2>1, <2>4, <2>5, <2>6
<1>5. \A k \in 1..n : {3 * k - 2, 3 * k - 1, 3 * k} \subseteq 1..3 * n
  OBVIOUS
<1>6. 3 * n \in Nat
  OBVIOUS
<1> HIDE DEF n, e
<1> HIDE DEF at
<1>7. es \in Seq(Events) /\ Len(es) = 3 * n
  BY <1>2, <1>4, <1>6, IsASeq, LenProperties
<1>8. \A i \in 1..3 * n : es[i] = e(i)
  BY <1>2
<1>9. \A i \in 1..3 * n :
         /\ at(i) \in 1..n /\ i \in {3 * at(i) - 2, 3 * at(i) - 1, 3 * at(i)}
         /\ es[i].w = order[at(i)]
         /\ i = 3 * at(i) - 2 => es[i].kind = "toplevel"
         /\ i = 3 * at(i) - 1 => es[i].kind = "details"
         /\ i = 3 * at(i) => es[i].kind = "done"
  BY <1>1, <1>4, <1>8
<1>10. \A i \in 1..3 * n : \E k \in 1..n : Place(es, i, order, k)
  BY <1>9 DEF Place
<1> QED
  BY <1>5, <1>7, <1>10 DEF n

\* The first of a few requests, and those after it.
LEMMA Fronts ==
    ASSUME NEW a, NEW b, NEW c
    PROVE  /\ Head(<<a>>) = a /\ Tail(<<a>>) = <<>>
           /\ Head(<<a, b>>) = a /\ Tail(<<a, b>>) = <<b>>
           /\ Head(<<a, b, c>>) = a /\ Tail(<<a, b, c>>) = <<b, c>>
<1>1. Head(<<a>>) = a /\ Tail(<<a>>) = <<>>
  OBVIOUS
<1>2. Head(<<a, b>>) = a /\ Tail(<<a, b>>) = <<b>>
  OBVIOUS
<1>3. Head(<<a, b, c>>) = a /\ Tail(<<a, b, c>>) = <<b, c>>
  OBVIOUS
<1> QED
  BY <1>1, <1>2, <1>3

\* A roundtrip asks for something, and then for the answer.
LEMMA Asked ==
    ASSUME NEW a, NEW b, NEW c
    PROVE  /\ <<>> \o <<a>> \o <<c>> = <<a, c>>
           /\ <<>> \o <<a, b>> \o <<c>> = <<a, b, c>>
<1> DEFINE S == {a, b, c}
           s == <<a>>
           t == <<a, b>>
           u == <<c>>
           x == <<a, c>>
           y == <<a, b, c>>
<1>1. s \in Seq(S) /\ Len(s) = 1 /\ s[1] = a
  OBVIOUS
<1>2. t \in Seq(S) /\ Len(t) = 2 /\ t[1] = a /\ t[2] = b
  OBVIOUS
<1>3. u \in Seq(S) /\ Len(u) = 1 /\ u[1] = c
  OBVIOUS
<1>4. x \in Seq(S) /\ Len(x) = 2 /\ x[1] = a /\ x[2] = c
  OBVIOUS
<1>5. y \in Seq(S) /\ Len(y) = 3 /\ y[1] = a /\ y[2] = b /\ y[3] = c
  OBVIOUS
<1> HIDE DEF s, t, u, x, y, S
<1>6. <<>> \o s = s /\ <<>> \o t = t
  BY <1>1, <1>2, ConcatEmptySeq
<1>7. s \o u = x
  <2>1. /\ s \o u \in Seq(S) /\ Len(s \o u) = 2
        /\ \A i \in 1..2 : (s \o u)[i] = IF i <= Len(s) THEN s[i] ELSE u[i - Len(s)]
    BY <1>1, <1>3, ConcatProperties
  <2>2. \A i \in 1..2 : (s \o u)[i] = x[i]
    BY <1>1, <1>3, <1>4, <2>1
  <2> QED
    BY <1>4, <2>1, <2>2, SeqEqual
<1>8. t \o u = y
  <2>1. /\ t \o u \in Seq(S) /\ Len(t \o u) = 3
        /\ \A i \in 1..3 : (t \o u)[i] = IF i <= Len(t) THEN t[i] ELSE u[i - Len(t)]
    BY <1>2, <1>3, ConcatProperties, SMTT(40)
  <2>2. \A i \in 1..3 : (t \o u)[i] = y[i]
    BY <1>2, <1>3, <1>5, <2>1
  <2> QED
    BY <1>5, <2>1, <2>2, SeqEqual
<1> QED
  BY <1>6, <1>7, <1>8 DEF s, t, u, x, y

\* The request that the compositor serves next, by what the client waits for.
LEMMA Requests ==
    ASSUME Inv, Talking, requests # <<>>
    PROVE  \/ /\ phase = "globals" /\ ~bound
              /\ Head(requests) = "registry" /\ Tail(requests) = <<"sync">>
           \/ /\ Head(requests) = "sync" /\ Tail(requests) = <<>>
              /\ \/ phase = "globals" /\ ~bound
                 \/ phase = "windows" /\ bound
                 \/ /\ phase = "activated" /\ bound /\ target \in Windows
                    /\ life[target] # "unborn" /\ Carried
           \/ /\ phase = "windows" /\ bound
              /\ Head(requests) = "seat" /\ Tail(requests) = <<"sync">>
           \/ /\ phase = "windows" /\ ~bound
              /\ Head(requests) = "bind" /\ Tail(requests) = <<"seat", "sync">>
           \/ /\ phase = "activated" /\ bound /\ target \in Windows /\ life[target] # "unborn"
              /\ Head(requests) = target /\ Tail(requests) = <<"sync">>
<1>1. phase \in {"globals", "windows", "choose", "activated"}
  BY DEF Inv, TypeInv, Talking
<1>2. CASE phase = "globals"
  <2>1. ~bound /\ (requests = <<"registry", "sync">> \/ requests = <<"sync">>)
    BY <1>2 DEF Inv, Asking
  <2>2. requests = <<"registry", "sync">> =>
           Head(requests) = "registry" /\ Tail(requests) = <<"sync">>
    BY Fronts
  <2>3. requests = <<"sync">> => Head(requests) = "sync" /\ Tail(requests) = <<>>
    BY Fronts
  <2> QED
    BY <1>2, <2>1, <2>2, <2>3
<1>3. CASE phase = "windows"
  <2>1. /\ bound => requests = <<"seat", "sync">> \/ requests = <<"sync">>
        /\ ~bound => requests = <<"bind", "seat", "sync">>
    BY <1>3 DEF Inv, Asking
  <2>2. requests = <<"seat", "sync">> => Head(requests) = "seat" /\ Tail(requests) = <<"sync">>
    BY Fronts
  <2>3. requests = <<"sync">> => Head(requests) = "sync" /\ Tail(requests) = <<>>
    BY Fronts
  <2>4. requests = <<"bind", "seat", "sync">> =>
           Head(requests) = "bind" /\ Tail(requests) = <<"seat", "sync">>
    BY Fronts
  <2> QED
    BY <1>3, <2>1, <2>2, <2>3, <2>4
<1>4. CASE phase = "activated"
  <2>1. /\ bound /\ target \in Windows /\ life[target] # "unborn"
        /\ requests = <<target, "sync">> \/ (requests = <<"sync">> /\ Carried)
    BY <1>4 DEF Inv, Asking
  <2> QED
    BY <1>4, <2>1, Fronts, ZenonT(40)
<1>5. phase # "choose"
  BY DEF Inv, Asking
<1> QED
  BY <1>1, <1>2, <1>3, <1>4, <1>5

\* A request that is served without a word about windows, and without an answer.
LEMMA QuietServeKeeps ==
    ASSUME Inv, Talking, requests # <<>>, Asking',
           NEW es \in Seq(Events), incoming' = incoming \o es,
           \A i \in 1..Len(es) : es[i].kind = "global",
           raised' \subseteq Windows,
           UNCHANGED <<client, life, title, offered, changed, bound, listed>>
    PROVE  Inv'
<1>1. UNCHANGED <<phase, globals, toplevels, target>>
  BY DEF client
<1>2. TypeInv'
  <2>1. incoming' \in Seq(Events)
    BY Added DEF Inv, TypeInv
  <2> QED
    BY <1>1, <2>1 DEF Inv, TypeInv
<1>3. Tidings(es)
  BY DEF Tidings, Says, OfWindow
<1>4. /\ Untold' /\ OneHandle' /\ InOrder' /\ Living' /\ Reported' /\ ListedOnce'
  BY <1>1, <1>3, TidingsKeep
<1>5. Answer' /\ Complete' /\ ChoosesAmongAll'
  <2>1. \A v \in Windows : life[v] \in {"unborn", "open"} \/ life'[v] # "open"
    BY DEF Inv, TypeInv
  <2>2. \A i \in 1..Len(es) : es[i].kind # "callback"
    OBVIOUS
  <2> QED
    BY <1>1, <2>1, <2>2, QuietKeep
<1>6. OkMeansRaised'
  BY <1>1 DEF OkMeansRaised, Talking, Final
<1> QED
  BY <1>2, <1>4, <1>5, <1>6 DEF Inv

\* The globals of a compositor.
LEMMA RegistryKeeps ==
    ASSUME Inv, Talking, requests # <<>>, Head(requests) = "registry", phase = "globals",
           ~bound, requests' = <<"sync">>, NEW order \in SetToSeqs(offered),
           Emits([i \in DOMAIN order |-> Event("global", order[i], Nil)]),
           UNCHANGED <<client, life, title, offered, changed, bound, raised, listed>>
    PROVE  Inv'
<1> DEFINE es == [i \in DOMAIN order |-> Event("global", order[i], Nil)]
<1>1. IsFiniteSet(offered) /\ offered \subseteq Interfaces
  <2>1. IsFiniteSet({"manager"} \cup {"seat"})
    BY FS_Singleton, FS_Union
  <2>2. {"manager"} \cup {"seat"} = Interfaces
    BY DEF Interfaces
  <2> QED
    BY <2>1, <2>2, FS_Subset DEF Inv, TypeInv
<1>2. order \in Seq(offered) /\ Len(order) \in Nat /\ DOMAIN order = 1..Len(order)
  BY <1>1, Orders
<1>3. \A i \in 1..Len(order) : order[i] \in Interfaces
  BY <1>1, <1>2, ElementOfSeq
<1>4. es = [i \in 1..Len(order) |-> Event("global", order[i], Nil)]
  BY <1>2
<1>5. \A i \in 1..Len(order) : Event("global", order[i], Nil) \in Events
  BY <1>3 DEF Event, Events
<1>6. incoming' = incoming \o es
  BY DEF Emits
<1> HIDE DEF es
<1>7. es \in Seq(Events) /\ Len(es) = Len(order)
  BY <1>2, <1>4, <1>5, IsASeq, LenProperties
<1>8. \A i \in 1..Len(es) : es[i].kind = "global"
  BY <1>4, <1>7, EventFields
<1>9. Asking'
  BY DEF Asking, client
<1> QED
  BY <1>6, <1>7, <1>8, <1>9, QuietServeKeeps DEF Inv, TypeInv

\* The seat is bound.
LEMMA SeatKeeps ==
    ASSUME Inv, Talking, requests # <<>>, phase = "windows", bound,
           requests' = <<"sync">>, incoming' = incoming \o <<>>,
           UNCHANGED <<client, life, title, offered, changed, bound, raised, listed>>
    PROVE  Inv'
<1>1. <<>> \in Seq(Events) /\ \A i \in 1..Len(<<>>) : <<>>[i].kind = "global"
  OBVIOUS
<1>2. Asking'
  BY DEF Asking, client
<1> QED
  BY <1>1, <1>2, QuietServeKeeps DEF Inv, TypeInv

\* A window is activated.
LEMMA ActivationKeeps ==
    ASSUME Inv, Talking, requests # <<>>, phase = "activated", bound, target \in Windows,
           life[target] # "unborn", requests' = <<"sync">>, incoming' = incoming \o <<>>,
           raised' = IF IsOpen(target) THEN raised \cup {target} ELSE raised,
           UNCHANGED <<client, life, title, offered, changed, bound, listed>>
    PROVE  Inv'
<1>1. <<>> \in Seq(Events) /\ \A i \in 1..Len(<<>>) : <<>>[i].kind = "global"
  OBVIOUS
<1>2. UNCHANGED <<phase, globals, toplevels, target>>
  BY DEF client
<1>3. target \in raised' \/ life[target] = "closed"
  BY DEF Inv, TypeInv, IsOpen
<1>4. Asking'
  BY <1>2, <1>3 DEF Asking, Carried
<1>5. raised' \subseteq Windows
  BY DEF Inv, TypeInv
<1> QED
  BY <1>1, <1>4, <1>5, QuietServeKeeps

\* The answer to a roundtrip: it comes after all that was said before.
LEMMA SyncKeeps ==
    ASSUME Inv, Talking, requests # <<>>, requests' = <<>>,
           \/ phase = "globals" /\ ~bound
           \/ phase = "windows" /\ bound
           \/ /\ phase = "activated" /\ bound /\ target \in Windows
              /\ life[target] # "unborn" /\ Carried,
           Emits(<<Event("callback", Nil, Nil)>>),
           UNCHANGED <<client, life, title, offered, changed, bound, raised, listed>>
    PROVE  Inv'
<1> DEFINE answer == Event("callback", Nil, Nil)
           es == <<answer>>
<1>1. UNCHANGED <<phase, globals, toplevels, target>>
  BY DEF client
<1>2. answer \in Events /\ answer.kind = "callback"
  BY DEF Event, Events
<1>3. incoming' = incoming \o es
  BY DEF Emits
<1> HIDE DEF answer
<1>4. es \in Seq(Events) /\ Len(es) = 1 /\ es[1] = answer
  BY <1>2
<1> HIDE DEF es
<1>5. \A i \in 1..Len(es) : i = 1 /\ es[i].kind = "callback"
  BY <1>2, <1>4
<1>6. /\ incoming' \in Seq(Events) /\ Len(incoming) \in Nat /\ Len(incoming') = Len(incoming) + 1
      /\ \A i \in 1..Len(incoming) : incoming'[i] = incoming[i]
      /\ \A i \in (Len(incoming) + 1)..Len(incoming') :
            i - Len(incoming) \in 1..Len(es) /\ incoming'[i] = es[i - Len(incoming)]
  BY <1>3, <1>4, Added DEF Inv, TypeInv
<1>7. NoCallback
  BY DEF Inv, Answer
<1>8. \A i \in 1..Len(incoming') : IsCallback(i)' => i = Len(incoming) + 1
  <2> SUFFICES ASSUME NEW i \in 1..Len(incoming'), i # Len(incoming) + 1
               PROVE  ~IsCallback(i)'
    OBVIOUS
  <2>1. i \in 1..Len(incoming)
    BY <1>6
  <2> QED
    BY <1>6, <1>7, <2>1 DEF NoCallback, IsCallback
<1>9. TypeInv'
  BY <1>1, <1>6 DEF Inv, TypeInv
<1>10. Asking'
  BY <1>1 DEF Asking, Carried
<1>11. Answer' /\ OkMeansRaised' /\ ChoosesAmongAll'
  BY <1>1, <1>8 DEF Answer, OkMeansRaised, ChoosesAmongAll
<1>12. Tidings(es)
  BY <1>5 DEF Tidings, Says, OfWindow
<1>13. Untold' /\ OneHandle' /\ InOrder' /\ Living' /\ Reported' /\ ListedOnce'
  BY <1>1, <1>3, <1>4, <1>12, TidingsKeep
<1>14. \A i \in 1..Len(incoming) :
          /\ i \in 1..Len(incoming') /\ InTime(i)'
          /\ \A v, kind : Tells(i, v, kind) => Tells(i, v, kind)'
  <2>1. \A i \in 1..Len(incoming) : i \in 1..Len(incoming') /\ i < Len(incoming) + 1
    BY <1>6
  <2> QED
    BY <1>6, <1>8, <2>1 DEF InTime, Tells, Says
<1>15. \A v \in Windows : (Named(v) => Named(v)') /\ (Initialized(v) => Initialized(v)')
  BY <1>1, <1>14 DEF Named, Initialized, Handled
<1>16. Complete'
  BY <1>1, <1>15 DEF Inv, Complete, ListedOnce, IsOpen
<1> QED
  BY <1>9, <1>10, <1>11, <1>13, <1>16 DEF Inv

\* Where the list has the events of each window.
LEMMA ListingPlaces ==
    ASSUME NEW order \in Seq(Windows), Len(order) \in Nat, title \in [Windows -> Titles],
           NEW es, es = Listing(order)
    PROVE  /\ \A i \in 1..Len(es) : \A v, kind :
                 Says(es, i, v, kind) =>
                     \E k \in 1..Len(order) :
                        /\ order[k] = v
                        /\ \/ kind = "toplevel" /\ i = 3 * k - 2
                           \/ kind = "details" /\ i = 3 * k - 1
                           \/ kind = "done" /\ i = 3 * k
           /\ \A k \in 1..Len(order) :
                 /\ {3 * k - 2, 3 * k - 1, 3 * k} \subseteq 1..Len(es)
                 /\ Says(es, 3 * k - 2, order[k], "toplevel")
                 /\ Says(es, 3 * k - 1, order[k], "details")
                 /\ Says(es, 3 * k, order[k], "done")
<1>1. \A i \in 1..Len(es) : \E k \in 1..Len(order) : Place(es, i, order, k)
  BY ListingFacts
<1>2. \A k \in 1..Len(order) : {3 * k - 2, 3 * k - 1, 3 * k} \subseteq 1..Len(es)
  BY ListingFacts
<1>3. ASSUME NEW i \in 1..Len(es), NEW v, NEW kind, Says(es, i, v, kind)
      PROVE  \E k \in 1..Len(order) :
                /\ order[k] = v
                /\ \/ kind = "toplevel" /\ i = 3 * k - 2
                   \/ kind = "details" /\ i = 3 * k - 1
                   \/ kind = "done" /\ i = 3 * k
  BY <1>1, <1>3 DEF Says, Place
<1>4. ASSUME NEW k \in 1..Len(order), NEW i \in {3 * k - 2, 3 * k - 1, 3 * k}
      PROVE  /\ es[i].w = order[k]
             /\ i = 3 * k - 2 => es[i].kind = "toplevel"
             /\ i = 3 * k - 1 => es[i].kind = "details"
             /\ i = 3 * k => es[i].kind = "done"
  <2>1. i \in 1..Len(es)
    BY <1>2
  <2>2. PICK j \in 1..Len(order) :
           /\ i \in {3 * j - 2, 3 * j - 1, 3 * j} /\ es[i].w = order[j]
           /\ i = 3 * j - 2 => es[i].kind = "toplevel"
           /\ i = 3 * j - 1 => es[i].kind = "details"
           /\ i = 3 * j => es[i].kind = "done"
    BY <1>1, <2>1 DEF Place
  <2>3. j = k
    BY <2>2
  <2> QED
    BY <2>2, <2>3
<1> QED
  BY <1>2, <1>3, <1>4 DEF Says

\* The manager is bound: the list has every window that is open, each once.
LEMMA BindKeeps ==
    ASSUME WaylandAssumption, Inv, Talking, requests # <<>>, phase = "windows", ~bound,
           requests' = <<"seat", "sync">>, bound', listed' = {w \in Windows : IsOpen(w)},
           NEW order \in SetToSeqs({w \in Windows : IsOpen(w)}), Emits(Listing(order)),
           UNCHANGED <<client, life, title, offered, changed, raised>>
    PROVE  Inv'
<1> DEFINE open == {w \in Windows : IsOpen(w)}
           es == Listing(order)
           n == Len(order)
<1>1. UNCHANGED <<phase, globals, toplevels, target>>
  BY DEF client
<1>2. IsFiniteSet(open) /\ open \subseteq Windows
  BY FS_Subset DEF WaylandAssumption
<1>3. /\ order \in Seq(open) /\ n \in Nat
      /\ \A i, j \in 1..n : order[i] = order[j] => i = j
      /\ \A v \in open : \E k \in 1..n : order[k] = v
  <2>1. order \in SetToSeqs(open)
    OBVIOUS
  <2> HIDE DEF open
  <2> QED
    BY <1>2, <2>1, Orders
<1>4. order \in Seq(Windows) /\ \A k \in 1..n : order[k] \in open
  BY <1>2, <1>3
<1>5. title \in [Windows -> Titles]
  BY DEF Inv, TypeInv
<1>6. incoming' = incoming \o es
  BY DEF Emits
<1>7. es \in Seq(Events)
  BY <1>3, <1>4, <1>5, ListingFacts
<1>8. \A i \in 1..Len(es) : \A v, kind :
         Says(es, i, v, kind) =>
             \E k \in 1..n :
                /\ order[k] = v
                /\ \/ kind = "toplevel" /\ i = 3 * k - 2
                   \/ kind = "details" /\ i = 3 * k - 1
                   \/ kind = "done" /\ i = 3 * k
  BY <1>3, <1>4, <1>5, ListingPlaces
<1>9. \A k \in 1..n :
         /\ {3 * k - 2, 3 * k - 1, 3 * k} \subseteq 1..Len(es)
         /\ Says(es, 3 * k - 2, order[k], "toplevel")
         /\ Says(es, 3 * k - 1, order[k], "details")
         /\ Says(es, 3 * k, order[k], "done")
  BY <1>3, <1>4, <1>5, ListingPlaces
<1> HIDE DEF es, n
<1>29. \A i \in 1..Len(es) : \A v :
          Says(es, i, v, "toplevel") => \E k \in 1..n : order[k] = v /\ i = 3 * k - 2
  BY <1>8
<1>30. \A i \in 1..Len(es) : \A v, kind : kind \in {"details", "done", "closed"} =>
          (Says(es, i, v, kind) =>
              \E k \in 1..n : order[k] = v /\ (i = 3 * k - 1 \/ i = 3 * k))
  BY <1>8
<1>10. /\ incoming' \in Seq(Events) /\ Len(incoming) \in Nat /\ Len(es) \in Nat
       /\ Len(incoming') = Len(incoming) + Len(es)
       /\ \A i \in 1..Len(incoming) : incoming'[i] = incoming[i]
       /\ \A i \in 1..Len(es) : incoming'[Len(incoming) + i] = es[i]
       /\ \A i \in (Len(incoming) + 1)..Len(incoming') :
             i - Len(incoming) \in 1..Len(es) /\ incoming'[i] = es[i - Len(incoming)]
  BY <1>6, <1>7, Added DEF Inv, TypeInv
<1>11. /\ \A v \in Windows : ~Handled(v) /\ ~Handled(v)'
       /\ \A v \in Windows, i \in 1..Len(incoming), kind \in OfWindow : ~Tells(i, v, kind)
  BY <1>1 DEF Inv, Untold, Handled
<1>12. NoCallback
  BY DEF Inv, Answer
\* What the new events say, and that nothing else says anything.
<1>13. ASSUME NEW i \in 1..Len(incoming'), NEW v \in Windows, NEW kind \in OfWindow, Tells(i, v, kind)'
       PROVE  i > Len(incoming) /\ i - Len(incoming) \in 1..Len(es) /\ Says(es, i - Len(incoming), v, kind)
  <2>1. CASE i <= Len(incoming)
    BY <1>10, <1>11, <1>13, <2>1 DEF Tells, Says
  <2>2. CASE i > Len(incoming)
    <3>1. i \in (Len(incoming) + 1)..Len(incoming')
      BY <1>10, <2>2
    <3> QED
      BY <1>10, <1>13, <2>2, <3>1 DEF Tells, Says
  <2> QED
    BY <1>10, <2>1, <2>2
<1>14. ASSUME NEW i \in 1..Len(es), NEW v, NEW kind, Says(es, i, v, kind)
       PROVE  \E j \in 1..Len(incoming') : j = Len(incoming) + i /\ Tells(j, v, kind)'
  <2>1. Len(incoming) + i \in 1..Len(incoming')
    BY <1>10
  <2> QED
    BY <1>10, <1>14, <2>1 DEF Tells, Says
<1>15. \A i \in 1..Len(es) : es[i].kind \in {"toplevel", "details", "done"}
  <2> TAKE i \in 1..Len(es)
  <2>1. Says(es, i, es[i].w, es[i].kind)
    BY DEF Says
  <2> QED
    BY <1>8, <2>1
<1>16. \A i \in 1..Len(incoming') : ~IsCallback(i)'
  <2> TAKE i \in 1..Len(incoming')
  <2>1. CASE i <= Len(incoming)
    BY <1>10, <1>12, <2>1 DEF NoCallback, IsCallback
  <2>2. CASE i > Len(incoming)
    <3>1. i \in (Len(incoming) + 1)..Len(incoming')
      BY <1>10, <2>2
    <3> QED
      BY <1>10, <1>15, <3>1 DEF IsCallback
  <2> QED
    BY <1>10, <2>1, <2>2
<1>17. ASSUME NEW v \in open, NEW kind \in {"toplevel", "details", "done"}
       PROVE  \E j \in 1..Len(incoming') : Tells(j, v, kind)'
  <2>1. PICK k \in 1..n : order[k] = v
    BY <1>3
  <2>2. \E i \in 1..Len(es) : Says(es, i, v, kind)
    BY <1>9, <2>1
  <2> QED
    BY <1>14, <2>2
<1>18. \A i \in 1..Len(incoming'), v \in Windows, kind \in OfWindow :
          Tells(i, v, kind)' => life[v] = "open" /\ kind # "closed"
  <2> SUFFICES ASSUME NEW i \in 1..Len(incoming'), NEW v \in Windows, NEW kind \in OfWindow,
                      Tells(i, v, kind)'
               PROVE  life[v] = "open" /\ kind # "closed"
    OBVIOUS
  <2>1. PICK k \in 1..n : order[k] = v /\ kind \in {"toplevel", "details", "done"}
    BY <1>8, <1>13
  <2> QED
    BY <1>4, <2>1 DEF IsOpen
<1>19. TypeInv'
  BY <1>1, <1>10 DEF Inv, TypeInv
<1>20. Asking' /\ OkMeansRaised'
  BY <1>1 DEF Asking, OkMeansRaised
<1>21. Answer' /\ ChoosesAmongAll'
  BY <1>1, <1>16 DEF Answer, NoCallback, ChoosesAmongAll
<1>22. Untold'
  BY <1>11, <1>18 DEF Untold
<1>23. OneHandle'
  <2> SUFFICES ASSUME NEW v \in Windows, NEW i \in 1..Len(incoming'), NEW j \in 1..Len(incoming'),
                      Tells(i, v, "toplevel")', Tells(j, v, "toplevel")'
               PROVE  i = j
    BY <1>11 DEF OneHandle
  <2>1. /\ i - Len(incoming) \in 1..Len(es) /\ Says(es, i - Len(incoming), v, "toplevel")
        /\ j - Len(incoming) \in 1..Len(es) /\ Says(es, j - Len(incoming), v, "toplevel")
    BY <1>13 DEF OfWindow
  <2>2. PICK k \in 1..n : order[k] = v /\ i - Len(incoming) = 3 * k - 2
    BY <1>29, <2>1
  <2>3. PICK l \in 1..n : order[l] = v /\ j - Len(incoming) = 3 * l - 2
    BY <1>29, <2>1
  <2>4. k = l
    BY <1>3, <2>2, <2>3
  <2> QED
    BY <1>10, <2>2, <2>3, <2>4
<1>24. InOrder'
  <2> SUFFICES ASSUME NEW v \in Windows, NEW j \in 1..Len(incoming'),
                      NEW kind \in {"details", "done", "closed"}, Tells(j, v, kind)'
               PROVE  \E i \in 1..Len(incoming') : i < j /\ Tells(i, v, "toplevel")'
    BY DEF InOrder
  <2>1. /\ j > Len(incoming) /\ j - Len(incoming) \in 1..Len(es)
        /\ Says(es, j - Len(incoming), v, kind)
    BY <1>13 DEF OfWindow
  <2>2. PICK k \in 1..n :
           order[k] = v /\ (j - Len(incoming) = 3 * k - 1 \/ j - Len(incoming) = 3 * k)
    BY <1>30, <2>1
  <2>3. 3 * k - 2 \in 1..Len(es) /\ Says(es, 3 * k - 2, v, "toplevel")
    BY <1>9, <2>2
  <2>4. PICK i \in 1..Len(incoming') : i = Len(incoming) + (3 * k - 2) /\ Tells(i, v, "toplevel")'
    BY <1>14, <2>3
  <2>5. i < j
    BY <1>3, <1>10, <2>2, <2>4, SMTT(40) DEF n
  <2> QED
    BY <2>4, <2>5
<1>25. Living'
  BY <1>11, <1>18 DEF Living, OfWindow
<1>26. Reported'
  BY <1>17 DEF Reported, Coming, IsOpen
<1>27. ListedOnce'
  BY DEF ListedOnce, IsOpen
<1>28. Complete'
  <2>1. \A i \in 1..Len(incoming') : InTime(i)'
    BY <1>16 DEF InTime
  <2>2. \A v \in open : Named(v)' /\ Initialized(v)'
    BY <1>17, <2>1 DEF Named, Initialized
  <2> QED
    BY <2>2 DEF Complete
<1> QED
  BY <1>19, <1>20, <1>21, <1>22, <1>23, <1>24, <1>25, <1>26, <1>27, <1>28 DEF Inv

\* Each request is of one of the kinds above, and no window is taken for another.
LEMMA ServeKeeps ==
    ASSUME WaylandAssumption, Inv, ServeRequest
    PROVE  Inv'
<1> DEFINE r == Head(requests)
           open == {w \in Windows : IsOpen(w)}
<1>1. /\ Talking /\ requests # <<>> /\ requests' = Tail(requests)
      /\ UNCHANGED <<client, life, title, offered, changed>>
  BY DEF ServeRequest
<1>2. \/ /\ r = "registry" /\ UNCHANGED <<bound, raised, listed>>
         /\ \E order \in SetToSeqs(offered) :
                Emits([i \in DOMAIN order |-> Event("global", order[i], Nil)])
      \/ /\ r = "sync" /\ Emits(<<Event("callback", Nil, Nil)>>)
         /\ UNCHANGED <<bound, raised, listed>>
      \/ r = "seat" /\ Emits(<<>>) /\ UNCHANGED <<bound, raised, listed>>
      \/ /\ r = "bind" /\ bound' = TRUE /\ listed' = open /\ UNCHANGED raised
         /\ \E order \in SetToSeqs(open) : Emits(Listing(order))
      \/ /\ r \in Windows /\ Emits(<<>>) /\ UNCHANGED <<bound, listed>>
         /\ raised' = IF IsOpen(r) THEN raised \cup {r} ELSE raised
  BY Zenon DEF ServeRequest
<1>3. "registry" \notin Windows /\ "sync" \notin Windows /\ "bind" \notin Windows /\ "seat" \notin Windows
  BY DEF WaylandAssumption
<1> HIDE DEF open
<1>4. CASE r = "registry"
  <2>1. phase = "globals" /\ ~bound /\ requests' = <<"sync">>
    BY <1>1, <1>3, <1>4, Requests
  <2>2. /\ UNCHANGED <<bound, raised, listed>>
        /\ \E order \in SetToSeqs(offered) :
                Emits([i \in DOMAIN order |-> Event("global", order[i], Nil)])
    BY <1>2, <1>3, <1>4
  <2> QED
    BY <1>1, <1>4, <2>1, <2>2, RegistryKeeps
<1>5. CASE r = "sync"
  <2>1. /\ requests' = <<>>
        /\ \/ phase = "globals" /\ ~bound
           \/ phase = "windows" /\ bound
           \/ /\ phase = "activated" /\ bound /\ target \in Windows
              /\ life[target] # "unborn" /\ Carried
    BY <1>1, <1>3, <1>5, Requests
  <2>2. Emits(<<Event("callback", Nil, Nil)>>) /\ UNCHANGED <<bound, raised, listed>>
    BY <1>2, <1>3, <1>5
  <2> QED
    BY <1>1, <2>1, <2>2, SyncKeeps
<1>6. CASE r = "seat"
  <2>1. phase = "windows" /\ bound /\ requests' = <<"sync">>
    BY <1>1, <1>3, <1>6, Requests
  <2>2. incoming' = incoming \o <<>> /\ UNCHANGED <<bound, raised, listed>>
    BY <1>2, <1>3, <1>6 DEF Emits
  <2> QED
    BY <1>1, <2>1, <2>2, SeatKeeps
<1>7. CASE r = "bind"
  <2>1. phase = "windows" /\ ~bound /\ requests' = <<"seat", "sync">>
    BY <1>1, <1>3, <1>7, Requests
  <2>2. /\ bound' /\ listed' = open /\ UNCHANGED raised
        /\ \E order \in SetToSeqs(open) : Emits(Listing(order))
    BY <1>2, <1>3, <1>7
  <2> QED
    BY <1>1, <2>1, <2>2, BindKeeps DEF open
<1>8. CASE r \in Windows
  <2>1. /\ phase = "activated" /\ bound /\ target \in Windows /\ life[target] # "unborn"
        /\ r = target /\ requests' = <<"sync">>
    BY <1>1, <1>3, <1>8, Requests
  <2>2. /\ incoming' = incoming \o <<>> /\ UNCHANGED <<bound, listed>>
        /\ raised' = IF IsOpen(r) THEN raised \cup {r} ELSE raised
    BY <1>2, <1>3, <1>8 DEF Emits
  <2> QED
    BY <1>1, <2>1, <2>2, ActivationKeeps
<1> QED
  BY <1>2, <1>4, <1>5, <1>6, <1>7, <1>8

-----------------------------------------------------------------------------
(* The client.                                                             *)

\* Steps that neither take nor add events.
LEMMA MovesKeep ==
    ASSUME Inv, UNCHANGED <<toplevels, incoming, compositor>>, Talking' => Talking \/ ~bound
    PROVE  Untold' /\ OneHandle' /\ InOrder' /\ Living' /\ Reported' /\ ListedOnce'
<1>1. UNCHANGED <<life, title, bound, raised, listed, toplevels, incoming>>
  BY DEF compositor
<1>2. Untold' /\ OneHandle' /\ InOrder' /\ Living'
  BY <1>1 DEF Inv, Untold, OneHandle, InOrder, Living, Handled, Tells, Says, IsOpen
<1>3. Reported'
  BY <1>1 DEF Inv, Reported, Handled, Coming, Tells, Says, IsOpen
<1>4. ListedOnce'
  BY <1>1 DEF Inv, ListedOnce
<1> QED
  BY <1>2, <1>3, <1>4

\* The first roundtrip begins, or there is no compositor.
LEMMA DialKeeps ==
    ASSUME Inv, DialDisplay
    PROVE  Inv'
<1>1. /\ phase = "dial" /\ UNCHANGED <<globals, toplevels, target, incoming>> /\ UNCHANGED compositor
      /\ \/ phase' = "globals" /\ requests' = <<"registry", "sync">>
         \/ phase' = "failed" /\ requests' = requests
  BY DEF DialDisplay, Returns
<1>2. incoming = <<>> /\ ~bound
  BY <1>1 DEF Inv, Asking
<1>3. Untold' /\ OneHandle' /\ InOrder' /\ Living' /\ Reported' /\ ListedOnce'
  BY <1>1, <1>2, MovesKeep
<1>4. UNCHANGED <<life, title, offered, bound, raised, changed, listed>>
  BY <1>1 DEF compositor
<1>5. TypeInv'
  BY <1>1, <1>4 DEF Inv, TypeInv, Final
<1>6. Asking'
  BY <1>1, <1>2, <1>4 DEF Asking
<1>7. Len(incoming') = 0
  BY <1>1, <1>2
<1>8. Answer' /\ OkMeansRaised' /\ Complete' /\ ChoosesAmongAll'
  BY <1>1, <1>7 DEF Answer, NoCallback, OkMeansRaised, Complete, ChoosesAmongAll
<1> QED
  BY <1>3, <1>5, <1>6, <1>8 DEF Inv

\* A deadline passes.
LEMMA ReadFailsKeeps ==
    ASSUME Inv, ReadFails
    PROVE  Inv'
<1>1. /\ UNCHANGED <<globals, toplevels, target, requests, incoming>> /\ UNCHANGED compositor
      /\ phase' = "failed"
  BY DEF ReadFails, Returns
<1>2. Untold' /\ OneHandle' /\ InOrder' /\ Living' /\ Reported' /\ ListedOnce'
  BY <1>1, MovesKeep DEF Talking, Final
<1>3. UNCHANGED <<life, title, offered, bound, raised, changed, listed>>
  BY <1>1 DEF compositor
<1>4. TypeInv'
  BY <1>1, <1>3 DEF Inv, TypeInv, Final
<1>5. Asking' /\ OkMeansRaised' /\ Complete' /\ ChoosesAmongAll'
  BY <1>1 DEF Asking, OkMeansRaised, Complete, ChoosesAmongAll
<1>6. Answer'
  BY <1>1 DEF Inv, Answer, NoCallback, IsCallback
<1> QED
  BY <1>2, <1>4, <1>5, <1>6 DEF Inv

\* A window is chosen, or none fits.
LEMMA ChooseKeeps ==
    ASSUME Inv, Choose
    PROVE  Inv'
<1>1. /\ phase = "choose" /\ UNCHANGED <<globals, toplevels, incoming>> /\ UNCHANGED compositor
      /\ \/ phase' = "notFound" /\ target' = target /\ requests' = requests
         \/ \E w \in Windows :
               /\ toplevels[w] # Nil /\ target' = w /\ phase' = "activated"
               /\ requests' = requests \o <<w>> \o <<"sync">>
  BY DEF Choose, Returns, AfterActivate, RoundTrip
<1>2. requests = <<>> /\ bound
  BY <1>1 DEF Inv, Asking
<1>3. UNCHANGED <<life, title, offered, bound, raised, changed, listed>>
  BY <1>1 DEF compositor
<1>4. Untold' /\ OneHandle' /\ InOrder' /\ Living' /\ Reported' /\ ListedOnce'
  BY <1>1, MovesKeep DEF Talking, Final
<1>5. \A w \in Windows : toplevels[w] # Nil => life[w] # "unborn"
  BY DEF Inv, Untold, Handled
<1>6. TypeInv'
  BY <1>1, <1>3 DEF Inv, TypeInv, Final
<1>7. OkMeansRaised' /\ Complete' /\ ChoosesAmongAll'
  BY <1>1 DEF OkMeansRaised, Complete, ChoosesAmongAll
<1>8. Answer'
  BY <1>1 DEF Inv, Answer, NoCallback, IsCallback
<1>9. Asking'
  <2>1. CASE phase' = "notFound"
    BY <2>1 DEF Asking
  <2>2. CASE phase' = "activated"
    <3>1. PICK w \in Windows :
             /\ toplevels[w] # Nil /\ target' = w
             /\ requests' = requests \o <<w>> \o <<"sync">>
      BY <1>1, <2>2
    <3>2. requests' = <<w, "sync">>
      BY <1>2, <3>1, Asked
    <3> QED
      BY <1>2, <1>3, <1>5, <2>2, <3>1, <3>2 DEF Asking
  <2> QED
    BY <1>1, <2>1, <2>2
<1> QED
  BY <1>4, <1>6, <1>7, <1>8, <1>9 DEF Inv

\* What is behind the first event moves up.
LEMMA Shifted ==
    ASSUME Inv, incoming # <<>>, incoming' = Tail(incoming)
    PROVE  /\ incoming' \in Seq(Events) /\ incoming[1] \in Events /\ Head(incoming) = incoming[1]
           /\ Len(incoming) \in Nat /\ 1 \in 1..Len(incoming)
           /\ \A i \in 1..Len(incoming') :
                 /\ i + 1 \in 1..Len(incoming) /\ i + 1 > 1
                 /\ IsCallback(i)' <=> IsCallback(i + 1)
                 /\ InTime(i + 1) => InTime(i)'
                 /\ \A v, kind : Tells(i, v, kind)' <=> Tells(i + 1, v, kind)
           /\ \A j \in 1..Len(incoming) : j # 1 => \E i \in 1..Len(incoming') : j = i + 1
<1>1. /\ incoming' \in Seq(Events) /\ Len(incoming) \in Nat \ {0}
      /\ Head(incoming) = incoming[1] /\ incoming[1] \in Events
      /\ Len(incoming') = Len(incoming) - 1
      /\ \A i \in 1..Len(incoming') : incoming'[i] = incoming[i + 1]
  BY Taken DEF Inv, TypeInv
<1>2. 1 \in 1..Len(incoming) /\ \A i \in 1..Len(incoming') : i + 1 \in 1..Len(incoming) /\ i + 1 > 1
  BY <1>1
<1>3. \A j \in 1..Len(incoming) : j # 1 => \E i \in 1..Len(incoming') : j = i + 1
  <2> SUFFICES ASSUME NEW j \in 1..Len(incoming), j # 1
               PROVE  \E i \in 1..Len(incoming') : j = i + 1
    OBVIOUS
  <2>1. j - 1 \in 1..Len(incoming') /\ j = (j - 1) + 1
    BY <1>1
  <2> QED
    BY <2>1
<1>4. \A i \in 1..Len(incoming') :
         /\ IsCallback(i)' <=> IsCallback(i + 1)
         /\ \A v, kind : Tells(i, v, kind)' <=> Tells(i + 1, v, kind)
  BY <1>1 DEF IsCallback, Tells, Says
<1>5. ASSUME NEW i \in 1..Len(incoming'), InTime(i + 1)
      PROVE  InTime(i)'
  <2> SUFFICES ASSUME NEW c \in 1..Len(incoming'), IsCallback(c)'
               PROVE  i < c
    BY DEF InTime
  <2>1. c + 1 \in 1..Len(incoming) /\ IsCallback(c + 1)
    BY <1>2, <1>4
  <2>2. i + 1 < c + 1
    BY <1>5, <2>1 DEF InTime
  <2> QED
    BY <1>1, <2>2
<1> QED
  BY <1>1, <1>2, <1>3, <1>4, <1>5

\* Taking an event keeps what is known of the windows in order.
LEMMA TakesKeep ==
    ASSUME Inv, incoming # <<>>, incoming' = Tail(incoming), UNCHANGED compositor,
           Talking' => Talking,
           \A v \in Windows : Handled(v)' <=> Handled(v) \/ Tells(1, v, "toplevel"),
           \A v \in Windows : Handled(v)' /\ toplevels'[v].closed =>
               (Handled(v) /\ toplevels[v].closed) \/ Tells(1, v, "closed")
    PROVE  Untold' /\ OneHandle' /\ InOrder' /\ Living' /\ Reported' /\ ListedOnce'
<1>1. UNCHANGED <<life, bound, listed>>
  BY DEF compositor
<1>2. /\ 1 \in 1..Len(incoming) /\ Len(incoming) \in Nat
      /\ \A i \in 1..Len(incoming') :
            /\ i + 1 \in 1..Len(incoming) /\ i + 1 > 1
            /\ \A v, kind : Tells(i, v, kind)' <=> Tells(i + 1, v, kind)
      /\ \A j \in 1..Len(incoming) : j # 1 => \E i \in 1..Len(incoming') : j = i + 1
  BY Shifted
<1>3. Untold'
  <2> SUFFICES ASSUME NEW v \in Windows, life[v] = "unborn" \/ ~bound
               PROVE  ~Handled(v)' /\ \A i \in 1..Len(incoming'), kind \in OfWindow : ~Tells(i, v, kind)'
    BY <1>1 DEF Untold
  <2>1. ~Handled(v) /\ \A i \in 1..Len(incoming), kind \in OfWindow : ~Tells(i, v, kind)
    BY DEF Inv, Untold
  <2> QED
    BY <1>2, <2>1 DEF OfWindow
<1>4. OneHandle'
  <2> SUFFICES ASSUME NEW v \in Windows, NEW i \in 1..Len(incoming'), NEW j \in 1..Len(incoming'),
                      Tells(i, v, "toplevel")'
               PROVE  ~Handled(v)' /\ (Tells(j, v, "toplevel")' => i = j)
    BY DEF OneHandle
  <2>1. /\ ~Handled(v)
        /\ \A k \in 1..Len(incoming) : Tells(k, v, "toplevel") => i + 1 = k
    BY <1>2 DEF Inv, OneHandle
  <2>2. ~Tells(1, v, "toplevel")
    BY <1>2, <2>1
  <2>3. Tells(j, v, "toplevel")' => i + 1 = j + 1
    BY <1>2, <2>1
  <2> QED
    BY <2>1, <2>2, <2>3
<1>5. InOrder'
  <2> SUFFICES ASSUME NEW v \in Windows, NEW j \in 1..Len(incoming'),
                      NEW kind \in {"details", "done", "closed"}, Tells(j, v, kind)'
               PROVE  Handled(v)' \/ \E i \in 1..Len(incoming') : i < j /\ Tells(i, v, "toplevel")'
    BY DEF InOrder
  <2>1. Handled(v) \/ \E i \in 1..Len(incoming) : i < j + 1 /\ Tells(i, v, "toplevel")
    BY <1>2 DEF Inv, InOrder
  <2>2. ASSUME NEW k \in 1..Len(incoming), k < j + 1, k # 1, Tells(k, v, "toplevel")
        PROVE  \E i \in 1..Len(incoming') : i < j /\ Tells(i, v, "toplevel")'
    <3>1. PICK i \in 1..Len(incoming') : k = i + 1
      BY <1>2, <2>2
    <3>2. Tells(i, v, "toplevel")'
      BY <1>2, <2>2, <3>1
    <3>3. i < j
      BY <2>2, <3>1
    <3> QED
      BY <3>2, <3>3
  <2> QED
    BY <2>1, <2>2
<1>6. Living'
  <2> SUFFICES ASSUME NEW v \in Windows, life[v] = "open"
               PROVE  /\ Handled(v)' => ~toplevels'[v].closed
                      /\ \A i \in 1..Len(incoming') : ~Tells(i, v, "closed")'
    BY <1>1 DEF Living, IsOpen
  <2>1. /\ Handled(v) => ~toplevels[v].closed
        /\ \A i \in 1..Len(incoming) : ~Tells(i, v, "closed")
    BY DEF Inv, Living, IsOpen
  <2> QED
    BY <1>2, <2>1
<1>7. Reported'
  <2> SUFFICES ASSUME bound, Talking, NEW v \in Windows, life[v] = "open", ~Handled(v)'
               PROVE  Coming(v)'
    BY <1>1 DEF Reported, IsOpen
  <2>1. PICK j \in 1..Len(incoming) : Tells(j, v, "toplevel")
    BY DEF Inv, Reported, IsOpen, Coming
  <2>2. PICK i \in 1..Len(incoming') : j = i + 1
    BY <1>2, <2>1
  <2> QED
    BY <1>2, <2>1, <2>2 DEF Coming
<1>8. ListedOnce'
  BY <1>1 DEF Inv, ListedOnce
<1> QED
  BY <1>3, <1>4, <1>5, <1>6, <1>7, <1>8

Names(w) == Handled(w) /\ toplevels[w].title \in Titles
Readies(w) == Handled(w) /\ toplevels[w].initialized

\* So does it keep what is expected of the answer, which is not yet taken.
LEMMA TakesQuietly ==
    ASSUME Inv, incoming # <<>>, incoming' = Tail(incoming), UNCHANGED compositor,
           UNCHANGED <<phase, requests, target>>, phase \in {"globals", "windows", "activated"},
           \A v \in Windows : IsOpen(v) /\ (Names(v) \/ Tells(1, v, "details")) => Names(v)',
           \A v \in Windows : IsOpen(v) /\ (Readies(v) \/ Tells(1, v, "done")) => Readies(v)'
    PROVE  Asking' /\ OkMeansRaised' /\ Answer' /\ Complete' /\ ChoosesAmongAll'
<1>1. UNCHANGED <<life, bound, listed, raised>>
  BY DEF compositor
<1>2. /\ 1 \in 1..Len(incoming) /\ Len(incoming) \in Nat
      /\ \A i \in 1..Len(incoming') :
            /\ i + 1 \in 1..Len(incoming)
            /\ IsCallback(i)' <=> IsCallback(i + 1)
            /\ InTime(i + 1) => InTime(i)'
            /\ \A v, kind : Tells(i, v, kind)' <=> Tells(i + 1, v, kind)
      /\ \A j \in 1..Len(incoming) : j # 1 => \E i \in 1..Len(incoming') : j = i + 1
  BY Shifted
<1>3. Asking'
  BY <1>1 DEF Inv, Asking, Carried
<1>4. OkMeansRaised' /\ ChoosesAmongAll'
  BY DEF OkMeansRaised, ChoosesAmongAll
<1>5. Answer'
  <2>1. ASSUME NEW i \in 1..Len(incoming'), NEW j \in 1..Len(incoming'), IsCallback(i)', IsCallback(j)'
        PROVE  i = j
    <3>1. i + 1 = j + 1
      BY <1>2, <2>1 DEF Inv, Answer
    <3> QED
      BY <3>1
  <2>2. requests # <<>> => NoCallback'
    BY <1>2 DEF Inv, Answer, NoCallback
  <2> QED
    BY <2>1, <2>2 DEF Answer
<1>6. ASSUME NEW v \in Windows, NEW kind, NEW j \in 1..Len(incoming), j # 1,
             Tells(j, v, kind), InTime(j)
      PROVE  \E i \in 1..Len(incoming') : Tells(i, v, kind)' /\ InTime(i)'
  <2>1. PICK i \in 1..Len(incoming') : j = i + 1
    BY <1>2, <1>6
  <2> QED
    BY <1>2, <1>6, <2>1
<1>7. ASSUME NEW v \in Windows, IsOpen(v), Named(v)
      PROVE  Named(v)'
  <2>1. CASE Names(v) \/ Tells(1, v, "details")
    BY <1>7, <2>1 DEF Named, Names
  <2>2. CASE \E j \in 1..Len(incoming) : j # 1 /\ Tells(j, v, "details") /\ InTime(j)
    BY <1>6, <2>2 DEF Named
  <2> QED
    BY <1>7, <2>1, <2>2 DEF Named, Names
<1>8. ASSUME NEW v \in Windows, IsOpen(v), Initialized(v)
      PROVE  Initialized(v)'
  <2>1. CASE Readies(v) \/ Tells(1, v, "done")
    BY <1>8, <2>1 DEF Initialized, Readies
  <2>2. CASE \E j \in 1..Len(incoming) : j # 1 /\ Tells(j, v, "done") /\ InTime(j)
    BY <1>6, <2>2 DEF Initialized
  <2> QED
    BY <1>8, <2>1, <2>2 DEF Initialized, Readies
<1>9. Complete'
  BY <1>1, <1>7, <1>8 DEF Inv, Complete, ListedOnce, IsOpen
<1> QED
  BY <1>3, <1>4, <1>5, <1>9

\* The answer to a roundtrip.
LEMMA CallbackKeeps ==
    ASSUME Inv, incoming # <<>>, Head(incoming).kind = "callback", CallbackDone,
           phase \in {"globals", "windows", "activated"},
           incoming' = Tail(incoming), UNCHANGED compositor
    PROVE  Inv'
<1>1. UNCHANGED <<life, title, offered, bound, raised, changed, listed>>
  BY DEF compositor
<1>2. /\ incoming' \in Seq(Events) /\ Len(incoming) \in Nat /\ 1 \in 1..Len(incoming)
      /\ Head(incoming) = incoming[1]
      /\ \A i \in 1..Len(incoming') :
            /\ i + 1 \in 1..Len(incoming) /\ i + 1 > 1
            /\ IsCallback(i)' <=> IsCallback(i + 1)
  BY Shifted
<1>3. IsCallback(1)
  BY <1>2 DEF IsCallback
<1>4. requests = <<>>
  BY <1>2, <1>3 DEF Inv, Answer, NoCallback
<1>5. \A i \in 1..Len(incoming') : ~IsCallback(i)'
  <2> TAKE i \in 1..Len(incoming')
  <2>1. i + 1 # 1
    BY <1>2
  <2> QED
    BY <1>2, <1>3, <2>1 DEF Inv, Answer
<1>6. /\ UNCHANGED <<globals, toplevels, target>>
      /\ \/ phase = "globals" /\ phase' \in {"unsupported", "noSeat"} /\ requests' = <<>>
         \/ phase = "globals" /\ phase' = "windows" /\ requests' = <<"bind", "seat", "sync">>
         \/ phase = "windows" /\ phase' = "choose" /\ requests' = <<>>
         \/ phase = "activated" /\ phase' = "ok" /\ requests' = <<>>
  <2>1. CASE phase = "globals"
    <3>1. CASE "manager" \in globals /\ "seat" \in globals
      <4>1. Interfaces \subseteq globals
        BY <3>1 DEF Interfaces
      <4>2. /\ UNCHANGED <<globals, toplevels, target>> /\ phase' = "windows"
            /\ requests' = requests \o <<"bind", "seat">> \o <<"sync">>
        BY <2>1, <3>1, <4>1 DEF CallbackDone, AfterBind, RoundTrip
      <4> QED
        BY <1>4, <2>1, <4>2, Asked
    <3>2. CASE "manager" \notin globals
      <4>1. ~(Interfaces \subseteq globals)
        BY <3>2 DEF Interfaces
      <4> QED
        BY <1>4, <2>1, <3>2, <4>1 DEF CallbackDone, Returns
    <3>3. CASE "manager" \in globals /\ "seat" \notin globals
      <4>1. ~(Interfaces \subseteq globals)
        BY <3>3 DEF Interfaces
      <4> QED
        BY <1>4, <2>1, <3>3, <4>1 DEF CallbackDone, Returns
    <3> QED
      BY <3>1, <3>2, <3>3
  <2>2. CASE phase = "windows"
    BY <1>4, <2>2 DEF CallbackDone, Returns
  <2>3. CASE phase = "activated"
    BY <1>4, <2>3 DEF CallbackDone, Returns
  <2> QED
    BY <2>1, <2>2, <2>3
<1>7. Untold' /\ OneHandle' /\ InOrder' /\ Living' /\ Reported' /\ ListedOnce'
  <2>1. \A v, kind : kind \in OfWindow => ~Tells(1, v, kind)
    BY <1>3 DEF Tells, Says, IsCallback, OfWindow
  <2>2. Talking
    BY DEF Talking, Final
  <2>3. \A v \in Windows :
           /\ Handled(v)' <=> Handled(v) \/ Tells(1, v, "toplevel")
           /\ Handled(v)' /\ toplevels'[v].closed =>
                 (Handled(v) /\ toplevels[v].closed) \/ Tells(1, v, "closed")
    BY <1>6, <2>1 DEF Handled, OfWindow
  <2> QED
    BY <2>2, <2>3, TakesKeep
<1>8. TypeInv'
  BY <1>1, <1>2, <1>6 DEF Inv, TypeInv, Final
<1>9. Answer'
  BY <1>5 DEF Answer, NoCallback
<1>10. phase # "globals" => bound
  BY <1>4 DEF Inv, Asking
<1>11. phase = "globals" => ~bound
  BY DEF Inv, Asking
<1>12. phase = "activated" => target \in Windows /\ Carried
  BY <1>4 DEF Inv, Asking
<1>13. Asking'
  BY <1>1, <1>6, <1>10, <1>11, <1>12 DEF Asking
<1>14. OkMeansRaised'
  BY <1>1, <1>6, <1>12 DEF OkMeansRaised, Carried
<1>15. Complete'
  <2>1. ~bound => listed = {}
    BY DEF Inv, ListedOnce
  <2> QED
    BY <1>1, <1>6, <1>11, <2>1 DEF Complete
<1>16. ChoosesAmongAll'
  <2> SUFFICES ASSUME phase = "windows", NEW v \in listed, IsOpen(v)
               PROVE  toplevels[v] # Nil /\ toplevels[v].initialized /\ toplevels[v].title \in Titles
    BY <1>1, <1>6 DEF ChoosesAmongAll, IsOpen
  <2>1. Named(v) /\ Initialized(v)
    BY DEF Inv, Complete
  <2>2. \A i \in 1..Len(incoming) : ~InTime(i)
    BY <1>2, <1>3 DEF InTime
  <2> QED
    BY <2>1, <2>2 DEF Named, Initialized, Handled
<1> QED
  BY <1>7, <1>8, <1>9, <1>13, <1>14, <1>15, <1>16 DEF Inv

\* An event that says nothing of windows, and the end of the manager.
LEMMA OtherKeeps ==
    ASSUME Inv, incoming # <<>>, Head(incoming).kind \in {"global", "finished"},
           phase \in {"globals", "windows", "activated"},
           globals' \subseteq Interfaces, UNCHANGED <<toplevels, target, requests>>,
           phase' = phase \/ phase' = "unsupported",
           incoming' = Tail(incoming), UNCHANGED compositor
    PROVE  Inv'
<1>1. UNCHANGED <<life, title, offered, bound, raised, changed, listed>>
  BY DEF compositor
<1>2. /\ incoming' \in Seq(Events) /\ Head(incoming) = incoming[1]
      /\ \A i \in 1..Len(incoming') :
            i + 1 \in 1..Len(incoming) /\ (IsCallback(i)' <=> IsCallback(i + 1))
  BY Shifted
<1>3. \A v, kind : kind \in OfWindow => ~Tells(1, v, kind)
  BY <1>2 DEF Tells, Says, OfWindow
<1>4. Untold' /\ OneHandle' /\ InOrder' /\ Living' /\ Reported' /\ ListedOnce'
  <2>1. Talking
    BY DEF Talking, Final
  <2>2. \A v \in Windows :
           /\ Handled(v)' <=> Handled(v) \/ Tells(1, v, "toplevel")
           /\ Handled(v)' /\ toplevels'[v].closed =>
                 (Handled(v) /\ toplevels[v].closed) \/ Tells(1, v, "closed")
    BY <1>3 DEF Handled, OfWindow
  <2> QED
    BY <2>1, <2>2, TakesKeep
<1>5. TypeInv'
  BY <1>1, <1>2 DEF Inv, TypeInv, Final
<1>6. Asking' /\ OkMeansRaised' /\ Answer' /\ Complete' /\ ChoosesAmongAll'
  <2>1. CASE phase' = phase
    <3>1. \A v \in Windows :
             /\ IsOpen(v) /\ (Names(v) \/ Tells(1, v, "details")) => Names(v)'
             /\ IsOpen(v) /\ (Readies(v) \/ Tells(1, v, "done")) => Readies(v)'
      BY <1>3 DEF Names, Readies, Handled, OfWindow
    <3> QED
      BY <2>1, <3>1, TakesQuietly
  <2>2. CASE phase' = "unsupported"
    <3>1. Asking' /\ OkMeansRaised' /\ Complete' /\ ChoosesAmongAll'
      BY <2>2 DEF Asking, OkMeansRaised, Complete, ChoosesAmongAll
    <3>2. ASSUME NEW i \in 1..Len(incoming'), NEW j \in 1..Len(incoming'), IsCallback(i)', IsCallback(j)'
          PROVE  i = j
      <4>1. i + 1 = j + 1
        BY <1>2, <3>2 DEF Inv, Answer
      <4> QED
        BY <4>1
    <3>3. requests # <<>> => NoCallback'
      BY <1>2 DEF Inv, Answer, NoCallback
    <3> QED
      BY <2>2, <3>1, <3>2, <3>3 DEF Answer
  <2> QED
    BY <2>1, <2>2
<1> QED
  BY <1>4, <1>5, <1>6 DEF Inv

\* An event about one window changes the client's entry for it, as the event says.
LEMMA WindowKeeps ==
    ASSUME Inv, incoming # <<>>, NEW w \in Windows, Head(incoming).w = w,
           Head(incoming).kind \in OfWindow, phase \in {"globals", "windows", "activated"},
           UNCHANGED <<phase, globals, target, requests>>,
           toplevels' \in [Windows -> Toplevel \cup {Nil}],
           \A v \in Windows \ {w} : toplevels'[v] = toplevels[v],
           Handled(w)' <=> Handled(w) \/ Head(incoming).kind = "toplevel",
           Handled(w)' /\ toplevels'[w].closed =>
               (Handled(w) /\ toplevels[w].closed) \/ Head(incoming).kind = "closed",
           IsOpen(w) /\ (Names(w) \/ Head(incoming).kind = "details") => Names(w)',
           IsOpen(w) /\ (Readies(w) \/ Head(incoming).kind = "done") => Readies(w)',
           incoming' = Tail(incoming), UNCHANGED compositor
    PROVE  Inv'
<1>1. UNCHANGED <<life, title, offered, bound, raised, changed, listed>>
  BY DEF compositor
<1>2. incoming' \in Seq(Events) /\ Head(incoming) = incoming[1]
  BY Shifted
<1>3. \A v, kind : Tells(1, v, kind) <=> v = w /\ kind = Head(incoming).kind
  BY <1>2 DEF Tells, Says
<1>4. Untold' /\ OneHandle' /\ InOrder' /\ Living' /\ Reported' /\ ListedOnce'
  <2>1. \A v \in Windows :
           /\ Handled(v)' <=> Handled(v) \/ Tells(1, v, "toplevel")
           /\ Handled(v)' /\ toplevels'[v].closed =>
                 (Handled(v) /\ toplevels[v].closed) \/ Tells(1, v, "closed")
    BY <1>3 DEF Handled
  <2> QED
    BY <2>1, TakesKeep DEF Talking
<1>5. TypeInv'
  BY <1>1, <1>2 DEF Inv, TypeInv
<1>6. Asking' /\ OkMeansRaised' /\ Answer' /\ Complete' /\ ChoosesAmongAll'
  <2>1. \A v \in Windows :
           /\ IsOpen(v) /\ (Names(v) \/ Tells(1, v, "details")) => Names(v)'
           /\ IsOpen(v) /\ (Readies(v) \/ Tells(1, v, "done")) => Readies(v)'
    BY <1>3 DEF Names, Readies, Handled
  <2> QED
    BY <2>1, TakesQuietly
<1> QED
  BY <1>4, <1>5, <1>6 DEF Inv

\* The entry of a window, after an event about it.
LEMMA EntryFacts ==
    ASSUME NEW t \in Toplevel, NEW s \in Titles
    PROVE  /\ [t EXCEPT !.title = s, !.appID = "Alacritty"] \in Toplevel
           /\ [t EXCEPT !.title = s, !.appID = "Alacritty"].title = s
           /\ [t EXCEPT !.title = s, !.appID = "Alacritty"].initialized = t.initialized
           /\ [t EXCEPT !.title = s, !.appID = "Alacritty"].closed = t.closed
           /\ [t EXCEPT !.initialized = TRUE] \in Toplevel
           /\ [t EXCEPT !.initialized = TRUE].title = t.title
           /\ [t EXCEPT !.initialized = TRUE].initialized
           /\ [t EXCEPT !.initialized = TRUE].closed = t.closed
           /\ [t EXCEPT !.closed = TRUE] \in Toplevel
           /\ [t EXCEPT !.closed = TRUE].title = t.title
           /\ [t EXCEPT !.closed = TRUE].initialized = t.initialized
BY DEF Toplevel

\* A window that is open and told of has an entry that is not closed.
LEMMA KnownWhenTold ==
    ASSUME Inv, incoming # <<>>, NEW w \in Windows, Head(incoming).w = w,
           Head(incoming).kind \in {"details", "done", "closed"}, IsOpen(w)
    PROVE  Handled(w) /\ ~toplevels[w].closed
<1>1. 1 \in 1..Len(incoming) /\ Head(incoming) = incoming[1] /\ Len(incoming) \in Nat
  BY Taken DEF Inv, TypeInv
<1>2. Tells(1, w, incoming[1].kind) /\ incoming[1].kind \in {"details", "done", "closed"}
  BY <1>1 DEF Tells, Says
<1>3. Handled(w) \/ \E i \in 1..Len(incoming) : i < 1 /\ Tells(i, w, "toplevel")
  BY <1>1, <1>2 DEF Inv, InOrder
<1>4. \A i \in 1..Len(incoming) : ~(i < 1)
  BY <1>1
<1> QED
  BY <1>3, <1>4 DEF Inv, Living

\* The details, the done or the end of a window.
LEMMA ToplevelEventKeeps ==
    ASSUME WaylandAssumption, Inv, incoming # <<>>, ToplevelEvent(Head(incoming)),
           NEW w \in Windows, Head(incoming).w = w,
           Head(incoming).kind \in {"details", "done", "closed"},
           Head(incoming).kind = "details" => Head(incoming).title \in Titles,
           phase \in {"globals", "windows", "activated"},
           UNCHANGED <<phase, globals, target, requests>>,
           incoming' = Tail(incoming), UNCHANGED compositor
    PROVE  Inv'
<1> DEFINE e == Head(incoming)
           t == toplevels[w]
<1>1. toplevels \in [Windows -> Toplevel \cup {Nil}] /\ Nil \notin Toplevel
  BY DEF Inv, TypeInv, WaylandAssumption
<1>2. IsOpen(w) => Handled(w) /\ ~t.closed
  BY KnownWhenTold
<1>3. e.kind \in OfWindow /\ e.kind # "toplevel"
  BY DEF OfWindow
<1>4. CASE ~Handled(w) \/ t.closed
  <2>1. toplevels' = toplevels
    BY <1>4 DEF ToplevelEvent, Handled
  <2>2. ~IsOpen(w)
    BY <1>2, <1>4
  <2> QED
    BY <1>1, <1>3, <2>1, <2>2, WindowKeeps DEF Handled
<1>5. CASE Handled(w) /\ ~t.closed
  <2>1. t \in Toplevel
    BY <1>1, <1>5 DEF Handled
  <2>2. /\ e.kind = "details" =>
              toplevels' = [toplevels EXCEPT ![w] = [t EXCEPT !.title = e.title, !.appID = "Alacritty"]]
        /\ e.kind = "done" => toplevels' = [toplevels EXCEPT ![w] = [t EXCEPT !.initialized = TRUE]]
        /\ e.kind = "closed" => toplevels' = [toplevels EXCEPT ![w] = [t EXCEPT !.closed = TRUE]]
    BY <1>5 DEF ToplevelEvent, Updates, Handled
  <2> DEFINE r == toplevels'[w]
  <2>3. \E u \in Toplevel :
           /\ toplevels' = [toplevels EXCEPT ![w] = u]
           /\ e.kind = "details" => u.title = e.title /\ u.initialized = t.initialized
                                    /\ u.closed = t.closed
           /\ e.kind = "done" => u.title = t.title /\ u.initialized /\ u.closed = t.closed
           /\ e.kind = "closed" => u.title = t.title /\ u.initialized = t.initialized
    <3> Requested \in Titles
      BY DEF WaylandAssumption
    <3>1. CASE e.kind = "details"
      <4> DEFINE u == [t EXCEPT !.title = e.title, !.appID = "Alacritty"]
      <4>1. /\ u \in Toplevel /\ u.title = e.title /\ u.initialized = t.initialized
            /\ u.closed = t.closed
        BY <2>1, <3>1, EntryFacts
      <4>2. toplevels' = [toplevels EXCEPT ![w] = u]
        BY <2>2, <3>1
      <4> HIDE DEF u
      <4> QED
        BY <3>1, <4>1, <4>2
    <3>2. CASE e.kind = "done"
      <4> DEFINE u == [t EXCEPT !.initialized = TRUE]
      <4>1. u \in Toplevel /\ u.title = t.title /\ u.initialized /\ u.closed = t.closed
        BY <2>1, EntryFacts
      <4>2. toplevels' = [toplevels EXCEPT ![w] = u]
        BY <2>2, <3>2
      <4> HIDE DEF u
      <4> QED
        BY <3>2, <4>1, <4>2
    <3>3. CASE e.kind = "closed"
      <4> DEFINE u == [t EXCEPT !.closed = TRUE]
      <4>1. u \in Toplevel /\ u.title = t.title /\ u.initialized = t.initialized
        BY <2>1, EntryFacts
      <4>2. toplevels' = [toplevels EXCEPT ![w] = u]
        BY <2>2, <3>3
      <4> HIDE DEF u
      <4> QED
        BY <3>3, <4>1, <4>2
    <3> QED
      BY <3>1, <3>2, <3>3
  <2>4. /\ toplevels' \in [Windows -> Toplevel \cup {Nil}] /\ r \in Toplevel
        /\ \A v \in Windows \ {w} : toplevels'[v] = toplevels[v]
        /\ e.kind = "details" => r.title = e.title /\ r.initialized = t.initialized
                                 /\ r.closed = t.closed
        /\ e.kind = "done" => r.title = t.title /\ r.initialized /\ r.closed = t.closed
        /\ e.kind = "closed" => r.title = t.title /\ r.initialized = t.initialized
    BY <1>1, <2>3
  <2>5. Handled(w)'
    BY <1>1, <2>4 DEF Handled
  <2>6. r.closed => t.closed \/ e.kind = "closed"
    BY <2>4
  <2>7. IsOpen(w) /\ (Names(w) \/ e.kind = "details") => Names(w)'
    BY <2>4, <2>5 DEF Names
  <2>8. IsOpen(w) /\ (Readies(w) \/ e.kind = "done") => Readies(w)'
    BY <2>4, <2>5 DEF Readies
  <2> QED
    BY <1>3, <1>5, <2>4, <2>5, <2>6, <2>7, <2>8, WindowKeeps
<1> QED
  BY <1>4, <1>5

\* The client is given a handle.
LEMMA NewToplevelKeeps ==
    ASSUME WaylandAssumption, Inv, incoming # <<>>, NEW w \in Windows, Head(incoming).w = w,
           Head(incoming).kind = "toplevel", Updates(w, NewToplevel),
           phase \in {"globals", "windows", "activated"},
           UNCHANGED <<phase, globals, target, requests>>,
           incoming' = Tail(incoming), UNCHANGED compositor
    PROVE  Inv'
<1>1. toplevels \in [Windows -> Toplevel \cup {Nil}] /\ Nil \notin Toplevel
  BY DEF Inv, TypeInv, WaylandAssumption
<1>2. NewToplevel \in Toplevel /\ ~NewToplevel.closed
  BY DEF NewToplevel, Toplevel
<1>3. toplevels' = [toplevels EXCEPT ![w] = NewToplevel]
  BY DEF Updates
<1>4. /\ toplevels' \in [Windows -> Toplevel \cup {Nil}] /\ toplevels'[w] = NewToplevel
      /\ \A v \in Windows \ {w} : toplevels'[v] = toplevels[v]
  BY <1>1, <1>2, <1>3
<1>5. Handled(w)' /\ ~toplevels'[w].closed
  BY <1>1, <1>2, <1>4 DEF Handled
<1>6. ~Handled(w)
  <2>1. 1 \in 1..Len(incoming) /\ Head(incoming) = incoming[1]
    BY Taken DEF Inv, TypeInv
  <2> QED
    BY <2>1 DEF Inv, OneHandle, Tells, Says
<1>7. ~Names(w) /\ ~Readies(w)
  BY <1>6 DEF Names, Readies
<1>8. Head(incoming).kind \in OfWindow
  BY DEF OfWindow
<1> QED
  BY <1>4, <1>5, <1>7, <1>8, WindowKeeps

\* Every event is one of those above.
LEMMA DispatchKeeps ==
    ASSUME WaylandAssumption, Inv, Dispatch
    PROVE  Inv'
<1> DEFINE e == Head(incoming)
<1>1. /\ phase \in {"globals", "windows", "activated"} /\ incoming # <<>>
      /\ incoming' = Tail(incoming) /\ UNCHANGED compositor
      /\ \/ e.kind = "callback" /\ CallbackDone
         \/ e.kind = "finished" /\ Returns("unsupported")
         \/ /\ e.kind = "global" /\ globals' = globals \cup {e.w}
            /\ UNCHANGED <<phase, toplevels, target, requests>>
         \/ /\ e.kind = "toplevel" /\ Updates(e.w, NewToplevel)
            /\ UNCHANGED <<phase, globals, target, requests>>
         \/ /\ e.kind \in {"details", "done", "closed"} /\ ToplevelEvent(e)
            /\ UNCHANGED <<phase, globals, target, requests>>
  BY Zenon DEF Dispatch
<1>2. e \in Events
  BY <1>1, Taken DEF Inv, TypeInv
<1>3. /\ e.kind = "global" => e.w \in Interfaces
      /\ e.kind \in OfWindow => e.w \in Windows
      /\ e.kind = "details" => e.title \in Titles
  BY <1>2 DEF Events, OfWindow
<1> HIDE DEF e
<1>4. CASE e.kind = "callback" /\ CallbackDone
  BY <1>1, <1>4, CallbackKeeps DEF e
<1>5. CASE e.kind = "finished" /\ Returns("unsupported")
  <2>1. globals' \subseteq Interfaces
    BY <1>5 DEF Returns, Inv, TypeInv
  <2> QED
    BY <1>1, <1>5, <2>1, OtherKeeps DEF Returns, e
<1>6. CASE /\ e.kind = "global" /\ globals' = globals \cup {e.w}
           /\ UNCHANGED <<phase, toplevels, target, requests>>
  <2>1. globals' \subseteq Interfaces
    BY <1>3, <1>6 DEF Inv, TypeInv
  <2> QED
    BY <1>1, <1>6, <2>1, OtherKeeps DEF e
<1>7. CASE /\ e.kind = "toplevel" /\ Updates(e.w, NewToplevel)
           /\ UNCHANGED <<phase, globals, target, requests>>
  <2>1. e.w \in Windows
    BY <1>3, <1>7 DEF OfWindow
  <2> QED
    BY <1>1, <1>7, <2>1, NewToplevelKeeps DEF e
<1>8. CASE /\ e.kind \in {"details", "done", "closed"} /\ ToplevelEvent(e)
           /\ UNCHANGED <<phase, globals, target, requests>>
  <2>1. e.w \in Windows
    BY <1>3, <1>8 DEF OfWindow
  <2> QED
    BY <1>1, <1>3, <1>8, <2>1, ToplevelEventKeeps DEF e
<1> QED
  BY <1>1, <1>4, <1>5, <1>6, <1>7, <1>8

-----------------------------------------------------------------------------
(* The invariant.                                                          *)

\* A compositor may lack an interface from the start.
LEMMA LacksKeeps ==
    ASSUME Inv, NEW i \in Interfaces, Lacks(i)
    PROVE  Inv'
<1>1. offered' = offered \ {i} /\ UNCHANGED <<client, requests, incoming, life, title, bound, raised, changed, listed>>
  BY DEF Lacks
<1>2. UNCHANGED <<phase, globals, toplevels, target>>
  BY <1>1 DEF client
<1>3. TypeInv'
  BY <1>1, <1>2 DEF Inv, TypeInv
<1>4. Asking' /\ OkMeansRaised' /\ Answer'
  BY <1>1, <1>2 DEF Inv, Asking, Carried, OkMeansRaised, Answer, NoCallback, IsCallback
<1>5. Untold' /\ OneHandle' /\ InOrder' /\ Living'
  BY <1>1, <1>2 DEF Inv, Untold, OneHandle, InOrder, Living, Handled, Tells, Says, IsOpen
<1>6. Reported' /\ ListedOnce'
  BY <1>1, <1>2 DEF Inv, Reported, ListedOnce, Talking, Handled, Coming, Tells, Says, IsOpen
<1>7. Complete' /\ ChoosesAmongAll'
  BY <1>1, <1>2 DEF Inv, Complete, ChoosesAmongAll, Named, Initialized, InTime, IsCallback,
                    Handled, Tells, Says, IsOpen
<1> QED
  BY <1>3, <1>4, <1>5, <1>6, <1>7 DEF Inv

\* The connection begins with nothing known and nothing asked.
LEMMA InitInv ==
    ASSUME WaylandAssumption, WaylandInit
    PROVE  Inv
<1>1. TypeInv
  <2>1. 0 \in 0..MaxWindowChanges
    BY DEF WaylandAssumption
  <2>2. incoming \in Seq(Events)
    BY DEF WaylandInit
  <2>3. Requested \in Titles
    BY DEF WaylandAssumption
  <2> QED
    BY <2>1, <2>2, <2>3 DEF WaylandInit, TypeInv
<1>2. Len(incoming) = 0 /\ \A w \in Windows : life[w] = "unborn" /\ toplevels[w] = Nil
  BY DEF WaylandInit
<1>3. Asking /\ OkMeansRaised /\ Answer /\ Complete /\ ChoosesAmongAll /\ ListedOnce
  BY <1>2 DEF WaylandInit, Asking, OkMeansRaised, Answer, NoCallback, Complete, ChoosesAmongAll, ListedOnce
<1>4. Untold /\ OneHandle /\ InOrder /\ Living /\ Reported
  BY <1>2 DEF WaylandInit, Untold, OneHandle, InOrder, Living, Reported, Handled, IsOpen
<1> QED
  BY <1>1, <1>3, <1>4 DEF Inv

\* Every step keeps the invariant.
LEMMA NextKeepsInv ==
    ASSUME WaylandAssumption, Inv, [WaylandNext]_waylandVars
    PROVE  Inv'
<1>1. CASE Client
  BY <1>1, DialKeeps, ChooseKeeps, DispatchKeeps, ReadFailsKeeps DEF Client
<1>2. CASE ServeRequest
  BY <1>2, ServeKeeps
<1>3. CASE Finishes
  BY <1>3, FinishesKeeps
<1>4. ASSUME NEW w \in Windows, Idle(w) \/ Closes(w) \/ \E t \in Titles : Opens(w, t) \/ Retitles(w, t)
      PROVE  Inv'
  BY <1>4, IdleKeeps, ClosesKeeps, OpensKeeps, RetitlesKeeps
<1>5. ASSUME NEW i \in Interfaces, Lacks(i)
      PROVE  Inv'
  BY <1>5, LacksKeeps
<1>6. CASE UNCHANGED waylandVars
  <2>1. UNCHANGED <<client, requests, incoming, compositor>> /\ UNCHANGED <<phase, globals, toplevels, target>>
        /\ UNCHANGED <<life, title, offered, bound, raised, changed, listed>>
    BY <1>6 DEF waylandVars, client, compositor
  <2>2. TypeInv' /\ Asking' /\ OkMeansRaised' /\ Answer'
    BY <2>1 DEF Inv, TypeInv, Asking, Carried, OkMeansRaised, Answer, NoCallback, IsCallback
  <2>3. Untold' /\ OneHandle' /\ InOrder' /\ Living' /\ Reported' /\ ListedOnce'
    BY <2>1, MovesKeep DEF Talking
  <2>4. Complete' /\ ChoosesAmongAll'
    BY <2>1 DEF Inv, Complete, ChoosesAmongAll, Named, Initialized, InTime, IsCallback,
                Handled, Tells, Says, IsOpen
  <2> QED
    BY <2>2, <2>3, <2>4 DEF Inv
<1> QED
  BY <1>1, <1>2, <1>3, <1>4, <1>5, <1>6 DEF WaylandNext

\* The invariant that the theorems follow from.
LEMMA Invariant == WaylandAssumption => (WaylandSpec => []Inv)
<1> SUFFICES ASSUME WaylandAssumption PROVE WaylandSpec => []Inv
  OBVIOUS
<1>1. WaylandInit => Inv
  BY InitInv
<1>2. Inv /\ [WaylandNext]_waylandVars => Inv'
  BY NextKeepsInv
<1> QED
  BY <1>1, <1>2, PTL DEF WaylandSpec

\* The client's fields, its map and the windows keep their types.
THEOREM TypeCorrect == WaylandAssumption => (WaylandSpec => []WaylandTypeOK)
<1> SUFFICES ASSUME WaylandAssumption PROVE WaylandSpec => []WaylandTypeOK
  OBVIOUS
<1>1. Inv => WaylandTypeOK
  BY DEF Inv, TypeInv, WaylandTypeOK
<1> QED
  BY <1>1, Invariant, PTL

\* A focus that reports success has raised its window, unless the window closed before
\* the compositor came to it: nothing between the activation and its answer is lost.
THEOREM SuccessMeansRaised == WaylandAssumption => (WaylandSpec => []OkMeansRaised)
<1> SUFFICES ASSUME WaylandAssumption PROVE WaylandSpec => []OkMeansRaised
  OBVIOUS
<1>1. Inv => OkMeansRaised
  BY DEF Inv
<1> QED
  BY <1>1, Invariant, PTL

\* The client chooses when it knows every window that the compositor listed and that is
\* still open, each with its title and complete (initialize waits for the roundtrip).
THEOREM ChoosesAmongEvery == WaylandAssumption => (WaylandSpec => []ChoosesAmongAll)
<1> SUFFICES ASSUME WaylandAssumption PROVE WaylandSpec => []ChoosesAmongAll
  OBVIOUS
<1>1. Inv => ChoosesAmongAll
  BY DEF Inv
<1> QED
  BY <1>1, Invariant, PTL

=============================================================================
