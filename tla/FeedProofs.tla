----------------------------- MODULE FeedProofs -----------------------------
(***************************************************************************)
(* Feed for any windows, apps and bounds: TypeOK, TableFollows and         *)
(* OwnerKnown.                                                             *)
(*                                                                         *)
(* The table follows because, while there is a stream, the events that are *)
(* still on their way decide everything the table has wrong: for each      *)
(* window the last of them that says something of it says what is so, and  *)
(* where none does the table has it right already.  No event needs to be   *)
(* true when it is handled, which is what the bootstrap fetch (it          *)
(* overtakes events) and a lost stream require.  Nothing is claimed of the *)
(* focus of windows that lost it by an upsert alone (marked), nor of the   *)
(* app of those the GUI's app_id took over (taken).                        *)
(***************************************************************************)
EXTENDS Feed, SequenceTheorems, TLAPS

(* What is on its way to the main loop.                                    *)
OneFocus == {t \in Table : /\ \A w \in Windows : t[w].app = NoApp => ~t[w].focused
                           /\ \A v, w \in Windows : t[v].focused /\ t[w].focused => v = w}

Snapshots == [kind : {"Snapshot"}, table : OneFocus]
Upserts   == [kind : {"Upsert"}, id : Windows, window : [app : Apps, focused : BOOLEAN]]
Closings  == [kind : {"Closed"}, id : Windows]
Focusings == [kind : {"Focus"}, id : Windows \cup {NoWindow}]
Endings   == [kind : {"StreamLost"}]
Events    == Snapshots \cup Upserts \cup Closings \cup Focusings \cup Endings

(* The events that say which app a window is of, or whether it has the     *)
(* focus; those that set focused_id; those that close a window.            *)
SaysApp(w) == {e \in Events : \/ e.kind = "Snapshot"
                              \/ e.kind = "Closed" /\ e.id = w
                              \/ e.kind = "Upsert" /\ e.id = w /\ e.window.app # SelfApp}
SaysFocus(w) == {e \in Events : \/ e.kind \in {"Snapshot", "Focus"}
                                \/ e.kind = "Upsert" /\ e.id = w /\ e.window.app # SelfApp}
SaysId == {e \in Events : \/ e.kind \in {"Snapshot", "Focus"}
                          \/ e.kind = "Upsert" /\ e.window.app # SelfApp}
Closes(w) == {e \in Events : e.kind = "Closed" /\ e.id = w}

(* Those that say that window w is of app a, or that f is the focus.       *)
AppIs(w, a) == {e \in Events : /\ e.kind = "Snapshot" => WithoutSelf(e.table)[w].app = a
                               /\ e.kind = "Closed" => a = NoApp
                               /\ e.kind = "Upsert" => e.window.app = a}
FocusIs(w, f) == {e \in Events : /\ e.kind = "Snapshot" => (e.table[w].focused <=> f = w)
                                 /\ e.kind = "Focus" => (e.id = w <=> f = w)
                                 /\ e.kind = "Upsert" => (e.window.focused <=> f = w)}

(* No element of q is in D; the last one in D is in G; after every one in  *)
(* C there comes one in D.                                                 *)
Without(q, D)    == \A i \in 1 .. Len(q) : q[i] \notin D
Ends(q, D, G)    == \A i \in 1 .. Len(q) :
                        q[i] \in D => q[i] \in G \/ \E j \in i + 1 .. Len(q) : q[j] \in D
Follows(q, C, D) == \A i \in 1 .. Len(q) :
                        q[i] \in C => \E j \in i + 1 .. Len(q) : q[j] \in D

(* The app of a window as the daemon is to see it.                         *)
AppOf(w) == IF comp.app[w] = SelfApp THEN NoApp ELSE comp.app[w]

AppArrives(w) ==
    w \notin taken =>
        /\ Ends(events, SaysApp(w), AppIs(w, AppOf(w)))
        /\ Without(events, SaysApp(w)) => daemon.booted /\ daemon.windows[w].app = AppOf(w)

(* The windows of which the events tell whether they have the focus: not   *)
(* the GUI's, nor those that lost it by an upsert alone.                   *)
Judged(w) == IF comp.focus = w THEN comp.app[w] # SelfApp ELSE w \notin marked

FocusArrives(w) ==
    Judged(w) =>
        /\ Ends(events, SaysFocus(w), FocusIs(w, comp.focus))
        /\ comp.focus = w => Follows(events, Closes(w), SaysFocus(w))
        /\ Without(events, SaysFocus(w)) =>
             /\ daemon.booted
             /\ daemon.windows[w].focused <=> comp.focus = w

IdArrives ==
    marked = {} /\ Without(events, SaysId) =>
        /\ daemon.booted
        /\ \A w \in Windows : daemon.windows[w].focused => daemon.focused_id = w

Arrives ==
    stream = "up" => /\ \A w \in Windows : AppArrives(w) /\ FocusArrives(w)
                     /\ IdArrives

(* Every variable has its type; closed windows have no focus, in the       *)
(* compositor and in the table; and focused_id is the window with the      *)
(* focus or one that was closed.                                           *)
Comps   == [app : [Windows -> Apps \cup {NoApp}], focus : Windows \cup {NoWindow},
            owner : Apps \cup {NoApp}]
Daemons == [booted : BOOLEAN, windows : Table, focused_id : Windows \cup {NoWindow},
            clipboard_owner : Apps \cup {NoApp}]

FocusOpen(c) == c.focus # NoWindow => c.app[c.focus] # NoApp
Tidy(d) ==
    /\ \A w \in Windows : d.windows[w].app = NoApp => ~d.windows[w].focused
    /\ d.focused_id # NoWindow =>
          d.windows[d.focused_id].focused \/ d.windows[d.focused_id].app = NoApp

FeedType ==
    /\ comp \in Comps /\ FocusOpen(comp)
    /\ stream \in {"up", "ended", "failed"} /\ watcher \in {"listening", "down", "deaf"}
    /\ events \in Seq(Events)
    /\ clips \in Seq({"OwnerChanged", "Cleared"})
    /\ daemon \in Daemons /\ Tidy(daemon)
    /\ marked \subseteq Windows /\ taken \subseteq Windows
    /\ \A w \in taken : comp.app[w] = SelfApp
    /\ known \in BOOLEAN

(* The daemon knows the focus, and what is on its way does not change it.  *)
KnowsFocus ==
    /\ daemon.windows[comp.focus].app = AppOf(comp.focus)
    /\ daemon.windows[comp.focus].focused <=> comp.app[comp.focus] # SelfApp
    /\ \A w \in Windows : daemon.windows[w].focused => comp.focus = w /\ daemon.focused_id = w

CaughtUp ==
    /\ daemon.booted
    /\ comp.focus # NoWindow /\ KnowsFocus
    /\ \A i \in 1 .. Len(events) :
          \/ events[i].kind = "StreamLost"
          \/ events[i].kind = "Snapshot" /\ events[i].table = Reported(comp)

(* What is known of a copy before the daemon looks: the selection was      *)
(* cleared since, or nothing has changed.                                  *)
CopyArrives ==
    known /\ clips # <<>> =>
        \/ clips[Len(clips)] = "Cleared" /\ comp.owner = NoApp
        \/ /\ clips = <<"OwnerChanged">> /\ CaughtUp
           /\ comp.owner = comp.app[comp.focus]

FeedInv == FeedType /\ Arrives /\ CopyArrives /\ OwnerKnown

-----------------------------------------------------------------------------
(* Sequences of which the last elements of a kind matter.                  *)

LEMMA TailKeeps ==
    ASSUME NEW S, NEW q \in Seq(S), q # <<>>, NEW C, NEW D, NEW G
    PROVE  /\ Ends(q, D, G) => Ends(Tail(q), D, G)
           /\ Follows(q, C, D) => Follows(Tail(q), C, D)
           /\ Ends(q, D, G) /\ Without(Tail(q), D) /\ Head(q) \in D => Head(q) \in G
           /\ Without(Tail(q), D) /\ Head(q) \notin D => Without(q, D)
           /\ Follows(q, C, D) /\ Without(Tail(q), D) => Without(q, C)
<1> DEFINE n == Len(q)
<1>1. /\ n \in Nat \ {0} /\ Len(Tail(q)) = n - 1 /\ Head(q) = q[1]
      /\ \A i \in 1 .. n - 1 : Tail(q)[i] = q[i + 1]
  BY EmptySeq, HeadTailProperties
<1>2. \A i \in 1 .. n : i = 1 \/ (i - 1 \in 1 .. n - 1 /\ q[i] = Tail(q)[i - 1])
  <2> SUFFICES ASSUME NEW i \in 1 .. n, i # 1
               PROVE  i - 1 \in 1 .. n - 1 /\ q[i] = Tail(q)[i - 1]
    OBVIOUS
  <2>1. i - 1 \in 1 .. n - 1 /\ (i - 1) + 1 = i
    BY <1>1
  <2>2. Tail(q)[i - 1] = q[(i - 1) + 1]
    BY <1>1, <2>1
  <2>3. QED BY <2>1, <2>2
<1>3. \A i \in 1 .. n - 1 : \A j \in (i + 1) + 1 .. n :
          j - 1 \in i + 1 .. n - 1 /\ q[j] = Tail(q)[j - 1]
  BY <1>1, <1>2
<1>4. ASSUME Ends(q, D, G) PROVE Ends(Tail(q), D, G)
  <2> SUFFICES ASSUME NEW i \in 1 .. n - 1, Tail(q)[i] \in D, Tail(q)[i] \notin G
               PROVE  \E j \in i + 1 .. n - 1 : Tail(q)[j] \in D
    BY <1>1 DEF Ends
  <2>1. i + 1 \in 1 .. n /\ q[i + 1] \in D /\ q[i + 1] \notin G
    BY <1>1
  <2>2. PICK j \in (i + 1) + 1 .. n : q[j] \in D
    BY <1>4, <2>1 DEF Ends
  <2>3. QED BY <2>2, <1>3
<1>5. ASSUME Follows(q, C, D) PROVE Follows(Tail(q), C, D)
  <2> SUFFICES ASSUME NEW i \in 1 .. n - 1, Tail(q)[i] \in C
               PROVE  \E j \in i + 1 .. n - 1 : Tail(q)[j] \in D
    BY <1>1 DEF Follows
  <2>1. i + 1 \in 1 .. n /\ q[i + 1] \in C
    BY <1>1
  <2>2. PICK j \in (i + 1) + 1 .. n : q[j] \in D
    BY <1>5, <2>1 DEF Follows
  <2>3. QED BY <2>2, <1>3
<1>6. ASSUME Without(Tail(q), D), NEW i \in 2 .. n PROVE q[i] \notin D
  BY <1>1, <1>2, <1>6 DEF Without
<1>7. ASSUME Ends(q, D, G), Without(Tail(q), D), Head(q) \in D PROVE Head(q) \in G
  BY <1>1, <1>6, <1>7 DEF Ends
<1>8. ASSUME Without(Tail(q), D), Head(q) \notin D PROVE Without(q, D)
  BY <1>1, <1>6, <1>8 DEF Without
<1>9. ASSUME Follows(q, C, D), Without(Tail(q), D) PROVE Without(q, C)
  <2> SUFFICES ASSUME NEW i \in 1 .. n, q[i] \in C PROVE FALSE
    BY DEF Without
  <2>1. PICK j \in i + 1 .. n : q[j] \in D
    BY <1>9 DEF Follows
  <2>2. j \in 2 .. n
    BY <1>1
  <2>3. QED BY <2>1, <2>2, <1>6, <1>9
<1>10. QED BY <1>4, <1>5, <1>7, <1>8, <1>9

LEMMA ConcatKeeps ==
    ASSUME NEW S, NEW q \in Seq(S), NEW r \in Seq(S), NEW C, NEW D, NEW G
    PROVE  /\ Ends(q, D, G) /\ Ends(r, D, G) => Ends(q \o r, D, G)
           /\ Follows(q, C, D) /\ Follows(r, C, D) => Follows(q \o r, C, D)
           /\ ~Without(r, D) /\ Ends(r, D, G) => Ends(q \o r, D, G)
           /\ ~Without(r, D) /\ Follows(r, C, D) => Follows(q \o r, C, D)
           /\ Without(q \o r, D) => Without(q, D) /\ Without(r, D)
<1> DEFINE n == Len(q)
           m == Len(r)
<1>1. n \in Nat /\ m \in Nat /\ Len(q \o r) = n + m
  BY ConcatProperties, LenProperties
<1>2. /\ \A i \in 1 .. n : i \in 1 .. n + m /\ (q \o r)[i] = q[i]
      /\ \A i \in 1 .. m : n + i \in 1 .. n + m /\ (q \o r)[n + i] = r[i]
  <2>1. \A i \in 1 .. n + m : (q \o r)[i] = IF i <= n THEN q[i] ELSE r[i - n]
    BY ConcatProperties
  <2>2. ASSUME NEW i \in 1 .. n PROVE i \in 1 .. n + m /\ (q \o r)[i] = q[i]
    BY <1>1, <2>1
  <2>3. ASSUME NEW i \in 1 .. m PROVE n + i \in 1 .. n + m /\ (q \o r)[n + i] = r[i]
    <3>1. n + i \in 1 .. n + m /\ ~(n + i <= n) /\ (n + i) - n = i
      BY <1>1
    <3>2. QED BY <3>1, <2>1
  <2>4. QED BY <2>2, <2>3
<1>3. \A i \in 1 .. n + m : i \in 1 .. n \/ \E k \in 1 .. m : i = n + k
  <2> SUFFICES ASSUME NEW i \in 1 .. n + m, i \notin 1 .. n
               PROVE  \E k \in 1 .. m : i = n + k
    OBVIOUS
  <2>1. i - n \in 1 .. m /\ i = n + (i - n)
    BY <1>1
  <2>2. QED BY <2>1
<1>4. \A i \in 1 .. n : \A j \in i + 1 .. n : j \in i + 1 .. n + m /\ (q \o r)[j] = q[j]
  BY <1>1, <1>2
<1>5. \A i \in 1 .. n : \A j \in 1 .. m : n + j \in i + 1 .. n + m /\ (q \o r)[n + j] = r[j]
  BY <1>1, <1>2
<1>6. \A i \in 1 .. m : \A j \in i + 1 .. m :
          n + j \in (n + i) + 1 .. n + m /\ (q \o r)[n + j] = r[j]
  BY <1>1, <1>2
<1>7. ASSUME Ends(r, D, G), NEW i \in 1 .. m, r[i] \in D, r[i] \notin G
      PROVE  \E j \in (n + i) + 1 .. n + m : (q \o r)[j] \in D
  BY <1>6, <1>7 DEF Ends
<1>8. ASSUME Follows(r, C, D), NEW i \in 1 .. m, r[i] \in C
      PROVE  \E j \in (n + i) + 1 .. n + m : (q \o r)[j] \in D
  BY <1>6, <1>8 DEF Follows
<1>9. ASSUME Ends(r, D, G),
             \A i \in 1 .. n : q[i] \in D /\ q[i] \notin G =>
                                   \E j \in i + 1 .. n + m : (q \o r)[j] \in D
      PROVE  Ends(q \o r, D, G)
  <2> SUFFICES ASSUME NEW i \in 1 .. n + m, (q \o r)[i] \in D, (q \o r)[i] \notin G
               PROVE  \E j \in i + 1 .. n + m : (q \o r)[j] \in D
    BY <1>1 DEF Ends
  <2>1. CASE i \in 1 .. n
    BY <2>1, <1>2, <1>9
  <2>2. ASSUME NEW k \in 1 .. m, i = n + k PROVE \E j \in i + 1 .. n + m : (q \o r)[j] \in D
    BY <2>2, <1>2, <1>7, <1>9
  <2>3. QED BY <2>1, <2>2, <1>3
<1>10. ASSUME Follows(r, C, D),
              \A i \in 1 .. n : q[i] \in C => \E j \in i + 1 .. n + m : (q \o r)[j] \in D
       PROVE  Follows(q \o r, C, D)
  <2> SUFFICES ASSUME NEW i \in 1 .. n + m, (q \o r)[i] \in C
               PROVE  \E j \in i + 1 .. n + m : (q \o r)[j] \in D
    BY <1>1 DEF Follows
  <2>1. CASE i \in 1 .. n
    BY <2>1, <1>2, <1>10
  <2>2. ASSUME NEW k \in 1 .. m, i = n + k PROVE \E j \in i + 1 .. n + m : (q \o r)[j] \in D
    BY <2>2, <1>2, <1>8, <1>10
  <2>3. QED BY <2>1, <2>2, <1>3
<1>11. ASSUME Ends(q, D, G), Ends(r, D, G) PROVE Ends(q \o r, D, G)
  <2>1. ASSUME NEW i \in 1 .. n, q[i] \in D, q[i] \notin G
        PROVE  \E j \in i + 1 .. n + m : (q \o r)[j] \in D
    <3>1. PICK j \in i + 1 .. n : q[j] \in D
      BY <1>11, <2>1 DEF Ends
    <3>2. QED BY <3>1, <1>4
  <2>2. QED BY <2>1, <1>9, <1>11
<1>12. ASSUME Follows(q, C, D), Follows(r, C, D) PROVE Follows(q \o r, C, D)
  <2>1. ASSUME NEW i \in 1 .. n, q[i] \in C
        PROVE  \E j \in i + 1 .. n + m : (q \o r)[j] \in D
    <3>1. PICK j \in i + 1 .. n : q[j] \in D
      BY <1>12, <2>1 DEF Follows
    <3>2. QED BY <3>1, <1>4
  <2>2. QED BY <2>1, <1>10, <1>12
<1>13. ASSUME ~Without(r, D), NEW i \in 1 .. n
       PROVE  \E j \in i + 1 .. n + m : (q \o r)[j] \in D
  BY <1>5, <1>13 DEF Without
<1>14. ASSUME ~Without(r, D), Ends(r, D, G) PROVE Ends(q \o r, D, G)
  BY <1>13, <1>9, <1>14
<1>15. ASSUME ~Without(r, D), Follows(r, C, D) PROVE Follows(q \o r, C, D)
  BY <1>13, <1>10, <1>15
<1>16. ASSUME Without(q \o r, D) PROVE Without(q, D) /\ Without(r, D)
  BY <1>1, <1>2, <1>16 DEF Without
<1>17. QED BY <1>11, <1>12, <1>14, <1>15, <1>16

(* One event, and two.                                                     *)
LEMMA OneEvent ==
    ASSUME NEW S, NEW e \in S, NEW C, NEW D, NEW G
    PROVE  /\ <<e>> \in Seq(S)
           /\ Without(<<e>>, D) <=> e \notin D
           /\ Ends(<<e>>, D, G) <=> (e \in D => e \in G)
           /\ Follows(<<e>>, C, D) <=> e \notin C
<1>1. <<e>> \in Seq(S) /\ Len(<<e>>) = 1 /\ <<e>>[1] = e
  OBVIOUS
<1>2. 1 .. 1 = {1} /\ 1 + 1 .. 1 = {}
  OBVIOUS
<1>3. QED BY <1>1, <1>2 DEF Without, Ends, Follows

LEMMA TwoInRow ==
    ASSUME NEW S, NEW e \in S, NEW f \in S
    PROVE  <<e, f>> \in Seq(S) /\ <<e, f>> = <<e>> \o <<f>>
<1>1. <<e, f>> \in Seq(S) /\ Len(<<e, f>>) = 2 /\ <<e, f>>[1] = e /\ <<e, f>>[2] = f
  OBVIOUS
<1>2. 1 .. 2 = {1, 2}
  OBVIOUS
<1>3. <<e>> \in Seq(S) /\ <<f>> \in Seq(S) /\ Len(<<e>>) = 1 /\ Len(<<f>>) = 1
  OBVIOUS
<1>4. <<e>> \o <<f>> \in Seq(S) /\ Len(<<e>> \o <<f>>) = 2
  BY <1>3, ConcatProperties
<1>5. (<<e>> \o <<f>>)[1] = <<e>>[1] /\ (<<e>> \o <<f>>)[2] = <<f>>[2 - 1]
  BY <1>3, ConcatProperties
<1>6. \A i \in 1 .. 2 : <<e, f>>[i] = (<<e>> \o <<f>>)[i]
  BY <1>1, <1>2, <1>5
<1>7. QED BY <1>1, <1>4, <1>6, SeqEqual

LEMMA TwoEvents ==
    ASSUME NEW e, NEW f, NEW C, NEW D, NEW G
    PROVE  /\ Without(<<e, f>>, D) => e \notin D /\ f \notin D
           /\ f \in D /\ f \in G => Ends(<<e, f>>, D, G)
           /\ f \notin D /\ (e \in D => e \in G) => Ends(<<e, f>>, D, G)
           /\ f \notin C /\ f \in D => Follows(<<e, f>>, C, D)
           /\ e \notin C /\ f \notin C => Follows(<<e, f>>, C, D)
<1>1. Len(<<e, f>>) = 2 /\ <<e, f>>[1] = e /\ <<e, f>>[2] = f
  OBVIOUS
<1>2. 1 .. 2 = {1, 2} /\ 1 + 1 .. 2 = {2} /\ 2 + 1 .. 2 = {}
  OBVIOUS
<1>3. Without(<<e, f>>, D) => e \notin D /\ f \notin D
  BY <1>1, <1>2 DEF Without
<1>4. f \in D /\ f \in G => Ends(<<e, f>>, D, G)
  BY <1>1, <1>2 DEF Ends
<1>5. f \notin D /\ (e \in D => e \in G) => Ends(<<e, f>>, D, G)
  BY <1>1, <1>2 DEF Ends
<1>6. f \notin C /\ f \in D => Follows(<<e, f>>, C, D)
  BY <1>1, <1>2 DEF Follows
<1>7. e \notin C /\ f \notin C => Follows(<<e, f>>, C, D)
  BY <1>1, <1>2 DEF Follows
<1>8. QED BY <1>3, <1>4, <1>5, <1>6, <1>7

-----------------------------------------------------------------------------
(* The events, one kind at a time.                                         *)

LEMMA Assumed ==
    /\ SelfApp \in Apps /\ NoApp \notin Apps /\ NoApp # SelfApp
    /\ NoWindow \notin Windows
BY FeedAssumption

LEMMA SnapshotEvent ==
    ASSUME NEW t \in OneFocus, NEW w \in Windows, NEW e, e = [kind |-> "Snapshot", table |-> t]
    PROVE  /\ e \in Events
           /\ e \in SaysApp(w) /\ e \in SaysFocus(w) /\ e \in SaysId /\ e \notin Closes(w)
           /\ \A a : e \in AppIs(w, a) <=> WithoutSelf(t)[w].app = a
           /\ \A f : e \in FocusIs(w, f) <=> (t[w].focused <=> f = w)
<1>1. e.kind = "Snapshot" /\ e.table = t
  OBVIOUS
<1>2. e \in Snapshots
  BY DEF Snapshots
<1>3. e \in Events
  BY <1>2, Zenon DEF Events
<1>4. QED BY <1>1, <1>3, Zenon DEF SaysApp, SaysFocus, SaysId, Closes, AppIs, FocusIs

LEMMA UpsertEvent ==
    ASSUME NEW v \in Windows, NEW x \in [app : Apps, focused : BOOLEAN], NEW w \in Windows,
           NEW e, e = [kind |-> "Upsert", id |-> v, window |-> x]
    PROVE  /\ e \in Events
           /\ e \in SaysApp(w) <=> v = w /\ x.app # SelfApp
           /\ e \in SaysFocus(w) <=> v = w /\ x.app # SelfApp
           /\ e \in SaysId <=> x.app # SelfApp
           /\ e \notin Closes(w)
           /\ \A a : e \in AppIs(w, a) <=> x.app = a
           /\ \A f : e \in FocusIs(w, f) <=> (x.focused <=> f = w)
<1>1. e.kind = "Upsert" /\ e.id = v /\ e.window = x
  OBVIOUS
<1>2. e \in Upserts
  BY DEF Upserts
<1>3. e \in Events
  BY <1>2, Zenon DEF Events
<1>4. QED BY <1>1, <1>3, Zenon DEF SaysApp, SaysFocus, SaysId, Closes, AppIs, FocusIs

LEMMA ClosedEvent ==
    ASSUME NEW v \in Windows, NEW w \in Windows, NEW e, e = [kind |-> "Closed", id |-> v]
    PROVE  /\ e \in Events
           /\ e \in SaysApp(w) <=> v = w
           /\ e \notin SaysFocus(w) /\ e \notin SaysId
           /\ e \in Closes(w) <=> v = w
           /\ \A a : e \in AppIs(w, a) <=> a = NoApp
<1>1. e.kind = "Closed" /\ e.id = v
  OBVIOUS
<1>2. e \in Closings
  BY DEF Closings
<1>3. e \in Events
  BY <1>2, Zenon DEF Events
<1>4. QED BY <1>1, <1>3, Zenon DEF SaysApp, SaysFocus, SaysId, Closes, AppIs, FocusIs

LEMMA FocusEvent ==
    ASSUME NEW v \in Windows \cup {NoWindow}, NEW w \in Windows, NEW e,
           e = [kind |-> "Focus", id |-> v]
    PROVE  /\ e \in Events
           /\ e \notin SaysApp(w) /\ e \in SaysFocus(w) /\ e \in SaysId /\ e \notin Closes(w)
           /\ \A f : e \in FocusIs(w, f) <=> (v = w <=> f = w)
<1>1. e.kind = "Focus" /\ e.id = v
  OBVIOUS
<1>2. e \in Focusings
  BY DEF Focusings
<1>3. e \in Events
  BY <1>2, Zenon DEF Events
<1>4. QED BY <1>1, <1>3, Zenon DEF SaysApp, SaysFocus, SaysId, Closes, AppIs, FocusIs

LEMMA LostEvent ==
    ASSUME NEW w \in Windows, NEW e, e = [kind |-> "StreamLost"]
    PROVE  /\ e \in Events /\ e.kind = "StreamLost"
           /\ e \notin SaysApp(w) /\ e \notin SaysFocus(w) /\ e \notin SaysId
           /\ e \notin Closes(w)
<1>1. e.kind = "StreamLost"
  OBVIOUS
<1>2. e \in Endings
  BY DEF Endings
<1>3. e \in Events
  BY <1>2, Zenon DEF Events
<1>4. QED BY <1>1, <1>3, Zenon DEF SaysApp, SaysFocus, SaysId, Closes

(* What an event is, by its kind.                                          *)
LEMMA EventKinds ==
    ASSUME NEW e \in Events
    PROVE  \/ \E t \in OneFocus : e = [kind |-> "Snapshot", table |-> t]
           \/ \E v \in Windows, x \in [app : Apps, focused : BOOLEAN] :
                 e = [kind |-> "Upsert", id |-> v, window |-> x]
           \/ \E v \in Windows : e = [kind |-> "Closed", id |-> v]
           \/ \E v \in Windows \cup {NoWindow} : e = [kind |-> "Focus", id |-> v]
           \/ e = [kind |-> "StreamLost"]
<1>1. ASSUME e \in Snapshots PROVE \E t \in OneFocus : e = [kind |-> "Snapshot", table |-> t]
  BY <1>1 DEF Snapshots
<1>2. ASSUME e \in Upserts
      PROVE  \E v \in Windows, x \in [app : Apps, focused : BOOLEAN] :
                 e = [kind |-> "Upsert", id |-> v, window |-> x]
  BY <1>2 DEF Upserts
<1>3. ASSUME e \in Closings PROVE \E v \in Windows : e = [kind |-> "Closed", id |-> v]
  BY <1>3 DEF Closings
<1>4. ASSUME e \in Focusings
      PROVE  \E v \in Windows \cup {NoWindow} : e = [kind |-> "Focus", id |-> v]
  BY <1>4 DEF Focusings
<1>5. ASSUME e \in Endings PROVE e = [kind |-> "StreamLost"]
  BY <1>5 DEF Endings
<1>6. QED BY <1>1, <1>2, <1>3, <1>4, <1>5, Zenon DEF Events

-----------------------------------------------------------------------------
(* What the handler of an event does to the table.                         *)

OneId(d) ==
    (\A v, w \in Windows : d.windows[v].focused /\ d.windows[w].focused => v = w)
        => \A w \in Windows : d.windows[w].focused => d.focused_id = w

(* From daemon o to daemon d, by event e.                                  *)
After(e, o, d) ==
    /\ d \in Daemons /\ Tidy(d)
    /\ d.booted = o.booted /\ d.clipboard_owner = o.clipboard_owner
    /\ \A w \in Windows :
          /\ e \in SaysApp(w) => e \in AppIs(w, d.windows[w].app)
          /\ e \notin SaysApp(w) => d.windows[w].app = o.windows[w].app
          /\ e \in SaysFocus(w) /\ d.windows[w].app # NoApp =>
                \A f \in Windows \cup {NoWindow} :
                    e \in FocusIs(w, f) => (d.windows[w].focused <=> f = w)
          /\ e \notin SaysFocus(w) /\ e \notin Closes(w) =>
                (d.windows[w].focused <=> o.windows[w].focused)
    /\ e \in SaysId => OneId(d)
    /\ e \notin SaysId => d.focused_id = o.focused_id

Rows == [app : Apps \cup {NoApp}, focused : BOOLEAN]

LEMMA RowParts ==
    /\ Closed \in Rows /\ Closed.app = NoApp /\ ~Closed.focused
    /\ \A x \in Rows : x.app \in Apps \cup {NoApp}
    /\ \A x \in Rows, b \in BOOLEAN : /\ [x EXCEPT !.focused = b] \in Rows
                                      /\ [x EXCEPT !.focused = b].app = x.app
                                      /\ [x EXCEPT !.focused = b].focused <=> b
BY DEF Rows, Closed

LEMMA TableRows == Table = [Windows -> Rows]
BY DEF Table, Rows

(* A daemon with another table.                                            *)
HasTable(d, o, t, id) ==
    /\ d \in Daemons
    /\ d.booted = o.booted /\ d.clipboard_owner = o.clipboard_owner
    /\ d.focused_id = id
    /\ \A w \in Windows : /\ d.windows[w].app = t[w].app
                          /\ d.windows[w].focused <=> t[w].focused /\ t[w].app # NoApp

LEMMA WithTable ==
    ASSUME NEW o \in Daemons, NEW t \in Table, NEW id \in Windows \cup {NoWindow},
           NEW d, d = FocusOpenOnly([o EXCEPT !.windows = t, !.focused_id = id])
    PROVE  HasTable(d, o, t, id)
<1> DEFINE o2 == [o EXCEPT !.windows = t, !.focused_id = id]
           tt == [w \in Windows |-> IF o2.windows[w].app = NoApp THEN Closed ELSE o2.windows[w]]
<1>1. /\ o2 \in Daemons /\ o2.windows = t /\ o2.focused_id = id
      /\ o2.booted = o.booted /\ o2.clipboard_owner = o.clipboard_owner
  BY DEF Daemons
<1>2. d = [o2 EXCEPT !.windows = tt]
  BY DEF FocusOpenOnly
<1> HIDE DEF o2
<1>3. \A w \in Windows : t[w] \in Rows
  BY TableRows
<1>4. \A w \in Windows : tt[w] = IF t[w].app = NoApp THEN Closed ELSE t[w]
  BY <1>1
<1>5. \A w \in Windows : tt[w] \in Rows
  BY <1>3, <1>4, RowParts
<1>6. tt \in Table
  BY <1>5, TableRows
<1>7. \A w \in Windows : /\ tt[w].app = t[w].app
                         /\ tt[w].focused <=> t[w].focused /\ t[w].app # NoApp
  BY <1>3, <1>4, RowParts
<1> HIDE DEF tt
<1>8. /\ d \in Daemons /\ d.windows = tt /\ d.focused_id = id
      /\ d.booted = o.booted /\ d.clipboard_owner = o.clipboard_owner
  BY <1>1, <1>2, <1>6 DEF Daemons
<1>9. QED BY <1>7, <1>8, Zenon DEF HasTable

(* A daemon of which the focus is another window.                          *)
HasFocus(d, o, id) ==
    /\ d \in Daemons
    /\ d.booted = o.booted /\ d.clipboard_owner = o.clipboard_owner
    /\ d.focused_id = id
    /\ \A w \in Windows : /\ d.windows[w].app = o.windows[w].app
                          /\ d.windows[w].focused <=> w = id /\ o.windows[w].app # NoApp

LEMMA WithFocus ==
    ASSUME NEW o \in Daemons, NEW id \in Windows \cup {NoWindow},
           NEW d, d = FocusOpenOnly(
             [o EXCEPT !.windows = [w \in Windows |-> [@[w] EXCEPT !.focused = (w = id)]],
                       !.focused_id = id])
    PROVE  HasFocus(d, o, id)
<1> DEFINE t == [w \in Windows |-> [o.windows[w] EXCEPT !.focused = (w = id)]]
<1>1. \A w \in Windows : o.windows[w] \in Rows
  BY TableRows DEF Daemons
<1>2. \A w \in Windows : (w = id) \in BOOLEAN
  OBVIOUS
<1>3. \A w \in Windows : /\ [o.windows[w] EXCEPT !.focused = (w = id)] \in Rows
                         /\ [o.windows[w] EXCEPT !.focused = (w = id)].app = o.windows[w].app
                         /\ [o.windows[w] EXCEPT !.focused = (w = id)].focused <=> w = id
  BY <1>1, <1>2, RowParts, Zenon
<1>4. \A w \in Windows : t[w] = [o.windows[w] EXCEPT !.focused = (w = id)]
  OBVIOUS
<1>5. d = FocusOpenOnly([o EXCEPT !.windows = t, !.focused_id = id])
  BY Zenon
<1>6. t \in [Windows -> Rows]
  BY <1>3
<1> HIDE DEF t
<1>7. /\ t \in Table
      /\ \A w \in Windows : t[w].app = o.windows[w].app /\ (t[w].focused <=> w = id)
  BY <1>3, <1>4, <1>6, TableRows, Zenon
<1>8. HasTable(d, o, t, id)
  BY <1>5, <1>7, WithTable, Zenon
<1>9. QED BY <1>7, <1>8, Zenon DEF HasTable, HasFocus

LEMMA HandledSnapshot ==
    ASSUME daemon \in Daemons, Tidy(daemon), NEW t \in OneFocus,
           NEW e, e = [kind |-> "Snapshot", table |-> t],
           NEW d0 \in HandleNiri(e), NEW d, d = FocusOpenOnly(d0)
    PROVE  After(e, daemon, d)
<1> DEFINE ws == WithoutSelf(t)
<1>1. t \in Table /\ \A w \in Windows : t[w] \in Rows
  BY TableRows DEF OneFocus
<1>2. /\ \A w \in Windows : t[w].app = NoApp => ~t[w].focused
      /\ \A v, w \in Windows : t[v].focused /\ t[w].focused => v = w
  BY DEF OneFocus
<1>3. \A w \in Windows : ws[w] = IF t[w].app = SelfApp THEN Closed ELSE t[w]
  BY DEF WithoutSelf
<1>4. \A w \in Windows :
          /\ ws[w] \in Rows
          /\ ws[w].focused => t[w].focused /\ t[w].app # SelfApp
          /\ ws[w].app # NoApp => ws[w] = t[w]
          /\ ws[w].app = NoApp => ~ws[w].focused
  BY <1>1, <1>2, <1>3, RowParts, Zenon
<1>5. ws \in Table
  BY <1>4, TableRows DEF WithoutSelf
<1>6. e.kind = "Snapshot" /\ e.table = t
  OBVIOUS
<1>7. d0 \in Recomputed(ws)
  BY <1>6 DEF HandleNiri, SnapshotTable
<1> HIDE DEF ws
<1>8. PICK id \in IF FocusedIn(ws) = {} THEN {NoWindow} ELSE FocusedIn(ws) :
          d0 = [daemon EXCEPT !.windows = ws, !.focused_id = id]
  BY <1>7 DEF Recomputed
<1>9. /\ id \in Windows \cup {NoWindow}
      /\ \A w \in Windows : ws[w].focused => id \in Windows /\ ws[id].focused
      /\ id # NoWindow => ws[id].focused
  BY <1>8 DEF FocusedIn
<1>10. HasTable(d, daemon, ws, id)
  BY <1>5, <1>8, <1>9, WithTable, Zenon
<1>11. /\ d \in Daemons
       /\ d.booted = daemon.booted /\ d.clipboard_owner = daemon.clipboard_owner
       /\ d.focused_id = id
       /\ \A w \in Windows : /\ d.windows[w].app = ws[w].app
                             /\ d.windows[w].focused <=> ws[w].focused
  BY <1>4, <1>10, Zenon DEF HasTable
<1>12. Tidy(d)
  BY <1>4, <1>9, <1>11, Assumed DEF Tidy
<1>13. OneId(d)
  BY <1>2, <1>4, <1>9, <1>11 DEF OneId
<1>14. ASSUME NEW w \in Windows
       PROVE  /\ e \in SaysApp(w) => e \in AppIs(w, d.windows[w].app)
              /\ e \in SaysApp(w) /\ e \in SaysFocus(w) /\ e \in SaysId
              /\ d.windows[w].app # NoApp =>
                   \A f \in Windows \cup {NoWindow} :
                      e \in FocusIs(w, f) => (d.windows[w].focused <=> f = w)
  <2>1. /\ e \in SaysApp(w) /\ e \in SaysFocus(w) /\ e \in SaysId
        /\ \A a : e \in AppIs(w, a) <=> WithoutSelf(t)[w].app = a
        /\ \A f : e \in FocusIs(w, f) <=> (t[w].focused <=> f = w)
    BY SnapshotEvent
  <2>2. e \in AppIs(w, d.windows[w].app)
    BY <2>1, <1>11 DEF ws
  <2>3. ASSUME d.windows[w].app # NoApp, NEW f \in Windows \cup {NoWindow}, e \in FocusIs(w, f)
        PROVE  d.windows[w].focused <=> f = w
    BY <2>1, <2>3, <1>4, <1>11
  <2>4. QED BY <2>1, <2>2, <2>3
<1>15. e \in SaysId
  <2>1. e \in Events
    BY DEF Events, Snapshots
  <2>2. QED BY <2>1, <1>6 DEF SaysId
<1>16. QED BY <1>11, <1>12, <1>13, <1>14, <1>15, Zenon DEF After

LEMMA HandledUpsert ==
    ASSUME daemon \in Daemons, Tidy(daemon), NEW v \in Windows,
           NEW x \in [app : Apps, focused : BOOLEAN],
           NEW e, e = [kind |-> "Upsert", id |-> v, window |-> x],
           NEW d0 \in HandleNiri(e), NEW d, d = FocusOpenOnly(d0)
    PROVE  After(e, daemon, d)
<1> DEFINE t == [daemon.windows EXCEPT ![v] = x]
<1>1. x \in Rows /\ x.app \in Apps /\ x.app # NoApp
  BY Assumed DEF Rows
<1>2. e.kind = "Upsert" /\ e.id = v /\ e.window = x
  OBVIOUS
<1>3. daemon.windows \in [Windows -> Rows] /\ daemon.windows \in Table
  BY TableRows DEF Daemons
<1>4. CASE x.app = SelfApp
  <2>1. d0 = [daemon EXCEPT !.windows = daemon.windows, !.focused_id = daemon.focused_id]
    <3>1. d0 = daemon
      BY <1>2, <1>4 DEF HandleNiri
    <3>2. QED BY <3>1 DEF Daemons
  <2>2. HasTable(d, daemon, daemon.windows, daemon.focused_id)
    <3>1. daemon.focused_id \in Windows \cup {NoWindow}
      BY DEF Daemons
    <3>2. QED BY <2>1, <3>1, <1>3, WithTable, Zenon
  <2>3. /\ d \in Daemons
        /\ d.booted = daemon.booted /\ d.clipboard_owner = daemon.clipboard_owner
        /\ d.focused_id = daemon.focused_id
        /\ \A w \in Windows : /\ d.windows[w].app = daemon.windows[w].app
                              /\ d.windows[w].focused <=> daemon.windows[w].focused
    BY <2>2, Zenon DEF HasTable, Tidy
  <2>4. Tidy(d)
    BY <2>3 DEF Tidy, Daemons
  <2>5. \A w \in Windows : e \notin SaysApp(w) /\ e \notin SaysFocus(w) /\ e \notin SaysId
    BY <1>4, UpsertEvent
  <2>6. e \notin SaysId
    BY <1>4, <1>2 DEF SaysId
  <2>7. QED BY <2>3, <2>4, <2>5, <2>6, Zenon DEF After
<1>5. CASE x.app # SelfApp
  <2>1. t \in Table
    BY <1>1, <1>3, TableRows
  <2>2. t[v] = x /\ \A w \in Windows \ {v} : t[w] = daemon.windows[w]
    BY <1>3
  <2>3. d0 \in Recomputed(t)
    BY <1>2, <1>5 DEF HandleNiri
  <2> HIDE DEF t
  <2>4. PICK id \in IF FocusedIn(t) = {} THEN {NoWindow} ELSE FocusedIn(t) :
            d0 = [daemon EXCEPT !.windows = t, !.focused_id = id]
    BY <2>3 DEF Recomputed
  <2>5. /\ id \in Windows \cup {NoWindow}
        /\ \A w \in Windows : t[w].focused => id \in Windows /\ t[id].focused
        /\ id # NoWindow => t[id].focused
    BY <2>4 DEF FocusedIn
  <2>6. HasTable(d, daemon, t, id)
    BY <2>1, <2>4, <2>5, WithTable, Zenon
  <2>7. \A w \in Windows : t[w].app = NoApp => ~t[w].focused
    BY <1>1, <2>2 DEF Tidy
  <2>8. /\ d \in Daemons
        /\ d.booted = daemon.booted /\ d.clipboard_owner = daemon.clipboard_owner
        /\ d.focused_id = id
        /\ \A w \in Windows : /\ d.windows[w].app = t[w].app
                              /\ d.windows[w].focused <=> t[w].focused
    BY <2>6, <2>7, Zenon DEF HasTable
  <2>9. Tidy(d)
    BY <2>5, <2>7, <2>8, Assumed DEF Tidy
  <2>10. OneId(d)
    BY <2>5, <2>8 DEF OneId
  <2>11. \A w \in Windows :
            /\ e \in SaysApp(w) <=> v = w
            /\ e \in SaysFocus(w) <=> v = w
            /\ e \notin Closes(w)
            /\ \A a : e \in AppIs(w, a) <=> x.app = a
            /\ \A f : e \in FocusIs(w, f) <=> (x.focused <=> f = w)
    BY <1>5, UpsertEvent
  <2>12. e \in SaysId
    BY <1>5, UpsertEvent
  <2>13. \A w \in Windows :
          /\ e \in SaysApp(w) => e \in AppIs(w, d.windows[w].app)
          /\ e \notin SaysApp(w) => d.windows[w].app = daemon.windows[w].app
          /\ e \in SaysFocus(w) /\ d.windows[w].app # NoApp =>
                \A f \in Windows \cup {NoWindow} :
                    e \in FocusIs(w, f) => (d.windows[w].focused <=> f = w)
          /\ e \notin SaysFocus(w) /\ e \notin Closes(w) =>
                (d.windows[w].focused <=> daemon.windows[w].focused)
    <3> TAKE w \in Windows
    <3>1. CASE w = v
      <4>1. d.windows[w].app = x.app /\ (d.windows[w].focused <=> x.focused)
        BY <3>1, <2>2, <2>8
      <4>2. QED BY <3>1, <4>1, <2>11, Zenon
    <3>2. CASE w # v
      <4>1. /\ d.windows[w].app = daemon.windows[w].app
            /\ d.windows[w].focused <=> daemon.windows[w].focused
        BY <3>2, <2>2, <2>8
      <4>2. QED BY <3>2, <4>1, <2>11, Zenon
    <3>3. QED BY <3>1, <3>2
  <2>14. QED BY <2>8, <2>9, <2>10, <2>12, <2>13, Zenon DEF After
<1>6. QED BY <1>4, <1>5

LEMMA HandledClosed ==
    ASSUME daemon \in Daemons, Tidy(daemon), NEW v \in Windows,
           NEW e, e = [kind |-> "Closed", id |-> v],
           NEW d0 \in HandleNiri(e), NEW d, d = FocusOpenOnly(d0)
    PROVE  After(e, daemon, d)
<1> DEFINE t == [daemon.windows EXCEPT ![v] = Closed]
<1>1. e.kind = "Closed" /\ e.id = v
  OBVIOUS
<1>2. daemon.windows \in [Windows -> Rows] /\ daemon.focused_id \in Windows \cup {NoWindow}
  BY TableRows DEF Daemons
<1>3. t \in Table
  BY <1>2, TableRows, RowParts
<1>4. t[v] = Closed /\ \A w \in Windows \ {v} : t[w] = daemon.windows[w]
  BY <1>2
<1>5. d0 = [daemon EXCEPT !.windows = t, !.focused_id = daemon.focused_id]
  <2>1. d0 = [daemon EXCEPT !.windows[v] = Closed]
    BY <1>1 DEF HandleNiri
  <2>2. QED BY <2>1 DEF Daemons
<1> HIDE DEF t
<1>6. HasTable(d, daemon, t, daemon.focused_id)
  BY <1>2, <1>3, <1>5, WithTable, Zenon
<1>7. \A w \in Windows : t[w].app = NoApp => ~t[w].focused
  BY <1>4, RowParts DEF Tidy
<1>8. /\ d \in Daemons
      /\ d.booted = daemon.booted /\ d.clipboard_owner = daemon.clipboard_owner
      /\ d.focused_id = daemon.focused_id
      /\ \A w \in Windows : /\ d.windows[w].app = t[w].app
                            /\ d.windows[w].focused <=> t[w].focused
  BY <1>6, <1>7, Zenon DEF HasTable
<1>9. /\ d.windows[v].app = NoApp
      /\ \A w \in Windows \ {v} : /\ d.windows[w].app = daemon.windows[w].app
                                  /\ d.windows[w].focused <=> daemon.windows[w].focused
  BY <1>4, <1>8, RowParts
<1>10. Tidy(d)
  <2>1. \A w \in Windows : d.windows[w].app = NoApp => ~d.windows[w].focused
    BY <1>7, <1>8
  <2>2. ASSUME d.focused_id # NoWindow
        PROVE  d.windows[d.focused_id].focused \/ d.windows[d.focused_id].app = NoApp
    BY <2>2, <1>2, <1>8, <1>9 DEF Tidy
  <2>3. QED BY <2>1, <2>2 DEF Tidy
<1>11. \A w \in Windows :
          /\ e \in SaysApp(w) <=> v = w
          /\ e \notin SaysFocus(w) /\ e \notin SaysId
          /\ e \in Closes(w) <=> v = w
          /\ \A a : e \in AppIs(w, a) <=> a = NoApp
  BY ClosedEvent
<1>12. e \notin SaysId
  BY <1>1 DEF SaysId
<1>13. QED BY <1>8, <1>9, <1>10, <1>11, <1>12, Zenon DEF After

LEMMA HandledFocus ==
    ASSUME daemon \in Daemons, Tidy(daemon), NEW v \in Windows \cup {NoWindow},
           NEW e, e = [kind |-> "Focus", id |-> v],
           NEW d0 \in HandleNiri(e), NEW d, d = FocusOpenOnly(d0)
    PROVE  After(e, daemon, d)
<1>1. e.kind = "Focus" /\ e.id = v
  OBVIOUS
<1>2. d0 = SetFocus(v)
  BY <1>1 DEF HandleNiri
<1>3. d = FocusOpenOnly(
            [daemon EXCEPT !.windows = [w \in Windows |-> [@[w] EXCEPT !.focused = (w = v)]],
                           !.focused_id = v])
  BY <1>2, Zenon DEF SetFocus
<1>4. /\ d \in Daemons
      /\ d.booted = daemon.booted /\ d.clipboard_owner = daemon.clipboard_owner
      /\ d.focused_id = v
      /\ \A w \in Windows : /\ d.windows[w].app = daemon.windows[w].app
                            /\ d.windows[w].focused <=> w = v /\ daemon.windows[w].app # NoApp
  <2>1. HasFocus(d, daemon, v)
    BY <1>3, WithFocus, Zenon
  <2>2. QED BY <2>1, Zenon DEF HasFocus
<1>5. Tidy(d) /\ OneId(d)
  BY <1>4, Assumed DEF Tidy, OneId
<1>6. \A w \in Windows :
          /\ e \notin SaysApp(w) /\ e \in SaysFocus(w) /\ e \notin Closes(w)
          /\ \A f : e \in FocusIs(w, f) <=> (v = w <=> f = w)
  BY FocusEvent
<1>7. e \in SaysId
  <2>1. e \in Events
    BY DEF Events, Focusings
  <2>2. QED BY <2>1, <1>1 DEF SaysId
<1>8. ASSUME NEW w \in Windows, d.windows[w].app # NoApp,
             NEW f \in Windows \cup {NoWindow}, e \in FocusIs(w, f)
      PROVE  d.windows[w].focused <=> f = w
  BY <1>4, <1>6, <1>8
<1>9. QED BY <1>4, <1>5, <1>6, <1>7, <1>8, Zenon DEF After

LEMMA HandledLost ==
    ASSUME daemon \in Daemons, Tidy(daemon), NEW e, e = [kind |-> "StreamLost"],
           NEW d0 \in HandleNiri(e), NEW d, d = FocusOpenOnly(d0)
    PROVE  After(e, daemon, d)
<1>1. e.kind = "StreamLost"
  OBVIOUS
<1>2. d0 = [daemon EXCEPT !.windows = daemon.windows, !.focused_id = daemon.focused_id]
  <2>1. d0 = daemon
    BY <1>1 DEF HandleNiri
  <2>2. QED BY <2>1 DEF Daemons
<1>3. daemon.windows \in Table /\ daemon.focused_id \in Windows \cup {NoWindow}
  BY DEF Daemons
<1>4. HasTable(d, daemon, daemon.windows, daemon.focused_id)
  BY <1>2, <1>3, WithTable, Zenon
<1>5. /\ d \in Daemons
      /\ d.booted = daemon.booted /\ d.clipboard_owner = daemon.clipboard_owner
      /\ d.focused_id = daemon.focused_id
      /\ \A w \in Windows : /\ d.windows[w].app = daemon.windows[w].app
                            /\ d.windows[w].focused <=> daemon.windows[w].focused
  BY <1>4, Zenon DEF HasTable, Tidy
<1>6. Tidy(d)
  BY <1>5 DEF Tidy, Daemons
<1>7. \A w \in Windows : e \notin SaysApp(w) /\ e \notin SaysFocus(w)
  BY LostEvent
<1>8. e \notin SaysId
  BY <1>1 DEF SaysId
<1>9. QED BY <1>5, <1>6, <1>7, <1>8, Zenon DEF After

LEMMA Handled ==
    ASSUME daemon \in Daemons, Tidy(daemon), NEW e \in Events,
           NEW d0 \in HandleNiri(e), NEW d, d = FocusOpenOnly(d0)
    PROVE  After(e, daemon, d)
<1>1. CASE \E t \in OneFocus : e = [kind |-> "Snapshot", table |-> t]
  BY <1>1, HandledSnapshot, Zenon
<1>2. CASE \E v \in Windows, x \in [app : Apps, focused : BOOLEAN] :
                 e = [kind |-> "Upsert", id |-> v, window |-> x]
  BY <1>2, HandledUpsert, Zenon
<1>3. CASE \E v \in Windows : e = [kind |-> "Closed", id |-> v]
  BY <1>3, HandledClosed, Zenon
<1>4. CASE \E v \in Windows \cup {NoWindow} : e = [kind |-> "Focus", id |-> v]
  BY <1>4, HandledFocus, Zenon
<1>5. CASE e = [kind |-> "StreamLost"]
  BY <1>5, HandledLost, Zenon
<1>6. QED BY <1>1, <1>2, <1>3, <1>4, <1>5, EventKinds, Zenon

-----------------------------------------------------------------------------
(* What the compositor reports.                                            *)

LEMMA ReportedParts ==
    ASSUME NEW c \in Comps, FocusOpen(c)
    PROVE  /\ Reported(c) \in OneFocus
           /\ WithoutSelf(Reported(c)) \in Table
           /\ \A w \in Windows :
                 /\ Reported(c)[w] \in Rows
                 /\ Reported(c)[w].app = c.app[w]
                 /\ Reported(c)[w].focused <=> c.focus = w
                 /\ WithoutSelf(Reported(c))[w] \in Rows
                 /\ WithoutSelf(Reported(c))[w].app =
                       IF c.app[w] = SelfApp THEN NoApp ELSE c.app[w]
                 /\ WithoutSelf(Reported(c))[w].focused <=> c.focus = w /\ c.app[w] # SelfApp
<1> DEFINE r == Reported(c)
<1>1. /\ \A w \in Windows : c.app[w] \in Apps \cup {NoApp}
      /\ c.focus \in Windows \cup {NoWindow}
  BY DEF Comps
<1>2. \A w \in Windows : c.app[w] = NoApp => c.focus # w
  BY Assumed DEF FocusOpen
<1>3. \A w \in Windows : r[w] = IF c.app[w] = NoApp THEN Closed
                                ELSE [app |-> c.app[w], focused |-> c.focus = w]
  BY DEF Reported
<1>4. \A w \in Windows :
          /\ [app |-> c.app[w], focused |-> c.focus = w] \in Rows
          /\ [app |-> c.app[w], focused |-> c.focus = w].app = c.app[w]
          /\ [app |-> c.app[w], focused |-> c.focus = w].focused <=> c.focus = w
  BY <1>1 DEF Rows
<1>5. \A w \in Windows : r[w] \in Rows /\ r[w].app = c.app[w] /\ (r[w].focused <=> c.focus = w)
  <2> TAKE w \in Windows
  <2>1. CASE c.app[w] = NoApp
    BY <2>1, <1>2, <1>3, RowParts
  <2>2. CASE c.app[w] # NoApp
    BY <2>2, <1>3, <1>4, Zenon
  <2>3. QED BY <2>1, <2>2
<1>6. r \in [Windows -> Rows]
  BY <1>5 DEF Reported
<1> DEFINE s == WithoutSelf(r)
<1> HIDE DEF r
<1>7. r \in OneFocus
  <2>1. r \in Table
    BY <1>6, TableRows
  <2>2. \A w \in Windows : r[w].app = NoApp => ~r[w].focused
    BY <1>2, <1>5
  <2>3. \A v, w \in Windows : r[v].focused /\ r[w].focused => v = w
    BY <1>5
  <2>4. QED BY <2>1, <2>2, <2>3 DEF OneFocus
<1>8. \A w \in Windows : s[w] = IF r[w].app = SelfApp THEN Closed ELSE r[w]
  BY DEF WithoutSelf
<1>9. \A w \in Windows :
         /\ s[w] \in Rows
         /\ s[w].app = IF c.app[w] = SelfApp THEN NoApp ELSE c.app[w]
         /\ s[w].focused <=> c.focus = w /\ c.app[w] # SelfApp
  <2> TAKE w \in Windows
  <2>1. CASE c.app[w] = SelfApp
    <3>1. s[w] = Closed
      BY <2>1, <1>5, <1>8
    <3>2. QED BY <2>1, <3>1, RowParts, Zenon
  <2>2. CASE c.app[w] # SelfApp
    <3>1. s[w] = r[w]
      BY <2>2, <1>5, <1>8
    <3>2. QED BY <2>2, <3>1, <1>5, Zenon
  <2>3. QED BY <2>1, <2>2
<1>10. s \in Table
  BY <1>9, TableRows DEF WithoutSelf
<1>11. QED BY <1>5, <1>7, <1>9, <1>10 DEF r

-----------------------------------------------------------------------------
(* The events on their way keep deciding what the table has wrong.         *)

LEMMA Sayings ==
    ASSUME NEW w \in Windows
    PROVE  /\ SaysApp(w) \subseteq SaysFocus(w) \cup Closes(w)
           /\ SaysFocus(w) \subseteq SaysId
           /\ Closes(w) \subseteq SaysApp(w)
           /\ \A e \in SaysApp(w) : \A a, b : e \in AppIs(w, a) /\ e \in AppIs(w, b) => a = b
           /\ \A e \in Closes(w) : \A a : e \in AppIs(w, a) => a = NoApp
           /\ \A f, g : (f = w <=> g = w) => FocusIs(w, f) = FocusIs(w, g)
<1>1. SaysApp(w) \subseteq SaysFocus(w) \cup Closes(w)
  BY Zenon DEF SaysApp, SaysFocus, Closes
<1>2. SaysFocus(w) \subseteq SaysId
  BY Zenon DEF SaysFocus, SaysId
<1>3. Closes(w) \subseteq SaysApp(w)
  BY Zenon DEF SaysApp, Closes
<1>4. \A e \in SaysApp(w) : \A a, b : e \in AppIs(w, a) /\ e \in AppIs(w, b) => a = b
  BY Zenon DEF SaysApp, AppIs
<1>5. \A e \in Closes(w) : \A a : e \in AppIs(w, a) => a = NoApp
  BY Zenon DEF Closes, AppIs
<1>6. ASSUME NEW f, NEW g, f = w <=> g = w PROVE FocusIs(w, f) = FocusIs(w, g)
  BY <1>6 DEF FocusIs
<1>7. QED BY <1>1, <1>2, <1>3, <1>4, <1>5, <1>6

LEMMA NothingComing ==
    ASSUME NEW D, NEW C, NEW G
    PROVE  Without(<<>>, D) /\ Ends(<<>>, D, G) /\ Follows(<<>>, C, D)
BY DEF Without, Ends, Follows

LEMMA FeedParts ==
    ASSUME FeedType
    PROVE  /\ daemon.booted \in BOOLEAN
           /\ daemon.windows \in [Windows -> Rows]
           /\ daemon.focused_id \in Windows \cup {NoWindow}
           /\ daemon.clipboard_owner \in Apps \cup {NoApp}
           /\ comp.app \in [Windows -> Apps \cup {NoApp}]
           /\ comp.focus \in Windows \cup {NoWindow}
           /\ comp.owner \in Apps \cup {NoApp}
           /\ \A w \in Windows : comp.app[w] = NoApp => comp.focus # w
           /\ \A w \in Windows : w \in taken => comp.app[w] = SelfApp
BY TableRows, Assumed DEF FeedType, Daemons, Comps, FocusOpen

(* The main loop takes an event.                                           *)
LEMMA TakenType ==
    ASSUME FeedType, TakeEvent
    PROVE  /\ Head(events) \in Events
           /\ After(Head(events), daemon, daemon')
<1>1. Head(events) \in Events
  BY HeadTailProperties DEF FeedType, TakeEvent
<1>2. PICK d0 \in HandleNiri(Head(events)) : daemon' = FocusOpenOnly(d0)
  BY DEF TakeEvent
<1>3. daemon \in Daemons /\ Tidy(daemon)
  BY DEF FeedType
<1>4. After(Head(events), daemon, daemon')
  BY <1>1, <1>2, <1>3, Handled, Zenon
<1>5. QED BY <1>1, <1>4

LEMMA TakenArrives ==
    ASSUME FeedType, Arrives, TakeEvent PROVE Arrives'
<1> DEFINE e == Head(events)
<1>1. e \in Events /\ After(e, daemon, daemon')
  BY TakenType
<1>2. /\ events \in Seq(Events) /\ events # <<>> /\ events' = Tail(events)
      /\ stream' = stream /\ comp' = comp /\ daemon.booted
      /\ marked' = marked /\ taken' = taken
  BY DEF FeedType, TakeEvent, hist
<1>3. /\ daemon'.booted /\ Tidy(daemon') /\ daemon' \in Daemons
      /\ e \in SaysId => OneId(daemon')
      /\ e \notin SaysId => daemon'.focused_id = daemon.focused_id
  BY <1>1, <1>2, Zenon DEF After
<1> SUFFICES ASSUME stream = "up"
             PROVE  (\A w \in Windows : AppArrives(w)' /\ FocusArrives(w)') /\ IdArrives'
  BY <1>2 DEF Arrives
<1> HIDE DEF e
<1>4. \A w \in Windows : AppArrives(w) /\ FocusArrives(w)
  BY DEF Arrives
<1>5. ASSUME NEW w \in Windows
      PROVE  /\ e \in SaysApp(w) => e \in AppIs(w, daemon'.windows[w].app)
             /\ e \notin SaysApp(w) => daemon'.windows[w].app = daemon.windows[w].app
             /\ e \in SaysFocus(w) /\ daemon'.windows[w].app # NoApp /\ e \in FocusIs(w, comp.focus)
                   => (daemon'.windows[w].focused <=> comp.focus = w)
             /\ e \notin SaysFocus(w) /\ e \notin Closes(w) =>
                   (daemon'.windows[w].focused <=> daemon.windows[w].focused)
             /\ daemon'.windows[w].app = NoApp => ~daemon'.windows[w].focused
  <2>1. comp.focus \in Windows \cup {NoWindow}
    BY FeedParts
  <2>2. QED BY <1>1, <1>3, <2>1, Zenon DEF After, Tidy
<1>6. ASSUME NEW w \in Windows PROVE AppArrives(w)'
  <2> SUFFICES ASSUME w \notin taken
               PROVE  /\ Ends(events', SaysApp(w), AppIs(w, AppOf(w)'))
                      /\ Without(events', SaysApp(w)) =>
                            daemon'.booted /\ daemon'.windows[w].app = AppOf(w)'
    BY <1>2 DEF AppArrives
  <2> DEFINE D == SaysApp(w)
             G == AppIs(w, AppOf(w))
  <2>1. Ends(events, D, G) /\ (Without(events, D) => daemon.windows[w].app = AppOf(w))
    BY <1>4 DEF AppArrives
  <2>2. AppOf(w)' = AppOf(w)
    BY <1>2 DEF AppOf
  <2> HIDE DEF D, G
  <2>3. /\ Ends(events', D, G)
        /\ Without(events', D) /\ e \in D => e \in G
        /\ Without(events', D) /\ e \notin D => Without(events, D)
    BY <1>2, <2>1, TailKeeps DEF e
  <2>4. ASSUME Without(events', D) PROVE daemon'.windows[w].app = AppOf(w)
    <3>1. CASE e \in D
      <4>1. e \in AppIs(w, AppOf(w)) /\ e \in AppIs(w, daemon'.windows[w].app)
        BY <3>1, <2>3, <2>4, <1>5 DEF D, G
      <4>2. QED BY <3>1, <4>1, Sayings DEF D
    <3>2. CASE e \notin D
      BY <3>2, <2>1, <2>3, <2>4, <1>5 DEF D
    <3>3. QED BY <3>1, <3>2
  <2>5. Ends(events', SaysApp(w), AppIs(w, AppOf(w)'))
    BY <2>2, <2>3 DEF D, G
  <2>6. Without(events', SaysApp(w)) =>
            daemon'.booted /\ daemon'.windows[w].app = AppOf(w)'
    BY <2>2, <2>4, <1>3 DEF D
  <2>7. QED BY <2>5, <2>6
<1>7. ASSUME NEW w \in Windows PROVE FocusArrives(w)'
  <2>0. Judged(w)' <=> Judged(w)
    BY <1>2 DEF Judged
  <2> SUFFICES ASSUME Judged(w)
               PROVE  /\ Ends(events', SaysFocus(w), FocusIs(w, comp'.focus))
                      /\ comp'.focus = w => Follows(events', Closes(w), SaysFocus(w))
                      /\ Without(events', SaysFocus(w)) =>
                           /\ daemon'.booted
                           /\ daemon'.windows[w].focused <=> comp'.focus = w
    BY <2>0, Zenon DEF FocusArrives
  <2>10. comp.focus = w => comp.app[w] # SelfApp /\ w \notin taken
    BY FeedParts DEF Judged
  <2> DEFINE D == SaysFocus(w)
             C == Closes(w)
             G == FocusIs(w, comp.focus)
  <2>1. /\ Ends(events, D, G)
        /\ comp.focus = w => Follows(events, C, D)
        /\ Without(events, D) => (daemon.windows[w].focused <=> comp.focus = w)
    BY <1>4 DEF FocusArrives
  <2> HIDE DEF D, G, C
  <2>2. /\ Ends(events', D, G)
        /\ comp.focus = w => Follows(events', C, D)
        /\ Without(events', D) /\ e \in D => e \in G
        /\ Without(events', D) /\ e \notin D => Without(events, D)
        /\ comp.focus = w /\ Without(events', D) => Without(events, C)
    BY <1>2, <2>1, TailKeeps DEF e
  <2>3. ASSUME Without(events, C) PROVE e \notin C /\ Without(events', C)
    <3>1. Len(events) \in Nat \ {0} /\ e = events[1] /\ Len(events') = Len(events) - 1
          /\ \A i \in 1 .. Len(events') : events'[i] = events[i + 1]
      BY <1>2, HeadTailProperties, EmptySeq DEF e
    <3>2. QED BY <3>1, <2>3 DEF Without
  <2>4. ASSUME Without(events', D), comp.focus = w
        PROVE  daemon'.windows[w].app = AppOf(w) /\ e \notin C
    <3>1. e \notin C /\ Without(events', C)
      BY <2>2, <2>3, <2>4
    <3>2. Without(events', SaysApp(w))
      BY <3>1, <2>4, Sayings DEF Without, D, C
    <3>3. daemon'.windows[w].app = AppOf(w)'
      BY <3>2, <1>2, <1>6, <2>4, <2>10 DEF AppArrives
    <3>4. QED BY <3>1, <3>3, <1>2 DEF AppOf
  <2>5. ASSUME Without(events', D), comp.focus = w
        PROVE  daemon'.windows[w].focused
    <3>1. daemon'.windows[w].app # NoApp
      BY <2>4, <2>5, <2>10, FeedParts DEF AppOf
    <3>2. CASE e \in D
      BY <3>1, <3>2, <2>2, <2>5, <1>5 DEF D, G
    <3>3. CASE e \notin D
      BY <3>3, <2>1, <2>2, <2>4, <2>5, <1>5 DEF D, C
    <3>4. QED BY <3>2, <3>3
  <2>6. ASSUME Without(events', D), comp.focus # w PROVE ~daemon'.windows[w].focused
    <3>1. CASE daemon'.windows[w].app = NoApp
      BY <3>1, <1>5
    <3>2. CASE daemon'.windows[w].app # NoApp /\ e \in D
      BY <3>2, <2>2, <2>6, <1>5 DEF D, G
    <3>3. CASE daemon'.windows[w].app # NoApp /\ e \notin D
      <4>1. e \notin C
        BY <3>3, <1>5, Sayings DEF C
      <4>2. QED BY <3>3, <4>1, <2>1, <2>2, <2>6, <1>5 DEF D, C
    <3>4. QED BY <3>1, <3>2, <3>3
  <2>7. Without(events', SaysFocus(w)) =>
            /\ daemon'.booted
            /\ daemon'.windows[w].focused <=> comp'.focus = w
    BY <2>5, <2>6, <1>2, <1>3, Zenon DEF D
  <2>8. /\ Ends(events', SaysFocus(w), FocusIs(w, comp'.focus))
        /\ comp'.focus = w => Follows(events', Closes(w), SaysFocus(w))
    BY <2>2, <1>2 DEF D, C, G
  <2>9. QED BY <2>7, <2>8
<1>8. IdArrives'
  <2> SUFFICES ASSUME Without(events', SaysId), marked = {}
               PROVE  \A w \in Windows : daemon'.windows[w].focused => daemon'.focused_id = w
    BY <1>2, <1>3 DEF IdArrives
  <2>1. \A w \in Windows : daemon'.windows[w].focused => comp'.focus = w
    <3> SUFFICES ASSUME NEW w \in Windows, comp'.focus # w PROVE ~daemon'.windows[w].focused
      OBVIOUS
    <3>1. Without(events', SaysFocus(w))
      BY Sayings DEF Without
    <3>2. Judged(w)'
      BY <1>2 DEF Judged
    <3>3. QED BY <3>1, <3>2, <1>7 DEF FocusArrives
  <2>2. CASE e \in SaysId
    BY <2>1, <2>2, <1>3 DEF OneId
  <2>3. CASE e \notin SaysId
    <3>1. Without(events, SaysId)
      BY <2>3, <1>2, TailKeeps DEF e
    <3>2. \A w \in Windows : daemon.windows[w].focused => daemon.focused_id = w
      BY <3>1 DEF Arrives, IdArrives
    <3>3. \A w \in Windows : daemon'.windows[w].focused => daemon.windows[w].focused
      <4> SUFFICES ASSUME NEW w \in Windows, daemon'.windows[w].focused
                   PROVE  daemon.windows[w].focused
        OBVIOUS
      <4>1. e \notin SaysFocus(w)
        BY <2>3, Sayings
      <4>2. daemon'.windows[w].app # NoApp
        BY <1>5
      <4>3. e \notin Closes(w)
        BY <4>2, <1>5, Sayings
      <4>4. QED BY <4>1, <4>3, <1>5
    <3>4. QED BY <2>3, <3>2, <3>3, <1>3
  <2>4. QED BY <2>2, <2>3
<1>9. QED BY <1>6, <1>7, <1>8

(* Events are written: for each window either they say what is so now, or  *)
(* nothing has changed that they do not say.                               *)
SaysApps(w, evs) ==
    w \notin taken' =>
        /\ Ends(evs, SaysApp(w), AppIs(w, AppOf(w)'))
        /\ \/ ~Without(evs, SaysApp(w))
           \/ stream = "up" /\ w \notin taken /\ AppOf(w)' = AppOf(w)
SaysFoci(w, evs) ==
    Judged(w)' =>
        /\ Ends(evs, SaysFocus(w), FocusIs(w, comp'.focus))
        /\ comp'.focus = w => Follows(evs, Closes(w), SaysFocus(w))
        /\ \/ ~Without(evs, SaysFocus(w))
           \/ stream = "up" /\ Judged(w) /\ (comp'.focus = w <=> comp.focus = w)
SaysSo(w, evs) == SaysApps(w, evs) /\ SaysFoci(w, evs)
SaysWho(evs) == marked' = {} => ~Without(evs, SaysId) \/ (stream = "up" /\ marked = {})

LEMMA WrittenArrives ==
    ASSUME FeedType, Arrives, NEW evs \in Seq(Events), events' = events \o evs,
           daemon' = daemon, \A w \in Windows : SaysSo(w, evs), SaysWho(evs)
    PROVE  Arrives'
<1>1. events \in Seq(Events)
  BY DEF FeedType
<1>2. ASSUME NEW w \in Windows PROVE AppArrives(w)'
  <2> SUFFICES ASSUME w \notin taken'
               PROVE  /\ Ends(events', SaysApp(w), AppIs(w, AppOf(w)'))
                      /\ Without(events', SaysApp(w)) =>
                            daemon'.booted /\ daemon'.windows[w].app = AppOf(w)'
    BY DEF AppArrives
  <2> DEFINE D == SaysApp(w)
             G == AppIs(w, AppOf(w)')
             Same == stream = "up" /\ w \notin taken /\ AppOf(w)' = AppOf(w)
  <2>1. Ends(evs, D, G) /\ (~Without(evs, D) \/ Same)
    BY DEF SaysSo, SaysApps
  <2>2. Same => Ends(events, D, G)
    BY DEF Arrives, AppArrives
  <2>3. Same /\ Without(events, D) => daemon'.booted /\ daemon'.windows[w].app = AppOf(w)'
    BY DEF Arrives, AppArrives
  <2> HIDE DEF D, G, Same
  <2>4. /\ Ends(events, D, G) => Ends(events', D, G)
        /\ ~Without(evs, D) => Ends(events', D, G)
        /\ Without(events', D) => Without(events, D) /\ Without(evs, D)
    BY <1>1, <2>1, ConcatKeeps
  <2>5. /\ Ends(events', D, G)
        /\ Without(events', D) => daemon'.booted /\ daemon'.windows[w].app = AppOf(w)'
    BY <2>1, <2>2, <2>3, <2>4
  <2>6. QED BY <2>5 DEF D, G
<1>3. ASSUME NEW w \in Windows PROVE FocusArrives(w)'
  <2> SUFFICES ASSUME Judged(w)'
               PROVE  /\ Ends(events', SaysFocus(w), FocusIs(w, comp'.focus))
                      /\ comp'.focus = w => Follows(events', Closes(w), SaysFocus(w))
                      /\ Without(events', SaysFocus(w)) =>
                           /\ daemon'.booted
                           /\ daemon'.windows[w].focused <=> comp'.focus = w
    BY Zenon DEF FocusArrives
  <2> DEFINE D == SaysFocus(w)
             C == Closes(w)
             G == FocusIs(w, comp'.focus)
             Same == stream = "up" /\ Judged(w) /\ (comp'.focus = w <=> comp.focus = w)
  <2>1. /\ Ends(evs, D, G)
        /\ comp'.focus = w => Follows(evs, C, D)
        /\ ~Without(evs, D) \/ Same
    BY Zenon DEF SaysSo, SaysFoci
  <2>2. Same => Ends(events, D, G)
    <3>1. Same => FocusIs(w, comp'.focus) = FocusIs(w, comp.focus)
      BY Sayings
    <3>2. QED BY <3>1 DEF Arrives, FocusArrives
  <2>3. Same /\ comp'.focus = w => Follows(events, C, D)
    BY DEF Arrives, FocusArrives
  <2>4. Same /\ Without(events, D) =>
            /\ daemon'.booted
            /\ daemon'.windows[w].focused <=> comp'.focus = w
    BY DEF Arrives, FocusArrives
  <2> HIDE DEF D, C, G, Same
  <2>5. /\ Ends(events, D, G) => Ends(events', D, G)
        /\ ~Without(evs, D) => Ends(events', D, G)
        /\ Follows(events, C, D) /\ Follows(evs, C, D) => Follows(events', C, D)
        /\ ~Without(evs, D) /\ Follows(evs, C, D) => Follows(events', C, D)
        /\ Without(events', D) => Without(events, D) /\ Without(evs, D)
    BY <1>1, <2>1, ConcatKeeps
  <2>6. /\ Ends(events', D, G)
        /\ comp'.focus = w => Follows(events', C, D)
        /\ Without(events', D) =>
             /\ daemon'.booted
             /\ daemon'.windows[w].focused <=> comp'.focus = w
    BY <2>1, <2>2, <2>3, <2>4, <2>5, Zenon
  <2>7. QED BY <2>6, Zenon DEF D, C, G
<1>4. IdArrives'
  <2>1. Without(events', SaysId) => Without(events, SaysId) /\ Without(evs, SaysId)
    BY <1>1, ConcatKeeps
  <2>2. QED BY <2>1 DEF IdArrives, Arrives, SaysWho
<1>5. QED BY <1>2, <1>3, <1>4 DEF Arrives

(* What the user does leaves the compositor in a state it may be in, and   *)
(* what is written of it is so.                                            *)
Written(c, evs) ==
    /\ FocusOpen(c) /\ Act(c, evs)
    /\ stream = "up" => SaysWho(evs) /\ \A x \in Windows : SaysSo(x, evs)
UserStep == \E c \in Comps, evs \in Seq(Events) : Written(c, evs)

(* The events say what is so of c; and they do say it where c is not what  *)
(* was, but for the GUI's windows and the windows that lose the focus.     *)
TellsOf(c, x, evs) ==
    /\ Ends(evs, SaysApp(x), AppIs(x, IF c.app[x] = SelfApp THEN NoApp ELSE c.app[x]))
    /\ Ends(evs, SaysFocus(x), FocusIs(x, c.focus))
    /\ c.focus = x => Follows(evs, Closes(x), SaysFocus(x))
    /\ c.app[x] \notin {comp.app[x], SelfApp} => ~Without(evs, SaysApp(x))
    /\ c.focus = x /\ c.app[x] # SelfApp /\ (comp.focus # x \/ comp.app[x] # c.app[x])
          => ~Without(evs, SaysFocus(x))

LEMMA TellsAllOfFocus ==
    ASSUME NEW evs \in Seq(Events), FocusEventIn(evs)
    PROVE  ~Without(evs, SaysId) /\ \A w \in Windows : ~Without(evs, SaysFocus(w))
<1>1. DOMAIN evs = 1 .. Len(evs) /\ \A i \in 1 .. Len(evs) : evs[i] \in Events
  BY LenProperties, ElementOfSeq
<1>2. PICK i \in 1 .. Len(evs) : evs[i] \in Events /\ evs[i].kind = "Focus"
  BY <1>1 DEF FocusEventIn
<1>3. evs[i] \in SaysId /\ \A w \in Windows : evs[i] \in SaysFocus(w)
  BY <1>2 DEF SaysId, SaysFocus
<1>4. QED BY <1>3 DEF Without

LEMMA ToldIsWritten ==
    ASSUME FeedType, NEW c \in Comps, FocusOpen(c), NEW evs \in Seq(Events), Act(c, evs),
           \A x \in Windows : TellsOf(c, x, evs)
    PROVE  UserStep
<1>1. /\ comp' = c
      /\ taken' = {w \in Windows : /\ c.app[w] = SelfApp
                                  /\ \/ w \in taken
                                     \/ comp.app[w] \notin {NoApp, SelfApp}}
      /\ marked' = IF FocusEventIn(evs) THEN {}
                   ELSE IF c.focus = comp.focus THEN marked
                   ELSE marked \cup ({comp.focus} \ {NoWindow})
  BY DEF Act
<1>2. ASSUME stream = "up" PROVE SaysWho(evs)
  <2>1. CASE FocusEventIn(evs)
    BY <2>1, TellsAllOfFocus DEF SaysWho
  <2>2. CASE ~FocusEventIn(evs)
    BY <2>2, <1>1, <1>2 DEF SaysWho
  <2>3. QED BY <2>1, <2>2
<1>3. ASSUME stream = "up", NEW x \in Windows PROVE SaysApps(x, evs)
  <2> SUFFICES ASSUME x \notin taken'
               PROVE  /\ Ends(evs, SaysApp(x), AppIs(x, AppOf(x)'))
                      /\ \/ ~Without(evs, SaysApp(x))
                         \/ x \notin taken /\ AppOf(x)' = AppOf(x)
    BY <1>3, Zenon DEF SaysApps
  <2>1. AppOf(x)' = IF c.app[x] = SelfApp THEN NoApp ELSE c.app[x]
    BY <1>1 DEF AppOf
  <2>2. Ends(evs, SaysApp(x), AppIs(x, AppOf(x)'))
    BY <2>1 DEF TellsOf
  <2>3. x \in taken => comp.app[x] = SelfApp
    BY FeedParts
  <2>4. CASE c.app[x] \notin {comp.app[x], SelfApp}
    BY <2>2, <2>4 DEF TellsOf
  <2>5. CASE c.app[x] \in {comp.app[x], SelfApp}
    <3>1. x \notin taken /\ AppOf(x)' = AppOf(x)
      BY <1>1, <2>1, <2>3, <2>5 DEF AppOf
    <3>2. QED BY <2>2, <3>1
  <2>6. QED BY <2>4, <2>5
<1>4. ASSUME stream = "up", NEW x \in Windows PROVE SaysFoci(x, evs)
  <2> SUFFICES ASSUME Judged(x)'
               PROVE  /\ Ends(evs, SaysFocus(x), FocusIs(x, comp'.focus))
                      /\ comp'.focus = x => Follows(evs, Closes(x), SaysFocus(x))
                      /\ \/ ~Without(evs, SaysFocus(x))
                         \/ Judged(x) /\ (comp'.focus = x <=> comp.focus = x)
    BY <1>4, Zenon DEF SaysFoci
  <2>1. /\ Ends(evs, SaysFocus(x), FocusIs(x, comp'.focus))
        /\ comp'.focus = x => Follows(evs, Closes(x), SaysFocus(x))
    BY <1>1 DEF TellsOf
  <2>2. CASE FocusEventIn(evs)
    BY <2>1, <2>2, TellsAllOfFocus
  <2>3. CASE ~FocusEventIn(evs) /\ c.focus = x
    <3>1. c.app[x] # SelfApp
      BY <1>1, <2>3 DEF Judged
    <3>2. ~Without(evs, SaysFocus(x)) \/ (comp.focus = x /\ comp.app[x] = c.app[x])
      BY <2>3, <3>1 DEF TellsOf
    <3>3. QED BY <1>1, <2>1, <2>3, <3>1, <3>2 DEF Judged
  <2>4. CASE ~FocusEventIn(evs) /\ c.focus # x
    <3>1. x \notin marked'
      BY <1>1, <2>4 DEF Judged
    <3>2. comp.focus # x /\ x \notin marked
      BY <1>1, <2>4, <3>1, Assumed
    <3>3. QED BY <1>1, <2>1, <2>4, <3>2 DEF Judged
  <2>5. QED BY <2>2, <2>3, <2>4
<1>5. Written(c, evs)
  BY <1>2, <1>3, <1>4, Zenon DEF Written, SaysSo
<1>6. QED BY <1>5, Zenon DEF UserStep

LEMMA OpenRow ==
    \A x \in Rows : x.app \in Apps => x \in [app : Apps, focused : BOOLEAN]
BY DEF Rows

LEMMA UpsertOf ==
    ASSUME NEW c \in Comps, FocusOpen(c), NEW w \in Windows, c.app[w] \in Apps, NEW x \in Windows
    PROVE  /\ Upsert(c, w) \in Events
           /\ Upsert(c, w) \in SaysApp(x) <=> w = x /\ c.app[w] # SelfApp
           /\ Upsert(c, w) \in SaysFocus(x) <=> w = x /\ c.app[w] # SelfApp
           /\ Upsert(c, w) \in SaysId <=> c.app[w] # SelfApp
           /\ Upsert(c, w) \notin Closes(x)
           /\ \A a : Upsert(c, w) \in AppIs(x, a) <=> c.app[w] = a
           /\ \A f : Upsert(c, w) \in FocusIs(x, f) <=> (c.focus = w <=> f = x)
<1> DEFINE r == Reported(c)[w]
<1>1. r \in Rows /\ r.app = c.app[w] /\ (r.focused <=> c.focus = w)
  BY ReportedParts
<1> HIDE DEF r
<1>2. r \in [app : Apps, focused : BOOLEAN]
  BY <1>1, OpenRow
<1>3. Upsert(c, w) = [kind |-> "Upsert", id |-> w, window |-> r]
  BY DEF Upsert, r
<1>4. /\ Upsert(c, w) \in Events
      /\ Upsert(c, w) \in SaysApp(x) <=> w = x /\ r.app # SelfApp
      /\ Upsert(c, w) \in SaysFocus(x) <=> w = x /\ r.app # SelfApp
      /\ Upsert(c, w) \in SaysId <=> r.app # SelfApp
      /\ Upsert(c, w) \notin Closes(x)
      /\ \A a : Upsert(c, w) \in AppIs(x, a) <=> r.app = a
      /\ \A f : Upsert(c, w) \in FocusIs(x, f) <=> (r.focused <=> f = x)
  BY <1>2, <1>3, UpsertEvent
<1>5. QED BY <1>1, <1>4

LEMMA FocusOnOf ==
    ASSUME NEW v \in Windows \cup {NoWindow}, NEW x \in Windows
    PROVE  /\ FocusOn(v) \in Events
           /\ FocusOn(v) \notin SaysApp(x) /\ FocusOn(v) \in SaysFocus(x)
           /\ FocusOn(v) \in SaysId /\ FocusOn(v) \notin Closes(x)
           /\ \A f : FocusOn(v) \in FocusIs(x, f) <=> (v = x <=> f = x)
BY FocusEvent DEF FocusOn

(* One window is another than it was, and is upserted; or a focus event    *)
(* follows as well.                                                        *)
OnlyAt(c, w) == \A x \in Windows \ {w} : c.app[x] = comp.app[x]

LEMMA UpsertWritten ==
    ASSUME FeedType, NEW c \in Comps, FocusOpen(c), NEW w \in Windows, c.app[w] \in Apps,
           OnlyAt(c, w), c.focus \in {comp.focus, w}, Act(c, <<Upsert(c, w)>>)
    PROVE  UserStep
<1>1. ASSUME NEW x \in Windows
      PROVE  /\ Upsert(c, w) \in Events
             /\ Upsert(c, w) \in SaysApp(x) <=> w = x /\ c.app[w] # SelfApp
             /\ Upsert(c, w) \in SaysFocus(x) <=> w = x /\ c.app[w] # SelfApp
             /\ Upsert(c, w) \notin Closes(x)
             /\ \A a : Upsert(c, w) \in AppIs(x, a) <=> c.app[w] = a
             /\ \A f : Upsert(c, w) \in FocusIs(x, f) <=> (c.focus = w <=> f = x)
  BY UpsertOf
<1>2. Upsert(c, w) \in Events /\ <<Upsert(c, w)>> \in Seq(Events)
  BY <1>1
<1>3. ASSUME NEW x \in Windows PROVE TellsOf(c, x, <<Upsert(c, w)>>)
  <2> DEFINE e == Upsert(c, w)
             a == IF c.app[x] = SelfApp THEN NoApp ELSE c.app[x]
  <2>1. x # w => c.app[x] = comp.app[x]
    BY DEF OnlyAt
  <2>2. /\ e \in SaysApp(x) <=> w = x /\ c.app[x] # SelfApp
        /\ e \in SaysFocus(x) <=> w = x /\ c.app[x] # SelfApp
        /\ e \notin Closes(x) /\ e \in Events
        /\ e \in SaysApp(x) => e \in AppIs(x, a)
        /\ e \in SaysFocus(x) => e \in FocusIs(x, c.focus)
    BY <1>1
  <2> HIDE DEF e, a
  <2>3. /\ Ends(<<e>>, SaysApp(x), AppIs(x, a))
        /\ Ends(<<e>>, SaysFocus(x), FocusIs(x, c.focus))
        /\ Follows(<<e>>, Closes(x), SaysFocus(x))
        /\ w = x /\ c.app[x] # SelfApp =>
              ~Without(<<e>>, SaysApp(x)) /\ ~Without(<<e>>, SaysFocus(x))
    BY <2>2, OneEvent
  <2>4. /\ c.app[x] \notin {comp.app[x], SelfApp} => ~Without(<<e>>, SaysApp(x))
        /\ c.focus = x /\ c.app[x] # SelfApp /\ (comp.focus # x \/ comp.app[x] # c.app[x])
              => ~Without(<<e>>, SaysFocus(x))
    BY <2>1, <2>3
  <2>5. QED BY <2>3, <2>4 DEF TellsOf, e, a
<1>4. QED BY <1>2, <1>3, ToldIsWritten

LEMMA TwoWritten ==
    ASSUME FeedType, NEW c \in Comps, FocusOpen(c), NEW e \in Events, NEW v \in Windows \cup {NoWindow},
           NEW w \in Windows, OnlyAt(c, w), c.focus = v, Act(c, <<e, FocusOn(v)>>),
           \A x \in Windows : e \in SaysApp(x) => e \in AppIs(x, c.app[x]) /\ c.app[x] # SelfApp,
           e \in SaysApp(w) \/ c.app[w] = SelfApp
    PROVE  UserStep
<1>1. FocusOn(v) \in Events
  <2>1. FocusOn(v) \in Focusings
    BY DEF FocusOn, Focusings
  <2>2. QED BY <2>1, Zenon DEF Events
<1>2. <<e, FocusOn(v)>> \in Seq(Events)
  BY <1>1, TwoInRow
<1>3. ASSUME NEW x \in Windows PROVE TellsOf(c, x, <<e, FocusOn(v)>>)
  <2> DEFINE f == FocusOn(v)
             a == IF c.app[x] = SelfApp THEN NoApp ELSE c.app[x]
  <2>1. /\ f \notin SaysApp(x) /\ f \in SaysFocus(x) /\ f \notin Closes(x)
        /\ f \in FocusIs(x, c.focus)
    BY FocusOnOf
  <2>2. e \in SaysApp(x) => e \in AppIs(x, a)
    OBVIOUS
  <2>3. c.app[x] \notin {comp.app[x], SelfApp} => e \in SaysApp(x)
    BY DEF OnlyAt
  <2> HIDE DEF f, a
  <2>4. /\ Ends(<<e, f>>, SaysApp(x), AppIs(x, a))
        /\ Ends(<<e, f>>, SaysFocus(x), FocusIs(x, c.focus))
        /\ Follows(<<e, f>>, Closes(x), SaysFocus(x))
        /\ ~Without(<<e, f>>, SaysFocus(x))
        /\ e \in SaysApp(x) => ~Without(<<e, f>>, SaysApp(x))
    BY <2>1, <2>2, TwoEvents, Zenon
  <2>5. QED BY <2>3, <2>4 DEF TellsOf, f, a
<1>4. QED BY <1>2, <1>3, ToldIsWritten

LEMMA OtherAppWritten ==
    ASSUME FeedType, NEW w \in Windows, NEW a \in Apps,
           LET c == [comp EXCEPT !.app[w] = a] IN Act(c, <<Upsert(c, w)>>)
    PROVE  UserStep
<1> DEFINE c == [comp EXCEPT !.app[w] = a]
<1>1. comp \in Comps /\ FocusOpen(comp)
  BY DEF FeedType
<1>2. c \in Comps /\ c.focus = comp.focus /\ c.app[w] = a /\ OnlyAt(c, w)
  BY <1>1 DEF Comps, OnlyAt
<1>3. Act(c, <<Upsert(c, w)>>)
  BY Zenon
<1> HIDE DEF c
<1>4. FocusOpen(c)
  BY <1>1, <1>2, Assumed DEF FocusOpen, Comps, OnlyAt
<1>5. QED BY <1>2, <1>3, <1>4, UpsertWritten

LEMMA OpenWritten ==
    ASSUME FeedType, NEW w \in Windows, NEW a \in Apps, Open(w, a) PROVE UserStep
<1>1. comp \in Comps /\ FocusOpen(comp) /\ comp.app[w] = NoApp
  BY DEF FeedType, Open
<1>2. CASE LET c == [comp EXCEPT !.app[w] = a, !.focus = w]
           IN  \E told \in {<<Upsert(c, w)>>, <<Upsert(c, w), FocusOn(w)>>} : Act(c, told)
  <2> DEFINE c == [comp EXCEPT !.app[w] = a, !.focus = w]
  <2>1. c \in Comps /\ c.focus = w /\ c.app[w] = a /\ OnlyAt(c, w)
    BY <1>1 DEF Comps, OnlyAt
  <2>2. FocusOpen(c)
    BY <2>1, Assumed DEF FocusOpen
  <2>3. Act(c, <<Upsert(c, w)>>) \/ Act(c, <<Upsert(c, w), FocusOn(w)>>)
    BY <1>2, Zenon
  <2> HIDE DEF c
  <2>4. CASE Act(c, <<Upsert(c, w)>>)
    BY <2>1, <2>2, <2>4, UpsertWritten
  <2>5. CASE Act(c, <<Upsert(c, w), FocusOn(w)>>)
    <3> DEFINE e == Upsert(c, w)
    <3>1. /\ e \in Events
          /\ \A x \in Windows : e \in SaysApp(x) <=> w = x /\ c.app[w] # SelfApp
          /\ \A x \in Windows : e \in AppIs(x, c.app[w])
      BY <2>1, <2>2, UpsertOf
    <3>2. Act(c, <<e, FocusOn(w)>>)
      BY <2>5
    <3> HIDE DEF e
    <3>3. \A x \in Windows : e \in SaysApp(x) => e \in AppIs(x, c.app[x]) /\ c.app[x] # SelfApp
      BY <3>1
    <3>4. e \in SaysApp(w) \/ c.app[w] = SelfApp
      BY <3>1
    <3>5. QED BY <2>1, <2>2, <3>1, <3>2, <3>3, <3>4, TwoWritten
  <2>6. QED BY <2>3, <2>4, <2>5
<1>3. CASE LET c == [comp EXCEPT !.app[w] = a] IN Act(c, <<Upsert(c, w)>>)
  BY <1>1, <1>3, OtherAppWritten
<1>4. QED BY <1>2, <1>3 DEF Open

LEMMA RenameWritten ==
    ASSUME FeedType, NEW w \in Windows, NEW a \in Apps, Rename(w, a) PROVE UserStep
BY OtherAppWritten DEF Rename

LEMMA CloseWritten ==
    ASSUME FeedType, NEW w \in Windows, Close(w) PROVE UserStep
<1> DEFINE e == [kind |-> "Closed", id |-> w]
           c(next) == [comp EXCEPT !.app[w] = NoApp, !.focus = next]
<1>1. comp \in Comps /\ FocusOpen(comp) /\ comp.app[w] # NoApp
  BY DEF FeedType, Close
<1>2. ASSUME NEW next \in Windows \cup {NoWindow}
      PROVE  /\ c(next) \in Comps /\ c(next).focus = next
             /\ c(next).app[w] = NoApp /\ OnlyAt(c(next), w)
  BY <1>1 DEF Comps, OnlyAt
<1>3. \A x \in Windows :
        /\ e \in Events
        /\ e \in SaysApp(x) <=> w = x
        /\ e \notin SaysFocus(x)
        /\ e \in Closes(x) <=> w = x
        /\ \A b : e \in AppIs(x, b) <=> b = NoApp
  BY ClosedEvent
<1>4. CASE comp.focus # w /\ Act(c(comp.focus), <<e>>)
  <2> DEFINE d == c(comp.focus)
  <2>1. /\ d \in Comps /\ d.focus = comp.focus /\ d.app[w] = NoApp
        /\ OnlyAt(d, w) /\ Act(d, <<e>>)
    BY <1>1, <1>2, <1>4 DEF Comps
  <2> HIDE DEF d, e
  <2>2. FocusOpen(d)
    BY <1>1, <1>4, <2>1 DEF FocusOpen, OnlyAt, Comps
  <2>3. e \in Events /\ <<e>> \in Seq(Events)
    BY <1>3
  <2>4. ASSUME NEW x \in Windows PROVE TellsOf(d, x, <<e>>)
    <3> DEFINE a == IF d.app[x] = SelfApp THEN NoApp ELSE d.app[x]
    <3>1. x # w => d.app[x] = comp.app[x]
      BY <2>1 DEF OnlyAt
    <3>2. x = w => a = NoApp /\ d.focus # x
      BY <1>4, <2>1
    <3> HIDE DEF a
    <3>3. /\ Ends(<<e>>, SaysApp(x), AppIs(x, a))
          /\ Ends(<<e>>, SaysFocus(x), FocusIs(x, d.focus))
          /\ d.focus = x => Follows(<<e>>, Closes(x), SaysFocus(x))
          /\ w = x => ~Without(<<e>>, SaysApp(x))
      BY <1>3, <2>3, <3>2, OneEvent
    <3>4. /\ d.app[x] \notin {comp.app[x], SelfApp} => ~Without(<<e>>, SaysApp(x))
          /\ ~(d.focus = x /\ (comp.focus # x \/ comp.app[x] # d.app[x]))
      BY <1>4, <2>1, <3>1, <3>3
    <3>5. QED BY <3>3, <3>4 DEF TellsOf, a
  <2>5. QED BY <2>1, <2>2, <2>3, <2>4, ToldIsWritten
<1>5. ASSUME comp.focus = w,
             NEW next \in {v \in Windows \ {w} : comp.app[v] # NoApp} \cup {NoWindow},
             NEW told \in FocusTold(c(next), next), Act(c(next), <<e>> \o told)
      PROVE  UserStep
  <2> DEFINE d == c(next)
  <2>1. /\ next \in Windows \cup {NoWindow} /\ next # w
        /\ d \in Comps /\ d.focus = next /\ d.app[w] = NoApp
        /\ OnlyAt(d, w) /\ Act(d, <<e>> \o told)
    BY <1>2, <1>5, Assumed
  <2>2. told = <<FocusOn(next)>> \/ (next # NoWindow /\ told = <<Upsert(d, next)>>)
    BY <1>5 DEF FocusTold
  <2> HIDE DEF d, e
  <2>3. FocusOpen(d) /\ (next # NoWindow => next \in Windows /\ d.app[next] \in Apps)
    BY <1>5, <2>1 DEF FocusOpen, OnlyAt, Comps
  <2>4. e \in Events
    BY <1>3
  <2>5. CASE told = <<FocusOn(next)>>
    <3>1. FocusOn(next) \in Events
      BY <2>1, FocusOnOf
    <3>2. Act(d, <<e, FocusOn(next)>>)
      BY <2>1, <2>4, <2>5, <3>1, TwoInRow
    <3>3. \A x \in Windows : e \in SaysApp(x) => e \in AppIs(x, d.app[x]) /\ d.app[x] # SelfApp
      BY <1>3, <2>1, Assumed
    <3>4. e \in SaysApp(w)
      BY <1>3
    <3>5. QED BY <2>1, <2>3, <2>4, <3>2, <3>3, <3>4, TwoWritten
  <2>6. CASE next # NoWindow /\ told = <<Upsert(d, next)>>
    <3> DEFINE u == Upsert(d, next)
    <3>1. \A x \in Windows :
            /\ u \in Events
            /\ u \in SaysApp(x) <=> next = x /\ d.app[next] # SelfApp
            /\ u \in SaysFocus(x) <=> next = x /\ d.app[next] # SelfApp
            /\ u \notin Closes(x)
            /\ u \in AppIs(x, d.app[next])
            /\ u \in FocusIs(x, d.focus) <=> (d.focus = next <=> d.focus = x)
      BY <2>1, <2>3, <2>6, UpsertOf
    <3>2. u \in Events /\ <<e, u>> = <<e>> \o <<u>> /\ <<e, u>> \in Seq(Events)
      BY <2>4, <3>1, TwoInRow
    <3>3. Act(d, <<e, u>>)
      BY <2>1, <2>6, <3>2
    <3> HIDE DEF u
    <3>4. ASSUME NEW x \in Windows PROVE TellsOf(d, x, <<e, u>>)
      <4> DEFINE a == IF d.app[x] = SelfApp THEN NoApp ELSE d.app[x]
      <4>1. x # w => d.app[x] = comp.app[x]
        BY <2>1 DEF OnlyAt
      <4>2. x = w => a = NoApp /\ d.focus # x /\ next # x
        BY <2>1, Assumed
      <4>3. next = x /\ d.app[next] # SelfApp => a = d.app[next]
        OBVIOUS
      <4> HIDE DEF a
      <4>4. /\ e \in SaysApp(x) <=> w = x
            /\ e \notin SaysFocus(x)
            /\ e \in Closes(x) <=> w = x
            /\ w = x => e \in AppIs(x, a)
            /\ w = x => u \notin SaysApp(x) /\ u \notin SaysFocus(x)
            /\ u \in SaysApp(x) => u \in AppIs(x, a)
            /\ u \in SaysFocus(x) => u \in FocusIs(x, d.focus)
            /\ u \notin Closes(x)
            /\ d.focus = x /\ d.app[x] # SelfApp => u \in SaysFocus(x)
        BY <1>3, <2>1, <3>1, <4>2, <4>3
      <4>5. /\ Ends(<<e, u>>, SaysApp(x), AppIs(x, a))
            /\ Ends(<<e, u>>, SaysFocus(x), FocusIs(x, d.focus))
            /\ w # x => Follows(<<e, u>>, Closes(x), SaysFocus(x))
            /\ w = x => ~Without(<<e, u>>, SaysApp(x))
            /\ u \in SaysFocus(x) => ~Without(<<e, u>>, SaysFocus(x))
        BY <4>4, TwoEvents, Zenon
      <4>6. QED BY <4>1, <4>2, <4>4, <4>5 DEF TellsOf, a
    <3>5. QED BY <2>1, <2>3, <3>2, <3>3, <3>4, ToldIsWritten
  <2>7. QED BY <2>2, <2>5, <2>6
<1>6. \/ comp.focus # w /\ Act(c(comp.focus), <<e>>)
      \/ /\ comp.focus = w
         /\ \E next \in {v \in Windows \ {w} : comp.app[v] # NoApp} \cup {NoWindow} :
               \E told \in FocusTold(c(next), next) : Act(c(next), <<e>> \o told)
  BY Zenon DEF Close
<1> HIDE DEF c, e
<1>7. QED BY <1>4, <1>5, <1>6, Zenon

LEMMA MoveWritten ==
    ASSUME FeedType, NEW w \in Windows \cup {NoWindow}, MoveFocus(w) PROVE UserStep
<1> DEFINE c == [comp EXCEPT !.focus = w]
<1>1. comp \in Comps /\ (w # NoWindow => comp.app[w] # NoApp)
  BY DEF FeedType, MoveFocus
<1>2. c \in Comps /\ c.focus = w /\ c.app = comp.app
  BY <1>1 DEF Comps
<1>3. FocusOpen(c)
  BY <1>1, <1>2 DEF FocusOpen
<1>4. Act(c, <<FocusOn(w)>>) \/ (w # NoWindow /\ Act(c, <<Upsert(c, w)>>))
  BY DEF MoveFocus, FocusTold
<1> HIDE DEF c
<1>5. CASE w # NoWindow /\ Act(c, <<Upsert(c, w)>>)
  <2>1. w \in Windows /\ c.app[w] \in Apps /\ OnlyAt(c, w)
    BY <1>1, <1>2, <1>5 DEF OnlyAt, Comps
  <2>2. QED BY <1>2, <1>3, <1>5, <2>1, UpsertWritten
<1>6. CASE Act(c, <<FocusOn(w)>>)
  <2>1. FocusOn(w) \in Events /\ <<FocusOn(w)>> \in Seq(Events)
    <3>1. FocusOn(w) \in Focusings
      BY DEF FocusOn, Focusings
    <3>2. FocusOn(w) \in Events
      BY <3>1, Zenon DEF Events
    <3>3. QED BY <3>2, OneEvent
  <2>2. ASSUME NEW x \in Windows PROVE TellsOf(c, x, <<FocusOn(w)>>)
    <3>1. /\ FocusOn(w) \notin SaysApp(x) /\ FocusOn(w) \in SaysFocus(x)
          /\ FocusOn(w) \notin Closes(x) /\ FocusOn(w) \in FocusIs(x, w)
      BY FocusOnOf
    <3>2. Ends(<<FocusOn(w)>>, SaysApp(x),
               AppIs(x, IF c.app[x] = SelfApp THEN NoApp ELSE c.app[x]))
      BY <2>1, <3>1, OneEvent
    <3>3. /\ Ends(<<FocusOn(w)>>, SaysFocus(x), FocusIs(x, c.focus))
          /\ Follows(<<FocusOn(w)>>, Closes(x), SaysFocus(x))
          /\ ~Without(<<FocusOn(w)>>, SaysFocus(x))
      BY <1>2, <2>1, <3>1, OneEvent
    <3>4. QED BY <1>2, <3>2, <3>3, Zenon DEF TellsOf
  <2>3. QED BY <1>2, <1>3, <1>6, <2>1, <2>2, ToldIsWritten
<1>7. QED BY <1>4, <1>5, <1>6

LEMMA OwnerWritten ==
    ASSUME FeedType, NEW owner \in Apps \cup {NoApp},
           Act([comp EXCEPT !.owner = owner], <<>>)
    PROVE  UserStep
<1> DEFINE c == [comp EXCEPT !.owner = owner]
<1>1. comp \in Comps /\ FocusOpen(comp)
  BY DEF FeedType
<1>2. c \in Comps /\ c.focus = comp.focus /\ c.app = comp.app
  BY <1>1 DEF Comps
<1>3. FocusOpen(c)
  BY <1>1, <1>2 DEF FocusOpen
<1>4. Act(c, <<>>)
  OBVIOUS
<1> HIDE DEF c
<1>5. ASSUME NEW x \in Windows PROVE TellsOf(c, x, <<>>)
  BY <1>2, NothingComing, Zenon DEF TellsOf
<1>6. <<>> \in Seq(Events)
  BY EmptySeq
<1>7. QED BY <1>2, <1>3, <1>4, <1>5, <1>6, ToldIsWritten

LEMMA UserWritten ==
    ASSUME FeedType, UserActs PROVE UserStep
<1>1. ASSUME NEW w \in Windows, Close(w) PROVE UserStep
  BY <1>1, CloseWritten
<1>2. ASSUME NEW w \in Windows \cup {NoWindow}, MoveFocus(w) PROVE UserStep
  BY <1>2, MoveWritten
<1>3. ASSUME NEW w \in Windows, NEW a \in Apps, Open(w, a) PROVE UserStep
  BY <1>3, OpenWritten
<1>4. ASSUME NEW w \in Windows, NEW a \in Apps, Rename(w, a) PROVE UserStep
  BY <1>4, RenameWritten
<1>5. ASSUME Copy PROVE UserStep
  <2>1. comp.app[comp.focus] \in Apps \cup {NoApp}
    BY <1>5, FeedParts DEF Copy
  <2>2. QED BY <1>5, <2>1, OwnerWritten DEF Copy
<1>6. ASSUME Clear PROVE UserStep
  BY <1>6, OwnerWritten DEF Clear
<1>7. QED BY <1>1, <1>2, <1>3, <1>4, <1>5, <1>6 DEF UserActs

LEMMA UserArrives ==
    ASSUME FeedType, Arrives, UserStep PROVE Arrives'
<1>1. PICK c \in Comps, evs \in Seq(Events) : Written(c, evs)
  BY Zenon DEF UserStep
<1>2. /\ stream' = stream /\ daemon' = daemon
      /\ events' = IF stream = "up" THEN events \o evs ELSE events
  BY <1>1 DEF Written, Act
<1>3. CASE stream = "up"
  <2>1. SaysWho(evs) /\ \A x \in Windows : SaysSo(x, evs)
    BY <1>1, <1>3 DEF Written
  <2>2. QED BY <2>1, <1>2, <1>3, WrittenArrives
<1>4. CASE stream # "up"
  BY <1>2, <1>4 DEF Arrives
<1>5. QED BY <1>3, <1>4

(* The other steps.                                                        *)
LEMMA QuietArrives ==
    ASSUME Arrives, events' = events, stream' = stream, marked' = marked, taken' = taken,
           comp'.app = comp.app, comp'.focus = comp.focus,
           \/ ~daemon.booted
           \/ /\ daemon'.booted <=> daemon.booted
              /\ daemon'.windows = daemon.windows /\ daemon'.focused_id = daemon.focused_id
    PROVE  Arrives'
<1> SUFFICES ASSUME stream = "up"
             PROVE  (\A w \in Windows : AppArrives(w)' /\ FocusArrives(w)') /\ IdArrives'
  BY DEF Arrives
<1>1. \A w \in Windows : AppOf(w)' = AppOf(w)
  BY DEF AppOf
<1>2. ASSUME NEW w \in Windows PROVE AppArrives(w)'
  <2>1. AppArrives(w) /\ AppOf(w)' = AppOf(w)
    BY <1>1 DEF Arrives
  <2>2. QED BY <2>1 DEF AppArrives
<1>3. ASSUME NEW w \in Windows PROVE FocusArrives(w)'
  <2>1. FocusArrives(w) /\ (Judged(w)' <=> Judged(w))
    BY DEF Arrives, Judged
  <2>2. QED BY <2>1 DEF FocusArrives
<1>4. IdArrives'
  BY DEF Arrives, IdArrives
<1>5. QED BY <1>2, <1>3, <1>4

LEMMA ReconnectArrives ==
    ASSUME FeedType, Reconnect PROVE Arrives' /\ events' \in Seq(Events)
<1> DEFINE e == [kind |-> "Snapshot", table |-> Reported(comp)]
<1>1. /\ events \in Seq(Events) /\ comp \in Comps /\ FocusOpen(comp)
      /\ comp' = comp /\ daemon' = daemon /\ events' = Append(events, e)
  BY DEF FeedType, Reconnect
<1>2. Reported(comp) \in OneFocus
  BY <1>1, ReportedParts
<1>3. e \in Events
  <2>1. e \in Snapshots
    BY <1>2 DEF Snapshots
  <2>2. QED BY <2>1, Zenon DEF Events
<1>4. e.kind = "Snapshot"
  OBVIOUS
<1>5. ASSUME NEW x \in Windows
      PROVE  /\ e \in SaysApp(x) /\ e \in SaysFocus(x) /\ e \notin Closes(x)
             /\ e \in AppIs(x, AppOf(x)) /\ e \in FocusIs(x, comp.focus)
  <2>1. /\ e \in SaysApp(x) /\ e \in SaysFocus(x) /\ e \notin Closes(x)
        /\ \A a : e \in AppIs(x, a) <=> WithoutSelf(Reported(comp))[x].app = a
        /\ \A f : e \in FocusIs(x, f) <=> (Reported(comp)[x].focused <=> f = x)
    BY <1>2, SnapshotEvent
  <2>2. WithoutSelf(Reported(comp))[x].app = AppOf(x)
    BY <1>1, ReportedParts DEF AppOf
  <2>3. Reported(comp)[x].focused <=> comp.focus = x
    BY <1>1, ReportedParts
  <2>4. QED BY <2>1, <2>2, <2>3, Zenon
<1>6. e \in SaysId
  BY <1>3, <1>4 DEF SaysId
<1> HIDE DEF e
<1>7. /\ <<e>> \in Seq(Events) /\ ~Without(<<e>>, SaysId)
      /\ events' = events \o <<e>>
  BY <1>1, <1>3, <1>6, OneEvent, AppendIsConcat
<1>8. ASSUME NEW x \in Windows PROVE SaysSo(x, <<e>>)
  <2>1. AppOf(x)' = AppOf(x)
    BY <1>1 DEF AppOf
  <2>2. e \in FocusIs(x, comp'.focus)
    BY <1>1, <1>5
  <2>3. /\ Ends(<<e>>, SaysApp(x), AppIs(x, AppOf(x)'))
        /\ Ends(<<e>>, SaysFocus(x), FocusIs(x, comp'.focus))
        /\ Follows(<<e>>, Closes(x), SaysFocus(x))
        /\ ~Without(<<e>>, SaysApp(x)) /\ ~Without(<<e>>, SaysFocus(x))
    BY <1>3, <1>5, <2>1, <2>2, OneEvent
  <2>4. QED BY <2>3, Zenon DEF SaysSo, SaysApps, SaysFoci
<1>9. Arrives
  BY DEF Arrives, Reconnect, Respawns
<1>10. events' \in Seq(Events)
  BY <1>1, <1>3, AppendProperties
<1>11. SaysWho(<<e>>)
  BY <1>7 DEF SaysWho
<1>12. QED BY <1>1, <1>7, <1>8, <1>9, <1>10, <1>11, WrittenArrives

-----------------------------------------------------------------------------
(* Types.                                                                  *)

ClipEvents == {"OwnerChanged", "Cleared"}

LEMMA BootParts ==
    ASSUME FeedType, Boot
    PROVE  /\ daemon' \in Daemons /\ Tidy(daemon')
           /\ daemon'.clipboard_owner = daemon.clipboard_owner
<1>1. comp \in Comps /\ FocusOpen(comp) /\ daemon \in Daemons /\ Tidy(daemon)
  BY DEF FeedType
<1>2. CASE daemon' = [daemon EXCEPT !.booted = TRUE]
  BY <1>1, <1>2 DEF Daemons, Tidy
<1>3. CASE \E d \in Recomputed(WithoutSelf(Reported(comp))) : daemon' = [d EXCEPT !.booted = TRUE]
  <2> DEFINE t == WithoutSelf(Reported(comp))
  <2>1. /\ t \in Table
        /\ \A w \in Windows : t[w].app = NoApp => ~t[w].focused
    <3>1. /\ t \in Table
          /\ \A w \in Windows :
                /\ t[w].app = IF comp.app[w] = SelfApp THEN NoApp ELSE comp.app[w]
                /\ t[w].focused <=> comp.focus = w /\ comp.app[w] # SelfApp
      BY <1>1, ReportedParts
    <3>2. \A w \in Windows : comp.app[w] = NoApp => comp.focus # w
      BY FeedParts
    <3>3. ASSUME NEW w \in Windows, t[w].app = NoApp PROVE ~t[w].focused
      <4>1. t[w].app = IF comp.app[w] = SelfApp THEN NoApp ELSE comp.app[w]
        BY <3>1, Zenon
      <4>2. t[w].focused <=> comp.focus = w /\ comp.app[w] # SelfApp
        BY <3>1, Zenon
      <4> HIDE DEF t
      <4>3. QED BY <4>1, <4>2, <3>2, <3>3, Zenon
    <3>4. QED BY <3>1, <3>3, Zenon
  <2>2. PICK d \in Recomputed(t) : daemon' = [d EXCEPT !.booted = TRUE]
    BY <1>3
  <2> HIDE DEF t
  <2>3. PICK id \in IF FocusedIn(t) = {} THEN {NoWindow} ELSE FocusedIn(t) :
            d = [daemon EXCEPT !.windows = t, !.focused_id = id]
    BY <2>2 DEF Recomputed
  <2>4. id \in Windows \cup {NoWindow} /\ (id # NoWindow => t[id].focused)
    BY <2>3 DEF FocusedIn
  <2>5. /\ daemon' \in Daemons /\ daemon'.windows = t /\ daemon'.focused_id = id
        /\ daemon'.clipboard_owner = daemon.clipboard_owner
    BY <1>1, <2>1, <2>2, <2>3, <2>4 DEF Daemons
  <2>6. QED BY <2>1, <2>4, <2>5 DEF Tidy
<1>4. QED BY <1>2, <1>3 DEF Boot

LEMMA ClipParts ==
    ASSUME FeedType, TakeClip
    PROVE  /\ daemon' \in Daemons /\ Tidy(daemon')
           /\ daemon'.booted = daemon.booted /\ daemon'.windows = daemon.windows
           /\ daemon'.focused_id = daemon.focused_id
           /\ daemon'.clipboard_owner =
                IF Head(clips) = "Cleared" \/ daemon.focused_id = NoWindow THEN NoApp
                ELSE daemon.windows[daemon.focused_id].app
<1> DEFINE owner == IF Head(clips) = "Cleared" \/ daemon.focused_id = NoWindow THEN NoApp
                    ELSE daemon.windows[daemon.focused_id].app
<1>1. daemon' = [daemon EXCEPT !.clipboard_owner = owner]
  BY DEF TakeClip, HandleClip
<1>2. owner \in Apps \cup {NoApp}
  BY FeedParts, RowParts
<1> HIDE DEF owner
<1>3. daemon \in Daemons /\ Tidy(daemon)
  BY DEF FeedType
<1>4. /\ daemon' \in Daemons /\ daemon'.booted = daemon.booted
      /\ daemon'.windows = daemon.windows /\ daemon'.focused_id = daemon.focused_id
      /\ daemon'.clipboard_owner = owner
  BY <1>1, <1>2, <1>3 DEF Daemons
<1>5. QED BY <1>3, <1>4 DEF Tidy, owner

LEMMA EndedParts ==
    ASSUME FeedType, EndStream
    PROVE  /\ events' \in Seq(Events)
           /\ \A i \in 1 .. Len(events') :
                 \/ events'[i].kind = "StreamLost"
                 \/ \E j \in 1 .. Len(events) : events'[i] = events[j]
<1> DEFINE e == [kind |-> "StreamLost"]
<1>1. PICK n \in 0 .. Len(events) : events' = Append(SubSeq(events, 1, n), e)
  BY DEF EndStream
<1>2. events \in Seq(Events)
  BY DEF FeedType
<1>3. e \in Events /\ e.kind = "StreamLost"
  <2>1. e \in Endings
    BY DEF Endings
  <2>2. QED BY <2>1, Zenon DEF Events
<1> HIDE DEF e
<1> DEFINE q == SubSeq(events, 1, n)
<1>4. n \in Int /\ 1 \in Int /\ \A i \in 1 .. n : i \in 1 .. Len(events)
  BY <1>1, <1>2
<1>5. /\ q \in Seq(Events) /\ Len(q) = n
      /\ \A i \in 1 .. n : q[i] = events[i]
  <2>1. \A i \in 1 .. n : events[i] \in Events
    BY <1>2, <1>4
  <2>2. /\ q \in Seq(Events) /\ Len(q) = IF 1 <= n THEN n - 1 + 1 ELSE 0
        /\ \A i \in 1 .. n - 1 + 1 : q[i] = events[1 + i - 1]
    BY <1>4, <2>1, SubSeqProperties
  <2> HIDE DEF q
  <2>3. n \in Nat
    BY <1>1, <1>2
  <2>4. QED BY <2>2, <2>3
<1> HIDE DEF q
<1>6. /\ events' \in Seq(Events) /\ Len(events') = n + 1
      /\ \A i \in 1 .. n : events'[i] = q[i]
      /\ events'[n + 1] = e
  BY <1>1, <1>3, <1>5, AppendProperties DEF q
<1>7. ASSUME NEW i \in 1 .. Len(events'), events'[i].kind # "StreamLost"
      PROVE  \E j \in 1 .. Len(events) : events'[i] = events[j]
  <2>1. i \in 1 .. n
    BY <1>3, <1>6, <1>7, <1>4
  <2>2. QED BY <2>1, <1>4, <1>5, <1>6
<1>8. QED BY <1>6, <1>7

(* The user's steps and the clipboard.                                     *)
LEMMA UserClips ==
    ASSUME FeedType, UserActs
    PROVE  \/ known' = (known /\ clips = <<>>) /\ clips' = clips /\ comp'.owner = comp.owner
           \/ Copy \/ Clear
<1>1. comp \in Comps
  BY DEF FeedType
<1>2. ASSUME NEW w \in Windows, Close(w)
      PROVE  known' = (known /\ clips = <<>>) /\ clips' = clips /\ comp'.owner = comp.owner
  BY <1>1, <1>2 DEF Close, Act, Unnoticed, Comps
<1>3. ASSUME NEW w \in Windows \cup {NoWindow}, MoveFocus(w)
      PROVE  known' = (known /\ clips = <<>>) /\ clips' = clips /\ comp'.owner = comp.owner
  BY <1>1, <1>3 DEF MoveFocus, Act, Unnoticed, Comps
<1>4. ASSUME NEW w \in Windows, NEW a \in Apps, Open(w, a)
      PROVE  known' = (known /\ clips = <<>>) /\ clips' = clips /\ comp'.owner = comp.owner
  BY <1>1, <1>4 DEF Open, Act, Unnoticed, Comps
<1>5. ASSUME NEW w \in Windows, NEW a \in Apps, Rename(w, a)
      PROVE  known' = (known /\ clips = <<>>) /\ clips' = clips /\ comp'.owner = comp.owner
  BY <1>1, <1>5 DEF Rename, Act, Unnoticed, Comps
<1>6. QED BY <1>2, <1>3, <1>4, <1>5 DEF UserActs

LEMMA UserType ==
    ASSUME FeedType, UserActs PROVE FeedType'
<1>1. UserStep
  BY UserWritten
<1>2. PICK c \in Comps, evs \in Seq(Events) : Written(c, evs)
  BY <1>1, Zenon DEF UserStep
<1>3. /\ comp' = c /\ FocusOpen(c) /\ stream' = stream /\ watcher' = watcher
      /\ daemon' = daemon /\ events' = IF stream = "up" THEN events \o evs ELSE events
  BY <1>2 DEF Written, Act
<1>4. events' \in Seq(Events)
  BY <1>3, ConcatProperties DEF FeedType
<1>5. clips' \in Seq(ClipEvents) /\ known' \in BOOLEAN
  <2>1. clips \in Seq(ClipEvents) /\ known \in BOOLEAN
    BY DEF FeedType, ClipEvents
  <2>2. CASE known' = (known /\ clips = <<>>) /\ clips' = clips
    BY <2>1, <2>2
  <2>3. CASE Copy
    BY <2>1, <2>3, AppendProperties DEF Copy, Reach, ClipEvents
  <2>4. CASE Clear
    BY <2>1, <2>4, AppendProperties DEF Clear, Reach, ClipEvents
  <2>5. QED BY <2>2, <2>3, <2>4, UserClips
<1>6. marked' \subseteq Windows /\ taken' \subseteq Windows /\ \A w \in taken' : comp'.app[w] = SelfApp
  BY <1>2, <1>3, FeedParts DEF Written, Act, FeedType
<1>7. QED BY <1>3, <1>4, <1>5, <1>6 DEF FeedType, ClipEvents

LEMMA FeedTypeInit == Init => FeedType
<1> SUFFICES ASSUME Init PROVE FeedType
  OBVIOUS
<1>1. PICK app \in FirstApps, focus \in Windows \cup {NoWindow} :
          /\ focus # NoWindow => app[focus] # NoApp
          /\ comp = [app |-> app, focus |-> focus, owner |-> NoApp]
  BY DEF Init
<1>2. comp \in Comps /\ FocusOpen(comp)
  BY <1>1, FeedAssumption DEF Comps, FocusOpen
<1>3. daemon \in Daemons /\ Tidy(daemon)
  BY RowParts, TableRows DEF Init, Daemons, Tidy
<1>4. events \in Seq(Events) /\ clips \in Seq({"OwnerChanged", "Cleared"})
  BY EmptySeq DEF Init
<1>5. QED BY <1>2, <1>3, <1>4 DEF Init, FeedType

LEMMA FeedTypeNext == FeedType /\ [Next]_vars => FeedType'
<1> SUFFICES ASSUME FeedType, [Next]_vars PROVE FeedType'
  OBVIOUS
<1>1. CASE TakeEvent
  <2>1. daemon' \in Daemons /\ Tidy(daemon')
    BY <1>1, TakenType, Zenon DEF After
  <2>2. events' \in Seq(Events)
    BY <1>1, HeadTailProperties DEF FeedType, TakeEvent
  <2>3. QED BY <1>1, <2>1, <2>2 DEF FeedType, TakeEvent, hist
<1>2. CASE TakeClip
  <2>1. clips' \in Seq({"OwnerChanged", "Cleared"})
    BY <1>2, HeadTailProperties DEF FeedType, TakeClip
  <2>2. QED BY <1>2, <2>1, ClipParts DEF FeedType, TakeClip, hist
<1>3. CASE Boot
  BY <1>3, BootParts DEF FeedType, Boot, hist
<1>4. CASE EndStream
  BY <1>4, EndedParts DEF FeedType, EndStream, hist
<1>5. CASE Reconnect
  BY <1>5, ReconnectArrives DEF FeedType, Reconnect
<1>6. CASE EndWatch
  BY <1>6 DEF FeedType, EndWatch, hist
<1>7. CASE Bind
  BY <1>7, ConcatEmptySeq DEF FeedType, Bind, InitialDropped, hist
<1>8. CASE UserActs
  BY <1>8, UserType
<1>9. CASE UNCHANGED vars
  BY <1>9 DEF FeedType, vars, hist
<1>10. QED BY <1>1, <1>2, <1>3, <1>4, <1>5, <1>6, <1>7, <1>8, <1>9 DEF Next

LEMMA ArrivesNext == FeedType /\ Arrives /\ [Next]_vars => Arrives'
<1> SUFFICES ASSUME FeedType, Arrives, [Next]_vars PROVE Arrives'
  OBVIOUS
<1>1. CASE TakeEvent
  BY <1>1, TakenArrives
<1>2. CASE TakeClip
  BY <1>2, ClipParts, QuietArrives DEF TakeClip, hist
<1>3. CASE Boot
  BY <1>3, QuietArrives DEF Boot, hist
<1>4. CASE EndStream
  BY <1>4 DEF EndStream, Arrives
<1>5. CASE Reconnect
  BY <1>5, ReconnectArrives
<1>6. CASE EndWatch
  BY <1>6, QuietArrives DEF EndWatch, hist
<1>7. CASE Bind
  BY <1>7, QuietArrives DEF Bind, hist
<1>8. CASE UserActs
  BY <1>8, UserWritten, UserArrives
<1>9. CASE UNCHANGED vars
  BY <1>9, QuietArrives DEF vars, hist
<1>10. QED BY <1>1, <1>2, <1>3, <1>4, <1>5, <1>6, <1>7, <1>8, <1>9 DEF Next

(* What follows when nothing is on its way.                                *)
LEMMA ArrivedAll ==
    ASSUME FeedType, Arrives, stream = "up", events = <<>>
    PROVE  /\ \A w \in Windows :
                 /\ w \notin taken => daemon.windows[w].app = AppOf(w)
                 /\ Judged(w) => (daemon.windows[w].focused <=> comp.focus = w)
           /\ marked = {} => \A w \in Windows : daemon.windows[w].focused => daemon.focused_id = w
<1>1. \A w \in Windows : AppArrives(w) /\ FocusArrives(w)
  BY DEF Arrives
<1>2. Without(events, SaysId) /\ \A w \in Windows : /\ Without(events, SaysApp(w))
                                                    /\ Without(events, SaysFocus(w))
  BY NothingComing
<1>3. marked = {} => \A w \in Windows : daemon.windows[w].focused => daemon.focused_id = w
  BY <1>2 DEF Arrives, IdArrives
<1>4. QED BY <1>1, <1>2, <1>3, Zenon DEF AppArrives, FocusArrives

LEMMA TableArrived == FeedType /\ Arrives => TableFollows
<1> SUFFICES ASSUME FeedType, Arrives, daemon.booted, stream = "up", events = <<>>
             PROVE  LET seen == WithoutSelf(Reported(comp))
                    IN  /\ \A w \in Windows \ taken :
                              /\ daemon.windows[w].app = seen[w].app
                              /\ seen[w].focused => daemon.windows[w].focused
                        /\ \A w \in FocusedIn(daemon.windows) : w = comp.focus \/ w \in marked
                        /\ marked = {} => FocusedIn(daemon.windows) \subseteq {daemon.focused_id}
  BY DEF TableFollows
<1>1. comp \in Comps /\ FocusOpen(comp)
  BY DEF FeedType
<1> DEFINE seen == WithoutSelf(Reported(comp))
<1>2. \A w \in Windows :
          /\ seen[w].app = AppOf(w)
          /\ seen[w].focused => comp.focus = w /\ comp.app[w] # SelfApp
  BY <1>1, ReportedParts DEF AppOf
<1>3. /\ \A w \in Windows :
            /\ w \notin taken => daemon.windows[w].app = AppOf(w)
            /\ Judged(w) => (daemon.windows[w].focused <=> comp.focus = w)
      /\ marked = {} => \A w \in Windows : daemon.windows[w].focused => daemon.focused_id = w
  BY ArrivedAll
<1> HIDE DEF seen
<1>4. \A w \in Windows \ taken : /\ daemon.windows[w].app = seen[w].app
                                 /\ seen[w].focused => daemon.windows[w].focused
  BY <1>2, <1>3 DEF Judged
<1>5. \A w \in FocusedIn(daemon.windows) : w = comp.focus \/ w \in marked
  BY <1>3 DEF Judged, FocusedIn
<1>6. marked = {} => FocusedIn(daemon.windows) \subseteq {daemon.focused_id}
  BY <1>3 DEF FocusedIn
<1>7. QED BY <1>4, <1>5, <1>6 DEF seen

-----------------------------------------------------------------------------
(* Copies.                                                                 *)

(* Handling what is on its way changes nothing of the focus.               *)
LEMMA CaughtUpTaken ==
    ASSUME FeedType, CaughtUp, TakeEvent PROVE CaughtUp'
<1> DEFINE e == Head(events)
<1>1. e \in Events /\ After(e, daemon, daemon')
  BY TakenType
<1>2. /\ comp \in Comps /\ FocusOpen(comp) /\ comp' = comp
      /\ events \in Seq(Events) /\ events # <<>> /\ events' = Tail(events)
  BY DEF FeedType, TakeEvent
<1>3. /\ e = events[1] /\ Len(events) \in Nat \ {0}
      /\ Len(events') = Len(events) - 1
      /\ \A i \in 1 .. Len(events') : events'[i] = events[i + 1]
  BY <1>2, HeadTailProperties, EmptySeq
<1>4. \/ e.kind = "StreamLost"
      \/ e.kind = "Snapshot" /\ e.table = Reported(comp)
  BY <1>3 DEF CaughtUp
<1>5. \A i \in 1 .. Len(events') :
          \/ events'[i].kind = "StreamLost"
          \/ events'[i].kind = "Snapshot" /\ events'[i].table = Reported(comp)
  BY <1>3 DEF CaughtUp
<1> HIDE DEF e
<1>6. daemon'.booted /\ daemon' \in Daemons /\ Tidy(daemon')
  BY <1>1, Zenon DEF After, CaughtUp
<1>7. comp.focus \in Windows /\ comp.app[comp.focus] # NoApp
  BY FeedParts DEF CaughtUp
<1>8. CASE e.kind = "StreamLost"
  <2>1. e \notin SaysId /\ \A w \in Windows : e \notin SaysApp(w) /\ e \notin SaysFocus(w) /\ e \notin Closes(w)
    BY <1>8 DEF SaysApp, SaysFocus, Closes, SaysId
  <2>2. /\ daemon'.focused_id = daemon.focused_id
        /\ \A w \in Windows : /\ daemon'.windows[w].app = daemon.windows[w].app
                              /\ daemon'.windows[w].focused <=> daemon.windows[w].focused
    BY <2>1, <1>1, Zenon DEF After
  <2>3. KnowsFocus'
    BY <1>2, <1>7, <2>2 DEF CaughtUp, KnowsFocus, AppOf
  <2>4. QED BY <1>2, <1>5, <1>6, <1>7, <2>3 DEF CaughtUp
<1>9. CASE e.kind = "Snapshot" /\ e.table = Reported(comp)
  <2>1. ASSUME NEW w \in Windows
        PROVE  /\ daemon'.windows[w].app = AppOf(w)
               /\ daemon'.windows[w].focused <=> comp.focus = w /\ comp.app[w] # SelfApp
    <3>1. /\ WithoutSelf(Reported(comp))[w].app = AppOf(w)
          /\ Reported(comp)[w].focused <=> comp.focus = w
      BY <1>2, ReportedParts DEF AppOf
    <3>2. e \in SaysApp(w) /\ e \in SaysFocus(w)
      BY <1>9, <1>1 DEF SaysApp, SaysFocus
    <3>3. e \in AppIs(w, daemon'.windows[w].app)
      BY <3>2, <1>1, Zenon DEF After
    <3>4. daemon'.windows[w].app = AppOf(w)
      BY <3>3, <1>9, <3>1, Zenon DEF AppIs
    <3>5. e \in FocusIs(w, comp.focus)
      BY <1>9, <1>1, <3>1, Zenon DEF FocusIs
    <3>6. comp.focus \in Windows \cup {NoWindow}
      BY FeedParts
    <3>7. daemon'.windows[w].app # NoApp => (daemon'.windows[w].focused <=> comp.focus = w)
      BY <3>2, <3>5, <3>6, <1>1, Zenon DEF After
    <3>8. daemon'.windows[w].app = NoApp => ~daemon'.windows[w].focused
      BY <1>6, Zenon DEF Tidy
    <3>9. comp.app[w] = NoApp => comp.focus # w
      BY FeedParts
    <3>10. CASE comp.app[w] = SelfApp
      BY <3>10, <3>4, <3>8 DEF AppOf
    <3>11. CASE comp.app[w] # SelfApp
      BY <3>11, <3>4, <3>7, <3>8, <3>9 DEF AppOf
    <3>12. QED BY <3>10, <3>11
  <2>2. e \in SaysId
    BY <1>9, <1>1 DEF SaysId
  <2>3. OneId(daemon')
    BY <2>2, <1>1, Zenon DEF After
  <2>4. \A w \in Windows : daemon'.windows[w].focused => daemon'.focused_id = w
    <3>1. \A v, w \in Windows : daemon'.windows[v].focused /\ daemon'.windows[w].focused => v = w
      BY <2>1
    <3>2. QED BY <2>3, <3>1, Zenon DEF OneId
  <2>5. KnowsFocus'
    <3>1. /\ daemon'.windows[comp.focus].app = AppOf(comp.focus)
          /\ daemon'.windows[comp.focus].focused <=> comp.app[comp.focus] # SelfApp
          /\ \A w \in Windows : daemon'.windows[w].focused => comp.focus = w
      BY <1>7, <2>1
    <3>2. QED BY <1>2, <2>4, <3>1 DEF KnowsFocus, AppOf
  <2>6. QED BY <1>2, <1>5, <1>6, <1>7, <2>5 DEF CaughtUp
<1>10. QED BY <1>4, <1>8, <1>9

LEMMA CopyInit == Init => CopyArrives /\ OwnerKnown
BY DEF Init, CopyArrives, OwnerKnown

(* The clipboard's event is handled in time.                               *)
LEMMA ClipTaken ==
    ASSUME FeedType, CopyArrives, TakeClip PROVE CopyArrives' /\ OwnerKnown'
<1>1. /\ clips \in Seq({"OwnerChanged", "Cleared"}) /\ clips # <<>> /\ clips' = Tail(clips)
      /\ known' = known /\ comp' = comp /\ events' = events
  BY DEF FeedType, TakeClip
<1>2. /\ Len(clips) \in Nat \ {0} /\ Head(clips) = clips[1]
      /\ clips' \in Seq({"OwnerChanged", "Cleared"})
      /\ Len(clips') = Len(clips) - 1
      /\ \A i \in 1 .. Len(clips') : clips'[i] = clips[i + 1]
  BY <1>1, HeadTailProperties, EmptySeq
<1>3. CopyArrives'
  <2> SUFFICES ASSUME known, clips' # <<>>
               PROVE  clips'[Len(clips')] = "Cleared" /\ comp'.owner = NoApp
    BY <1>1 DEF CopyArrives
  <2>1. Len(clips') \in Nat \ {0}
    BY <1>2, EmptySeq
  <2>2. Len(clips) # 1
    BY <1>2, <2>1
  <2>3. clips # <<"OwnerChanged">>
    BY <2>2
  <2>4. clips[Len(clips)] = "Cleared" /\ comp.owner = NoApp
    BY <1>1, <2>3 DEF CopyArrives
  <2>5. Len(clips') \in 1 .. Len(clips') /\ Len(clips') + 1 = Len(clips)
    BY <1>2, <2>1
  <2>6. clips'[Len(clips')] = clips[Len(clips)]
    BY <1>2, <2>5
  <2>7. QED BY <2>4, <2>6, <1>1
<1>4. OwnerKnown'
  <2> SUFFICES ASSUME known, clips' = <<>>
               PROVE  daemon'.clipboard_owner =
                        IF comp.owner = SelfApp THEN NoApp ELSE comp.owner
    BY <1>1 DEF OwnerKnown
  <2>1. Len(clips) = 1
    BY <1>2
  <2>2. CASE clips[Len(clips)] = "Cleared" /\ comp.owner = NoApp
    BY <2>1, <2>2, <1>2, ClipParts, Assumed
  <2>3. CASE /\ clips = <<"OwnerChanged">> /\ CaughtUp
             /\ comp.owner = comp.app[comp.focus]
    <3> DEFINE f == comp.focus
               id == daemon.focused_id
    <3>1. Head(clips) = "OwnerChanged"
      BY <2>3, <1>2
    <3>2. /\ comp \in Comps /\ FocusOpen(comp) /\ f \in Windows
          /\ id \in Windows \cup {NoWindow} /\ Tidy(daemon)
          /\ comp.app[f] # NoApp
      BY <2>3, FeedParts DEF FeedType, FocusOpen, CaughtUp
    <3>3. /\ daemon.windows[f].app = AppOf(f)
          /\ daemon.windows[f].focused <=> comp.app[f] # SelfApp
          /\ \A w \in Windows : daemon.windows[w].focused => f = w /\ id = w
      BY <2>3 DEF CaughtUp, KnowsFocus
    <3>4. daemon'.clipboard_owner = IF id = NoWindow THEN NoApp ELSE daemon.windows[id].app
      BY <3>1, ClipParts
    <3>5. CASE comp.app[f] = SelfApp
      <4>1. \A w \in Windows : ~daemon.windows[w].focused
        BY <3>3, <3>5
      <4>2. id # NoWindow => daemon.windows[id].app = NoApp
        BY <4>1, <3>2 DEF Tidy
      <4>3. QED BY <2>3, <3>4, <3>5, <4>2
    <3>6. CASE comp.app[f] # SelfApp
      <4>1. daemon.windows[f].focused /\ id = f
        BY <3>2, <3>3, <3>6
      <4>2. daemon.windows[f].app = comp.app[f]
        BY <3>2, <3>3, <3>6 DEF AppOf
      <4>3. QED BY <2>3, <3>2, <3>4, <3>6, <4>1, <4>2, Assumed
    <3>7. QED BY <3>5, <3>6
  <2>4. QED BY <2>2, <2>3, <1>1 DEF CopyArrives
<1>5. QED BY <1>3, <1>4

LEMMA UserCopies ==
    ASSUME FeedType, Arrives, CopyArrives, OwnerKnown, UserActs
    PROVE  CopyArrives' /\ OwnerKnown'
<1>1. PICK c \in Comps, evs \in Seq(Events) : Written(c, evs)
  BY UserWritten, Zenon DEF UserStep
<1>2. daemon' = daemon /\ clips \in Seq({"OwnerChanged", "Cleared"})
  BY <1>1 DEF Written, Act, FeedType
<1>3. CASE known' = (known /\ clips = <<>>) /\ clips' = clips /\ comp'.owner = comp.owner
  BY <1>2, <1>3 DEF CopyArrives, OwnerKnown
<1>4. CASE Copy
  <2> SUFFICES ASSUME known'
               PROVE  /\ clips' # <<>> /\ clips' = <<"OwnerChanged">> /\ CaughtUp'
                      /\ comp'.owner = comp'.app[comp'.focus]
    BY Zenon DEF CopyArrives, OwnerKnown
  <2>1. Settled /\ watcher = "listening" /\ marked = {} /\ comp.focus \notin taken
    BY <1>4 DEF Copy
  <2>2. clips' = <<"OwnerChanged">>
    BY <1>4, <2>1 DEF Copy, Reach, Settled
  <2>3. /\ comp'.app = comp.app /\ comp'.focus = comp.focus
        /\ comp'.owner = comp.app[comp.focus] /\ comp.focus # NoWindow
        /\ events' = events
    BY <1>4, <2>1 DEF Copy, Act, Settled, FeedType, Comps
  <2>4. /\ daemon.booted /\ comp.focus \in Windows
        /\ \A w \in Windows :
              /\ w \notin taken => daemon.windows[w].app = AppOf(w)
              /\ Judged(w) => (daemon.windows[w].focused <=> comp.focus = w)
        /\ \A w \in Windows : daemon.windows[w].focused => daemon.focused_id = w
    BY <2>1, <2>3, ArrivedAll, FeedParts DEF Settled
  <2>5. \A w \in Windows : comp.focus # w => Judged(w)
    BY <2>1 DEF Judged
  <2>6. daemon.windows[comp.focus].app = AppOf(comp.focus)
    BY <2>1, <2>4
  <2>7. daemon.windows[comp.focus].focused <=> comp.app[comp.focus] # SelfApp
    <3>1. CASE comp.app[comp.focus] = SelfApp
      BY <2>4, <2>6, <3>1 DEF FeedType, Tidy, AppOf
    <3>2. CASE comp.app[comp.focus] # SelfApp
      BY <2>4, <3>2 DEF Judged
    <3>3. QED BY <3>1, <3>2
  <2>8. KnowsFocus
    BY <2>4, <2>5, <2>6, <2>7 DEF KnowsFocus
  <2>9. Len(events') = 0
    BY <2>1, <2>3 DEF Settled
  <2>10. KnowsFocus'
    BY <1>2, <2>3, <2>8 DEF KnowsFocus, AppOf
  <2>11. CaughtUp'
    BY <1>2, <2>3, <2>4, <2>9, <2>10 DEF CaughtUp
  <2>12. QED BY <2>2, <2>3, <2>11
<1>5. CASE Clear
  <2> SUFFICES ASSUME known'
               PROVE  clips' # <<>> /\ clips'[Len(clips')] = "Cleared" /\ comp'.owner = NoApp
    BY DEF CopyArrives, OwnerKnown
  <2>1. watcher = "listening"
    BY <1>5 DEF Clear
  <2>2. clips' = Append(clips, "Cleared")
    BY <1>5, <2>1 DEF Clear, Reach
  <2>3. comp'.owner = NoApp
    BY <1>5 DEF Clear, Act, FeedType, Comps
  <2>4. QED BY <1>2, <2>2, <2>3, AppendProperties
<1>6. QED BY <1>3, <1>4, <1>5, UserClips

LEMMA CopyNext ==
    FeedType /\ Arrives /\ CopyArrives /\ OwnerKnown /\ [Next]_vars => CopyArrives' /\ OwnerKnown'
<1> SUFFICES ASSUME FeedType, Arrives, CopyArrives, OwnerKnown, [Next]_vars
             PROVE  CopyArrives' /\ OwnerKnown'
  OBVIOUS
<1>1. CASE TakeEvent
  <2>1. daemon'.clipboard_owner = daemon.clipboard_owner
    BY <1>1, TakenType, Zenon DEF After
  <2>2. known' = known /\ clips' = clips /\ comp' = comp
    BY <1>1 DEF TakeEvent
  <2>3. CaughtUp => CaughtUp'
    BY <1>1, CaughtUpTaken
  <2>4. QED BY <2>1, <2>2, <2>3 DEF CopyArrives, OwnerKnown
<1>2. CASE TakeClip
  BY <1>2, ClipTaken
<1>3. CASE Boot
  <2>1. daemon'.clipboard_owner = daemon.clipboard_owner
    BY <1>3, BootParts
  <2>2. known' = known /\ clips' = clips /\ comp' = comp /\ ~daemon.booted
    BY <1>3 DEF Boot
  <2>3. ~CaughtUp
    BY <2>2 DEF CaughtUp
  <2>4. QED BY <2>1, <2>2, <2>3 DEF CopyArrives, OwnerKnown
<1>4. CASE EndStream
  <2>1. known' = known /\ clips' = clips /\ comp' = comp /\ daemon' = daemon
    BY <1>4 DEF EndStream
  <2>2. CaughtUp => CaughtUp'
    BY <1>4, <2>1, EndedParts DEF CaughtUp, KnowsFocus, AppOf
  <2>3. QED BY <2>1, <2>2 DEF CopyArrives, OwnerKnown
<1>5. CASE Reconnect
  <2>1. known' = known /\ clips' = clips /\ comp' = comp /\ daemon' = daemon
    BY <1>5 DEF Reconnect
  <2>2. ASSUME CaughtUp PROVE CaughtUp'
    <3> DEFINE e == [kind |-> "Snapshot", table |-> Reported(comp)]
    <3>1. events' = Append(events, e) /\ events \in Seq(Events)
      BY <1>5 DEF Reconnect, FeedType
    <3>2. e.kind = "Snapshot" /\ e.table = Reported(comp)
      OBVIOUS
    <3> HIDE DEF e
    <3>3. Len(events') = Len(events) + 1 /\ events'[Len(events) + 1] = e
          /\ \A i \in 1 .. Len(events) : events'[i] = events[i]
      BY <3>1
    <3>4. \A i \in 1 .. Len(events') :
            \/ events'[i].kind = "StreamLost"
            \/ events'[i].kind = "Snapshot" /\ events'[i].table = Reported(comp)
      <4> TAKE i \in 1 .. Len(events')
      <4>1. i = Len(events) + 1 \/ i \in 1 .. Len(events)
        BY <3>1, <3>3
      <4>2. QED BY <2>2, <3>2, <3>3, <4>1 DEF CaughtUp
    <3>5. QED BY <2>1, <2>2, <3>4 DEF CaughtUp, KnowsFocus, AppOf
  <2>3. QED BY <2>1, <2>2 DEF CopyArrives, OwnerKnown
<1>6. CASE EndWatch
  BY <1>6 DEF EndWatch, CopyArrives, OwnerKnown, CaughtUp, KnowsFocus, AppOf
<1>7. CASE Bind
  <2>1. clips' = clips
    BY <1>7, ConcatEmptySeq DEF FeedType, Bind, InitialDropped
  <2>2. QED BY <1>7, <2>1 DEF Bind, CopyArrives, OwnerKnown, CaughtUp, KnowsFocus, AppOf
<1>8. CASE UserActs
  BY <1>8, UserCopies
<1>9. CASE UNCHANGED vars
  BY <1>9 DEF vars, CopyArrives, OwnerKnown, CaughtUp, KnowsFocus, AppOf
<1>10. QED BY <1>1, <1>2, <1>3, <1>4, <1>5, <1>6, <1>7, <1>8, <1>9 DEF Next

-----------------------------------------------------------------------------
(* The theorems.                                                           *)

LEMMA FeedInvariant == Spec => []FeedInv
<1>1. Init => FeedInv
  BY FeedTypeInit, CopyInit DEF FeedInv, Arrives, Init
<1>2. FeedInv /\ [Next]_vars => FeedInv'
  BY FeedTypeNext, ArrivesNext, CopyNext DEF FeedInv
<1>3. QED BY <1>1, <1>2, PTL DEF Spec

(* Whatever the windows and apps, every variable keeps its type.           *)
THEOREM FeedTypeCorrect == Spec => []TypeOK
<1>1. FeedInv => TypeOK
  <2> SUFFICES ASSUME FeedType PROVE TypeOK
    BY DEF FeedInv
  <2>1. \A i \in 1 .. Len(clips) : clips[i] \in {"OwnerChanged", "Cleared"}
    BY DEF FeedType
  <2>2. QED BY <2>1 DEF FeedType, TypeOK, Comps, Daemons
<1>2. QED BY <1>1, FeedInvariant, PTL

(* With nothing on its way the table has the compositor's windows and      *)
(* focus, whatever the bootstrap fetch overtook and whatever a stream that *)
(* ended swallowed; and a window that lost the focus counts as focused     *)
(* only if no focus event and no snapshot came since.                      *)
THEOREM TableCatchesUp == Spec => []TableFollows
<1>1. FeedInv => TableFollows
  BY TableArrived DEF FeedInv
<1>2. QED BY <1>1, FeedInvariant, PTL

(* A copy that was made after a focus event or a snapshot, and handled     *)
(* before anything changed, is its maker's, across streams and watchers    *)
(* that end.                                                               *)
THEOREM CopiesAreAttributed == Spec => []OwnerKnown
<1>1. FeedInv => OwnerKnown
  BY DEF FeedInv
<1>2. QED BY <1>1, FeedInvariant, PTL
=============================================================================
