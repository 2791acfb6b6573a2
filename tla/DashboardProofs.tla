--------------------------- MODULE DashboardProofs ---------------------------
(***************************************************************************)
(* Proofs about module Dashboard, for any hosts, ports, variables, texts   *)
(* and any number of events and failures: the types, that the page goes on *)
(* polling and polls once at a time, that the interface selected is one of *)
(* the host selected, and that the + button shows a longer time.           *)
(***************************************************************************)
EXTENDS Dashboard, SequenceTheorems, TLAPS

\* A page whose user waits for the answers has one request under way or one
\* timer running. While it waits for the interfaces of a host it polls only if
\* the selection is not complete, and fetch_timeout is the timer running.
PollInv ==
    ~hasty =>
        /\ timers + Len(gets) <= 1
        /\ Len(lists) <= 1
        /\ timers > 0 => last
        /\ lists # <<>> => gets = <<>> /\ (Selected => timers = 0)
        /\ lists # <<>> /\ lists[1] = All => timers = 0

\* If all answers come, too, the interfaces offered, asked for and selected are
\* those of the host selected; before the hosts are known there is none.
MatchInv ==
    ~hasty /\ ~lost =>
        /\ iface \in Interfaces => iface[1] = host
        /\ lists = <<>> /\ options # None => options = host
        /\ lists # <<>> => lists[1] = All \/ lists[1] = InterfacesOf(host)
        /\ lists # <<>> /\ lists[1] = All => iface = Dialer0

-----------------------------------------------------------------------------
\* A request that is answered leaves the requests under way.
LEMMA RemoveFacts ==
    ASSUME NEW S, NEW s \in Seq(S), NEW i \in DOMAIN s
    PROVE  /\ s[i] \in S /\ Len(s) \in Nat /\ Len(s) >= 1
           /\ RemoveAt(s, i) \in Seq(S)
           /\ Len(RemoveAt(s, i)) = Len(s) - 1
           /\ Len(s) = 1 => i = 1 /\ RemoveAt(s, i) = <<>>
<1>1. /\ Len(s) \in Nat /\ DOMAIN s = 1..Len(s) /\ i \in 1..Len(s)
      /\ \A k \in 1..Len(s) : s[k] \in S
  BY LenProperties, ElementOfSeq
<1>2. /\ 1 \in Int /\ i - 1 \in Int /\ i + 1 \in Int /\ Len(s) \in Int
      /\ \A k \in 1..(i - 1) : s[k] \in S
      /\ \A k \in (i + 1)..Len(s) : s[k] \in S
  BY <1>1
<1>3. /\ SubSeq(s, 1, i - 1) \in Seq(S)
      /\ Len(SubSeq(s, 1, i - 1)) = IF 1 <= i - 1 THEN i - 1 - 1 + 1 ELSE 0
  BY <1>2, SubSeqProperties
<1>4. /\ SubSeq(s, i + 1, Len(s)) \in Seq(S)
      /\ Len(SubSeq(s, i + 1, Len(s))) =
            IF i + 1 <= Len(s) THEN Len(s) - (i + 1) + 1 ELSE 0
  BY <1>2, SubSeqProperties
<1>5. /\ Len(SubSeq(s, 1, i - 1)) = i - 1
      /\ Len(SubSeq(s, i + 1, Len(s))) = Len(s) - i
  BY <1>1, <1>3, <1>4
<1>6. /\ RemoveAt(s, i) \in Seq(S)
      /\ Len(RemoveAt(s, i)) = Len(SubSeq(s, 1, i - 1)) + Len(SubSeq(s, i + 1, Len(s)))
  BY <1>3, <1>4, ConcatProperties DEF RemoveAt
<1>7. Len(RemoveAt(s, i)) = Len(s) - 1
  BY <1>1, <1>5, <1>6
<1>8. Len(s) = 1 => RemoveAt(s, i) = <<>>
  BY <1>6, <1>7, EmptySeq
<1> QED
  BY <1>1, <1>6, <1>7, <1>8

\* A request that is sent is added to those under way.
LEMMA AddFacts ==
    ASSUME NEW S, NEW s \in Seq(S), NEW e \in S
    PROVE  /\ Append(s, e) \in Seq(S) /\ Append(s, e) # <<>>
           /\ Len(s) \in Nat /\ Len(Append(s, e)) = Len(s) + 1
           /\ s = <<>> <=> Len(s) = 0
           /\ s = <<>> => Append(s, e)[1] = e
<1>1. /\ Append(s, e) \in Seq(S) /\ Len(Append(s, e)) = Len(s) + 1 /\ Len(s) \in Nat
      /\ Append(s, e)[Len(s) + 1] = e
  BY AppendProperties, LenProperties
<1> QED
  BY <1>1, EmptySeq

\* NiceDuration of a duration is a text the page can show.
LEMMA NiceFacts ==
    ASSUME NEW d \in Nat \cup {NaN}
    PROVE  NiceDuration(d) \in Texts
<1>1. DOMAIN Units = {"y", "w", "d", "h", "m", "s"}
  BY DEF Units
<1>2. /\ Half("y") = 63072000 /\ Half("w") = 1209600 /\ Half("d") = 172800
      /\ Half("h") = 7200 /\ Half("m") = 120 /\ Half("s") = 2
  BY DEF Half, Units
<1>3. CASE d <= 0
  BY <1>2, <1>3 DEF NiceDuration, Texts, NaN
<1>4. CASE d > 0
  <2>1. d \in Nat
    BY <1>4 DEF NaN
  <2>2. ASSUME NEW u \in DOMAIN Units PROVE In(d, u) \in Texts
    <3>1. Half(u) \in Nat /\ Half(u) > 0
      BY <1>1, <1>2
    <3>2. d \div Half(u) \in Nat
      BY <2>1, <3>1
    <3> QED
      BY <3>2 DEF In, Texts
  <2>3. \E u \in DOMAIN Units : NiceDuration(d) = In(d, u)
    <3>1. CASE d > Half("y")
      BY <1>1, <1>2, <2>1, <3>1 DEF NiceDuration
    <3>2. CASE d <= Half("y") /\ d >= Half("w")
      BY <1>1, <1>2, <2>1, <3>2 DEF NiceDuration
    <3>3. CASE d < Half("w") /\ d >= Half("d")
      BY <1>1, <1>2, <2>1, <3>3 DEF NiceDuration
    <3>4. CASE d < Half("d") /\ d >= Half("h")
      BY <1>1, <1>2, <2>1, <3>4 DEF NiceDuration
    <3>5. CASE d < Half("h") /\ d >= Half("m")
      BY <1>1, <1>2, <2>1, <3>5 DEF NiceDuration
    <3>6. CASE d < Half("m")
      BY <1>1, <1>2, <1>4, <2>1, <3>6 DEF NiceDuration
    <3> QED
      BY <1>2, <2>1, <3>1, <3>2, <3>3, <3>4, <3>5, <3>6
  <2> QED
    BY <2>2, <2>3
<1> QED
  BY <1>3, <1>4 DEF NaN

\* What the page parses, doubles or halves is a duration again.
LEMMA ParseFacts ==
    ASSUME NEW t \in Texts
    PROVE  /\ ParseDuration(t) \in Nat \cup {NaN}
           /\ Twice(ParseDuration(t)) \in Nat \cup {NaN}
           /\ Halved(ParseDuration(t)) \in Nat \cup {NaN}
<1>1. ParseDuration(t) \in Nat \cup {NaN}
  <2>1. CASE t = Blank
    BY <2>1 DEF ParseDuration
  <2>2. CASE t # Blank
    <3>1. t.n \in Nat /\ t.unit \in DOMAIN Units
      BY <2>2 DEF Texts
    <3>2. Half(t.unit) \in Nat
      BY <3>1 DEF Half, Units
    <3>3. t.n * Half(t.unit) \in Nat
      BY <3>1, <3>2
    <3> QED
      BY <2>2, <3>3 DEF ParseDuration
  <2> QED
    BY <2>1, <2>2
<1>2. ASSUME NEW d \in Nat \cup {NaN}
      PROVE  Twice(d) \in Nat \cup {NaN} /\ Halved(d) \in Nat \cup {NaN}
  BY DEF Twice, Halved, NaN
<1> QED
  BY <1>1, <1>2

\* Rounded down to a whole number of its unit, a duration of a second or more
\* keeps more than half of itself.
LEMMA RoundFacts ==
    ASSUME NEW d \in Nat, d >= 2
    PROVE  Twice(ParseDuration(NiceDuration(d))) > d
<1>2. /\ Half("y") = 63072000 /\ Half("w") = 1209600 /\ Half("d") = 172800
      /\ Half("h") = 7200 /\ Half("m") = 120 /\ Half("s") = 2
  BY DEF Half, Units
<1>3. ASSUME NEW u \in {"y", "w", "d", "h", "m", "s"}, d >= Half(u)
      PROVE  Twice(ParseDuration(In(d, u))) > d
  <2>1. Half(u) \in Nat /\ Half(u) >= 1
    BY <1>2
  <2> DEFINE h == Half(u)
             q == d \div h
             p == q * h
  <2>2. q \in Nat
    BY <2>1
  <2>3. ParseDuration(In(d, u)) = p
    BY DEF ParseDuration, In, Blank
  <2>4. p \in Nat /\ 2 * p > d
    <3>1. CASE u = "y"
      BY <1>2, <1>3, <3>1
    <3>2. CASE u = "w"
      BY <1>2, <1>3, <3>2
    <3>3. CASE u = "d"
      BY <1>2, <1>3, <3>3
    <3>4. CASE u = "h"
      BY <1>2, <1>3, <3>4
    <3>5. CASE u = "m"
      BY <1>2, <1>3, <3>5
    <3>6. CASE u = "s"
      BY <1>2, <1>3, <3>6
    <3> QED
      BY <3>1, <3>2, <3>3, <3>4, <3>5, <3>6
  <2> HIDE DEF p
  <2>5. Twice(p) = 2 * p
    BY <2>4 DEF Twice, NaN
  <2> QED
    BY <2>3, <2>4, <2>5
<1>4. \E u \in {"y", "w", "d", "h", "m", "s"} : NiceDuration(d) = In(d, u) /\ d >= Half(u)
  <2>1. CASE d > Half("y")
    BY <1>2, <2>1 DEF NiceDuration
  <2>2. CASE d <= Half("y") /\ d >= Half("w")
    BY <1>2, <2>2 DEF NiceDuration
  <2>3. CASE d < Half("w") /\ d >= Half("d")
    BY <1>2, <2>3 DEF NiceDuration
  <2>4. CASE d < Half("d") /\ d >= Half("h")
    BY <1>2, <2>4 DEF NiceDuration
  <2>5. CASE d < Half("h") /\ d >= Half("m")
    BY <1>2, <2>5 DEF NiceDuration
  <2>6. CASE d < Half("m")
    BY <1>2, <2>6 DEF NiceDuration
  <2> QED
    BY <1>2, <2>1, <2>2, <2>3, <2>4, <2>5, <2>6
<1> QED
  BY <1>3, <1>4

\* What FetchData does: nothing, or one more request and one timer less.
LEMMA FetchFacts ==
    ASSUME TypeOK, NEW t \in Nat, NEW l \in BOOLEAN, l => t > 0, FetchData(t, l),
           host' \in Hosts \cup {None}, iface' \in Interfaces \cup {Dialer0, None},
           variable' \in Variables, type' \in Types, duration' \in Nat \cup {NaN}
    PROVE  /\ gets' \in Seq(Requests) /\ timers' \in Nat /\ last' \in BOOLEAN
           /\ last' => timers' > 0
           /\ ~ Selected' => gets' = gets /\ timers' = t /\ last' = l
           /\ Selected' => /\ gets' # <<>> /\ Len(gets') = Len(gets) + 1
                           /\ timers' = (IF l THEN t - 1 ELSE t) /\ last' = FALSE
<1>1. gets \in Seq(Requests)
  BY DEF TypeOK
<1>2. CASE ~ Selected'
  BY <1>1, <1>2 DEF FetchData
<1>3. CASE Selected'
  <2>1. Selection' \in Requests
    BY <1>3 DEF Selected, Selection, Requests
  <2>2. /\ gets' = Append(gets, Selection') /\ timers' = (IF l THEN t - 1 ELSE t)
        /\ last' = FALSE
    BY <1>3 DEF FetchData
  <2>3. /\ gets' \in Seq(Requests) /\ gets' # <<>> /\ Len(gets') = Len(gets) + 1
    BY <1>1, <2>1, <2>2, AddFacts
  <2>4. timers' \in Nat
    BY <2>2
  <2> QED
    BY <1>3, <2>2, <2>3, <2>4
<1> QED
  BY <1>2, <1>3

\* An event of the user that fetches the new selection.
Fetching ==
    \/ Increase \/ Decrease
    \/ \E t \in Types : ValueTypeChange(t)
    \/ \E v \in Variables : VariableChange(v)
    \/ \E p \in Ports : InterfaceChange(p)

\* Such an event is hasty if a request is under way, and then calls FetchData; of
\* the selection it leaves the host alone.
LEMMA FetchingFacts ==
    ASSUME TypeOK, Fetching
    PROVE  /\ clicks < MaxClicks /\ clicks' = clicks + 1
           /\ hasty' = (hasty \/ gets # <<>> \/ lists # <<>>)
           /\ UNCHANGED <<failures, lost, shown, host, menus, lists, zoomstack>>
           /\ FetchData(timers, last)
           /\ iface' \in Interfaces \cup {Dialer0, None}
           /\ variable' \in Variables /\ type' \in Types
           /\ duration' \in Nat \cup {NaN} /\ text' \in Texts
           /\ range' \in Ranges \cup {None} /\ zoomout' \in BOOLEAN
           /\ iface' = iface \/ (options # None /\ iface' \in {options} \X Ports)
<1>a. /\ text \in Texts /\ iface \in Interfaces \cup {Dialer0, None}
      /\ variable \in Variables /\ type \in Types /\ duration \in Nat \cup {NaN}
      /\ range \in Ranges \cup {None} /\ zoomout \in BOOLEAN
      /\ options \in Hosts \cup {None}
  BY DEF TypeOK
<1>1. CASE Increase \/ Decrease
  <2>1. PICK d \in Nat \cup {NaN} : ChangeDuration(d)
    BY <1>a, <1>1, ParseFacts DEF Increase, Decrease
  <2>2. NiceDuration(d) \in Texts
    BY NiceFacts
  <2>3. /\ clicks < MaxClicks /\ clicks' = clicks + 1
        /\ hasty' = (hasty \/ gets # <<>> \/ lists # <<>>)
        /\ UNCHANGED <<failures, lost, shown, host, iface, variable, type, menus,
                       lists, zoomstack>>
        /\ FetchData(timers, last)
        /\ duration' = d /\ text' = NiceDuration(d) /\ range' = None /\ zoomout' = FALSE
    BY <2>1 DEF ChangeDuration, Select, Click, ResetZoom, choice
  <2> QED
    BY <1>a, <2>2, <2>3
<1>2. ASSUME NEW t \in Types, ValueTypeChange(t)
      PROVE  /\ clicks < MaxClicks /\ clicks' = clicks + 1
             /\ hasty' = (hasty \/ gets # <<>> \/ lists # <<>>)
             /\ UNCHANGED <<failures, lost, shown, host, menus, lists, zoom, duration,
                            text, iface, variable>>
             /\ FetchData(timers, last) /\ type' \in Types
  BY <1>2 DEF ValueTypeChange, Select, Click, lengths
<1>3. ASSUME NEW v \in Variables, VariableChange(v)
      PROVE  /\ clicks < MaxClicks /\ clicks' = clicks + 1
             /\ hasty' = (hasty \/ gets # <<>> \/ lists # <<>>)
             /\ UNCHANGED <<failures, lost, shown, host, menus, lists, zoom, duration,
                            text, iface, type>>
             /\ FetchData(timers, last) /\ variable' \in Variables
  BY <1>3 DEF VariableChange, Select, Click, lengths
<1>4. ASSUME NEW p \in Ports, InterfaceChange(p)
      PROVE  /\ clicks < MaxClicks /\ clicks' = clicks + 1
             /\ hasty' = (hasty \/ gets # <<>> \/ lists # <<>>)
             /\ UNCHANGED <<failures, lost, shown, host, menus, lists, zoom, duration,
                            text, variable, type>>
             /\ FetchData(timers, last)
             /\ iface' \in Interfaces /\ options # None /\ iface' \in {options} \X Ports
  BY <1>a, <1>4 DEF InterfaceChange, Select, Click, lengths, Interfaces
<1> QED
  BY <1>a, <1>1, <1>2, <1>3, <1>4 DEF Fetching, zoom

\* Every step keeps the types of the variables.
LEMMA TypeStep == TypeOK /\ [Next]_vars => TypeOK'
<1> SUFFICES ASSUME TypeOK, [Next]_vars PROVE TypeOK'
  OBVIOUS
<1> DEFINE Listing == {All} \cup {InterfacesOf(h) : h \in Hosts \cup {None}}
<1>a. /\ host \in Hosts \cup {None} /\ iface \in Interfaces \cup {Dialer0, None}
      /\ variable \in Variables /\ type \in Types /\ duration \in Nat \cup {NaN}
      /\ text \in Texts /\ options \in Hosts \cup {None}
      /\ range \in Ranges \cup {None} /\ zoomstack \in Seq(Ranges)
      /\ gets \in Seq(Requests) /\ lists \in Seq(Listing) /\ timers \in Nat
      /\ shown \in Requests \cup {None}
      /\ clicks \in 0..MaxClicks /\ failures \in 0..MaxFailures
      /\ MaxClicks \in Nat /\ MaxFailures \in Nat
  BY DashboardAssumption DEF TypeOK
<1>b. /\ listed \in BOOLEAN /\ zoomout \in BOOLEAN /\ last \in BOOLEAN
      /\ lost \in BOOLEAN /\ hasty \in BOOLEAN /\ (last => timers > 0)
  BY DEF TypeOK
<1> HIDE DEF Listing
<1>t. ASSUME host' \in Hosts \cup {None}, iface' \in Interfaces \cup {Dialer0, None},
             variable' \in Variables, type' \in Types, duration' \in Nat \cup {NaN},
             text' \in Texts, options' \in Hosts \cup {None},
             range' \in Ranges \cup {None}, zoomstack' \in Seq(Ranges),
             gets' \in Seq(Requests), lists' \in Seq(Listing), timers' \in Nat,
             shown' \in Requests \cup {None},
             clicks' \in 0..MaxClicks, failures' \in 0..MaxFailures,
             listed' \in BOOLEAN, zoomout' \in BOOLEAN, last' \in BOOLEAN,
             lost' \in BOOLEAN, hasty' \in BOOLEAN, last' => timers' > 0
      PROVE  TypeOK'
  BY <1>t DEF TypeOK, Listing
<1>c. clicks < MaxClicks /\ clicks' = clicks + 1 => clicks' \in 0..MaxClicks
  BY <1>a
<1>d. failures < MaxFailures /\ failures' = failures + 1 => failures' \in 0..MaxFailures
  BY <1>a
<1>1. CASE Fetching
  <2>1. /\ clicks < MaxClicks /\ clicks' = clicks + 1
        /\ UNCHANGED <<failures, lost, shown, host, listed, options, lists, zoomstack>>
        /\ FetchData(timers, last)
        /\ iface' \in Interfaces \cup {Dialer0, None}
        /\ variable' \in Variables /\ type' \in Types
        /\ duration' \in Nat \cup {NaN} /\ text' \in Texts
        /\ range' \in Ranges \cup {None} /\ zoomout' \in BOOLEAN
    BY <1>1, FetchingFacts DEF menus
  <2>2. hasty' \in BOOLEAN
    <3>1. hasty' = (hasty \/ gets # <<>> \/ lists # <<>>)
      BY <1>1, FetchingFacts
    <3> QED
      BY <3>1
  <2>3. /\ gets' \in Seq(Requests) /\ timers' \in Nat /\ last' \in BOOLEAN
        /\ last' => timers' > 0
    BY <1>a, <1>b, <2>1, FetchFacts
  <2> QED
    BY <1>a, <1>b, <1>c, <1>t, <2>1, <2>2, <2>3
<1>2. ASSUME NEW t \in Typed, EditDuration(t) PROVE TypeOK'
  <2>1. /\ clicks < MaxClicks /\ clicks' = clicks + 1 /\ text' = t
        /\ UNCHANGED <<host, iface, variable, type, duration, listed, options, range,
                       zoomstack, zoomout, gets, timers, last, lists, shown, failures,
                       lost, hasty>>
    BY <1>2 DEF EditDuration, Click, choice, menus, zoom, polling
  <2>2. t \in Texts
    BY TypedAssumption
  <2> QED
    BY <1>a, <1>b, <1>c, <1>t, <2>1, <2>2
<1>3. ASSUME NEW h \in Hosts, HostChange(h) PROVE TypeOK'
  <2>1. /\ clicks < MaxClicks /\ clicks' = clicks + 1 /\ host' = h /\ iface' = None
        /\ hasty' = (hasty \/ gets # <<>> \/ lists # <<>>)
        /\ lists' = Append(lists, InterfacesOf(h))
        /\ UNCHANGED <<variable, type, duration, text, listed, options, range,
                       zoomstack, zoomout, gets, timers, last, shown, failures, lost>>
    BY <1>3 DEF HostChange, Select, Click, BuildInterfaceList, lengths, menus, zoom, polling
  <2>2. InterfacesOf(h) \in Listing
    BY DEF Listing
  <2>3. lists' \in Seq(Listing)
    BY <1>a, <2>1, <2>2, AddFacts
  <2>4. hasty' \in BOOLEAN
    BY <2>1
  <2> QED
    BY <1>a, <1>b, <1>c, <1>t, <2>1, <2>3, <2>4
<1>4. ASSUME NEW r \in Ranges, PlotSelected(r) PROVE TypeOK'
  <2>1. /\ clicks < MaxClicks /\ clicks' = clicks + 1 /\ range' = r /\ zoomout' = TRUE
        /\ zoomstack' = IF range = None THEN zoomstack ELSE Append(zoomstack, range)
        /\ UNCHANGED <<host, iface, variable, type, duration, text, listed, options,
                       gets, timers, last, lists, shown, failures, lost, hasty>>
    BY <1>4 DEF PlotSelected, Click, choice, lengths, menus, polling
  <2>2. zoomstack' \in Seq(Ranges)
    BY <1>a, <2>1, AddFacts
  <2> QED
    BY <1>a, <1>b, <1>c, <1>t, <2>1, <2>2
<1>5. CASE ZoomOut
  <2>1. /\ clicks < MaxClicks /\ clicks' = clicks + 1
        /\ UNCHANGED <<host, iface, variable, type, duration, text, listed, options,
                       gets, timers, last, lists, shown, failures, lost, hasty>>
    BY <1>5 DEF ZoomOut, Click, choice, lengths, menus, polling
  <2>2. CASE zoomstack # <<>>
    <3>1. range' = Last(zoomstack) /\ zoomstack' = Front(zoomstack) /\ UNCHANGED zoomout
      BY <1>5, <2>2 DEF ZoomOut
    <3>2. Len(zoomstack) \in Nat /\ Len(zoomstack) >= 1
          /\ \A i \in 1..Len(zoomstack) : zoomstack[i] \in Ranges
      BY <1>a, <2>2, LenProperties, ElementOfSeq, EmptySeq
    <3>3. Last(zoomstack) \in Ranges
      BY <3>2 DEF Last
    <3>4. Front(zoomstack) \in Seq(Ranges)
      <4>1. 1 \in Int /\ Len(zoomstack) - 1 \in Int
            /\ \A i \in 1..(Len(zoomstack) - 1) : zoomstack[i] \in Ranges
        BY <3>2
      <4>2. SubSeq(zoomstack, 1, Len(zoomstack) - 1) \in Seq(Ranges)
        BY <4>1, SubSeqProperties
      <4> QED
        BY <4>2 DEF Front
    <3> QED
      BY <1>a, <1>b, <1>c, <1>t, <2>1, <3>1, <3>3, <3>4
  <2>3. CASE zoomstack = <<>>
    <3>1. range' = None /\ zoomout' = FALSE /\ UNCHANGED zoomstack
      BY <1>5, <2>3 DEF ZoomOut, ResetZoom
    <3> QED
      BY <1>a, <1>b, <1>c, <1>t, <2>1, <3>1
  <2> QED
    BY <2>2, <2>3
<1>6. ASSUME NEW i \in DOMAIN gets, GetReply(i) \/ GetError(i) \/ GetGarbled(i)
      PROVE  TypeOK'
  <2>1. /\ gets' = RemoveAt(gets, i)
        /\ shown' \in {shown, gets[i]}
        /\ UNCHANGED <<host, iface, variable, type, duration, text, listed, options,
                       range, zoomstack, zoomout, lists, clicks, hasty>>
    BY <1>6 DEF GetReply, GetError, GetGarbled, choice, lengths, menus, zoom, history
  <2>2. gets' \in Seq(Requests) /\ gets[i] \in Requests
    BY <1>a, <2>1, RemoveFacts
  <2>3. /\ timers' \in Nat /\ last' \in BOOLEAN /\ (last' => timers' > 0)
    <3>1. \/ timers' = timers + 1 /\ last' = TRUE
          \/ UNCHANGED <<timers, last>>
      BY <1>6 DEF GetReply, GetError, GetGarbled, SetTimeout
    <3>2. CASE timers' = timers + 1 /\ last' = TRUE
      BY <1>a, <3>2
    <3>3. CASE UNCHANGED <<timers, last>>
      BY <1>a, <1>b, <3>3
    <3> QED
      BY <3>1, <3>2, <3>3
  <2>4. failures' \in 0..MaxFailures
    BY <1>a, <1>d, <1>6 DEF GetReply, GetError, GetGarbled, history
  <2>5. lost' \in BOOLEAN
    BY <1>b, <1>6 DEF GetReply, GetError, GetGarbled, history
  <2> QED
    BY <1>a, <1>b, <1>t, <2>1, <2>2, <2>3, <2>4, <2>5
<1>7. ASSUME NEW i \in DOMAIN lists, ListError(i) PROVE TypeOK'
  <2>1. /\ lists' = RemoveAt(lists, i) /\ failures < MaxFailures
        /\ failures' = failures + 1 /\ lost' = TRUE
        /\ UNCHANGED <<host, iface, variable, type, duration, text, listed, options,
                       range, zoomstack, zoomout, gets, timers, last, shown, clicks, hasty>>
    BY <1>7 DEF ListError, choice, lengths, menus, zoom, polling
  <2>2. lists' \in Seq(Listing)
    BY <1>a, <2>1, RemoveFacts
  <2> QED
    BY <1>a, <1>b, <1>d, <1>t, <2>1, <2>2
<1>8. ASSUME NEW i \in DOMAIN lists, SelectorsReply(i) PROVE TypeOK'
  <2>1. /\ host' \in Hosts \cup {None} /\ listed' = TRUE /\ options' = None
        /\ lists' = Append(RemoveAt(lists, i), InterfacesOf(host'))
        /\ UNCHANGED <<iface, variable, type, duration, text, range, zoomstack, zoomout,
                       gets, timers, last, shown, clicks, failures, lost, hasty>>
    BY <1>8 DEF SelectorsReply, BuildInterfaceList, lengths, zoom, polling, history
  <2>2. InterfacesOf(host') \in Listing /\ RemoveAt(lists, i) \in Seq(Listing)
    BY <1>a, <2>1, RemoveFacts DEF Listing
  <2>3. lists' \in Seq(Listing)
    BY <2>1, <2>2, AddFacts
  <2> QED
    BY <1>a, <1>b, <1>t, <2>1, <2>3
<1>9. ASSUME NEW i \in DOMAIN lists, InterfacesReply(i) PROVE TypeOK'
  <2>1. /\ FetchData(timers, last) /\ lists' = RemoveAt(lists, i)
        /\ UNCHANGED <<host, variable, type, duration, text, listed, range, zoomstack,
                       zoomout, shown, clicks, failures, lost, hasty>>
    BY <1>9 DEF InterfacesReply, lengths, zoom, history
  <2>2. lists' \in Seq(Listing) /\ lists[i] \in Listing
    BY <1>a, <2>1, RemoveFacts
  <2>3. lists[i][2] \in Hosts \cup {None}
    BY <1>9, <2>2 DEF InterfacesReply, Listing, InterfacesOf
  <2>4. /\ options' \in {lists[i][2], None}
        /\ \/ iface' = iface
           \/ lists[i][2] # None /\ iface' \in {lists[i][2]} \X Ports
    BY <1>9 DEF InterfacesReply
  <2>5. options' \in Hosts \cup {None} /\ iface' \in Interfaces \cup {Dialer0, None}
    BY <1>a, <2>3, <2>4 DEF Interfaces
  <2>6. /\ gets' \in Seq(Requests) /\ timers' \in Nat /\ last' \in BOOLEAN
        /\ last' => timers' > 0
    BY <1>a, <1>b, <2>1, <2>5, FetchFacts
  <2> QED
    BY <1>a, <1>b, <1>t, <2>1, <2>2, <2>5, <2>6
<1>10. CASE TimerFire
  <2>1. /\ timers > 0 /\ FetchData(timers - 1, last /\ timers > 1)
        /\ UNCHANGED <<host, iface, variable, type, duration, text, listed, options,
                       range, zoomstack, zoomout, lists, shown, clicks, failures, lost, hasty>>
    BY <1>10 DEF TimerFire, choice, lengths, menus, zoom, history
  <2>2. timers - 1 \in Nat /\ (last /\ timers > 1) \in BOOLEAN
        /\ (last /\ timers > 1 => timers - 1 > 0)
    BY <1>a, <2>1
  <2>3. /\ gets' \in Seq(Requests) /\ timers' \in Nat /\ last' \in BOOLEAN
        /\ last' => timers' > 0
    BY <1>a, <2>1, <2>2, FetchFacts
  <2> QED
    BY <1>a, <1>b, <1>t, <2>1, <2>3
<1>11. CASE UNCHANGED vars
  BY <1>a, <1>b, <1>t, <1>11
     DEF vars, choice, lengths, menus, zoom, polling, history
<1> QED
  BY <1>1, <1>2, <1>3, <1>4, <1>5, <1>6, <1>7, <1>8, <1>9, <1>10, <1>11
     DEF Next, User, Answer, Fetching

\* The types hold at first.
LEMMA TypeInit == Init => TypeOK
<1> SUFFICES ASSUME Init PROVE TypeOK
  OBVIOUS
<1>1. /\ variable \in Variables /\ type \in Types
  BY DashboardAssumption DEF Init
<1>2. 12 * Half("h") \in Nat
  BY DEF Half, Units
<1>3. duration \in Nat \cup {NaN} /\ text \in Texts
  BY <1>2, NiceFacts DEF Init
<1>4. <<>> \in Seq(Ranges) /\ <<>> \in Seq(Requests)
  OBVIOUS
<1>5. <<All>> \in Seq({All} \cup {InterfacesOf(h) : h \in Hosts \cup {None}})
  OBVIOUS
<1>6. /\ timers \in Nat /\ 0 \in 0..MaxClicks /\ 0 \in 0..MaxFailures
  BY DashboardAssumption DEF Init
<1>7. /\ listed = FALSE /\ zoomout = FALSE /\ last = FALSE /\ lost = FALSE /\ hasty = FALSE
      /\ clicks = 0 /\ failures = 0 /\ zoomstack = <<>> /\ gets = <<>> /\ lists = <<All>>
      /\ host = None /\ iface = Dialer0 /\ options = None /\ range = None /\ shown = None
  BY DEF Init
<1> QED
  BY <1>1, <1>3, <1>4, <1>5, <1>6, <1>7 DEF TypeOK

\* Every variable of the page holds a value of its kind.
THEOREM TypeCorrect == Spec => []TypeOK
BY TypeInit, TypeStep, PTL DEF Spec

-----------------------------------------------------------------------------
\* The events that have nothing to do with the polling or with the selection:
\* editing the text, zooming, and no event at all.
Aside ==
    \/ \E t \in Typed : EditDuration(t)
    \/ \E r \in Ranges : PlotSelected(r)
    \/ ZoomOut
    \/ UNCHANGED vars

\* They leave the requests, the timers and the selection alone.
LEMMA AsideFacts ==
    ASSUME Aside
    PROVE  UNCHANGED <<host, iface, options, gets, timers, last, lists, lost, hasty>>
BY DEF Aside, EditDuration, PlotSelected, ZoomOut, vars, choice, menus, polling, history

\* Every other step, as far as the polling and the selection are concerned.
LEMMA StepFacts ==
    ASSUME [Next]_vars
    PROVE  \/ Aside
           \/ Fetching
           \/ \E h \in Hosts : HostChange(h)
           \/ \E i \in DOMAIN gets : GetReply(i) \/ GetError(i) \/ GetGarbled(i)
           \/ \E i \in DOMAIN lists : ListError(i)
           \/ \E i \in DOMAIN lists : SelectorsReply(i)
           \/ \E i \in DOMAIN lists : InterfacesReply(i)
           \/ TimerFire
BY DEF Next, User, Answer, Aside, Fetching

\* HostChange leaves no interface selected and asks for those of the new host.
LEMMA HostChangeFacts ==
    ASSUME TypeOK, NEW h \in Hosts, HostChange(h)
    PROVE  /\ host' = h /\ iface' = None /\ ~ Selected'
           /\ UNCHANGED <<options, gets, timers, last, lost>>
           /\ hasty' = (hasty \/ gets # <<>> \/ lists # <<>>)
           /\ lists' # <<>> /\ Len(lists') = Len(lists) + 1
           /\ lists = <<>> => lists'[1] = InterfacesOf(h)
<1> DEFINE Listing == {All} \cup {InterfacesOf(g) : g \in Hosts \cup {None}}
<1>1. /\ host' = h /\ iface' = None /\ lists' = Append(lists, InterfacesOf(h))
      /\ UNCHANGED <<options, gets, timers, last, lost>>
      /\ hasty' = (hasty \/ gets # <<>> \/ lists # <<>>)
  BY DEF HostChange, Select, BuildInterfaceList, menus, polling
<1>2. ~ Selected'
  BY <1>1 DEF Selected
<1>3. lists \in Seq(Listing) /\ InterfacesOf(h) \in Listing
  BY DEF TypeOK
<1> HIDE DEF Listing
<1> QED
  BY <1>1, <1>2, <1>3, AddFacts

\* The answer to BuildSelectors is followed by a request for the interfaces of
\* the host it has selected.
LEMMA SelectorsFacts ==
    ASSUME TypeOK, NEW i \in DOMAIN lists, SelectorsReply(i)
    PROVE  /\ lists[i] = All /\ options' = None
           /\ UNCHANGED <<iface, gets, timers, last, lost, hasty>>
           /\ lists' # <<>> /\ Len(lists') = Len(lists)
           /\ Len(lists) = 1 => i = 1 /\ lists'[1] = InterfacesOf(host')
<1> DEFINE Listing == {All} \cup {InterfacesOf(g) : g \in Hosts \cup {None}}
<1>1. /\ lists[i] = All /\ host' \in Hosts \cup {None} /\ options' = None
      /\ lists' = Append(RemoveAt(lists, i), InterfacesOf(host'))
      /\ UNCHANGED <<iface, gets, timers, last, lost, hasty>>
  BY DEF SelectorsReply, BuildInterfaceList, polling, history
<1>2. lists \in Seq(Listing) /\ InterfacesOf(host') \in Listing
  BY <1>1 DEF TypeOK
<1> HIDE DEF Listing
<1>3. /\ Len(lists) \in Nat /\ RemoveAt(lists, i) \in Seq(Listing)
      /\ Len(RemoveAt(lists, i)) = Len(lists) - 1
      /\ Len(lists) = 1 => i = 1 /\ RemoveAt(lists, i) = <<>>
  BY <1>2, RemoveFacts
<1>4. /\ lists' # <<>> /\ Len(lists') = Len(RemoveAt(lists, i)) + 1
      /\ RemoveAt(lists, i) = <<>> => lists'[1] = InterfacesOf(host')
  BY <1>1, <1>2, <1>3, AddFacts
<1> QED
  BY <1>1, <1>3, <1>4

\* The answer to BuildInterfaceList offers, and may select, interfaces of the host
\* it was asked for, and calls FetchData.
LEMMA InterfacesFacts ==
    ASSUME TypeOK, NEW i \in DOMAIN lists, InterfacesReply(i)
    PROVE  /\ lists[i] # All
           /\ UNCHANGED <<host, lost, hasty>>
           /\ FetchData(timers, last)
           /\ options' \in {lists[i][2], None}
           /\ \/ iface' = iface
              \/ iface' \in {lists[i][2]} \X Ports
           /\ Len(lists) \in Nat /\ Len(lists) >= 1
           /\ Len(lists) = 1 => i = 1 /\ lists' = <<>>
<1> DEFINE Listing == {All} \cup {InterfacesOf(g) : g \in Hosts \cup {None}}
<1>1. /\ lists[i] # All /\ lists' = RemoveAt(lists, i) /\ FetchData(timers, last)
      /\ UNCHANGED <<host, lost, hasty>>
      /\ options' \in {lists[i][2], None}
      /\ \/ iface' = iface
         \/ iface' \in {lists[i][2]} \X Ports
  BY DEF InterfacesReply, history
<1>2. lists \in Seq(Listing)
  BY DEF TypeOK
<1> HIDE DEF Listing
<1> QED
  BY <1>1, <1>2, RemoveFacts

\* A timer that expires is gone when FetchData is called.
LEMMA TimerFacts ==
    ASSUME TypeOK, TimerFire
    PROVE  /\ timers > 0 /\ FetchData(timers - 1, last /\ timers > 1)
           /\ timers - 1 \in Nat /\ (last /\ timers > 1) \in BOOLEAN
           /\ last /\ timers > 1 => timers - 1 > 0
           /\ UNCHANGED <<host, iface, options, lists, lost, hasty>>
<1>1. /\ timers > 0 /\ FetchData(timers - 1, last /\ timers > 1)
      /\ UNCHANGED <<host, iface, options, lists, lost, hasty>>
  BY DEF TimerFire, choice, menus, history
<1>2. timers \in Nat
  BY DEF TypeOK
<1> QED
  BY <1>1, <1>2

\* The requests for the hosts and for the interfaces of a host are not the same,
\* and what stands for no interface is not an interface of a host.
LEMMA NameFacts ==
    /\ \A h \in Hosts \cup {None} : InterfacesOf(h) # All /\ InterfacesOf(h)[2] = h
    /\ None \notin Interfaces /\ Dialer0 \notin Interfaces
BY DashboardAssumption DEF InterfacesOf, All, Interfaces, Dialer0

\* After a fetch of the page the user waits for, there is one request under way
\* and no timer, or everything is as it was.
LEMMA FetchAlone ==
    ASSUME TypeOK, TypeOK', FetchData(timers, last), gets = <<>>, timers <= 1,
           timers > 0 => last
    PROVE  /\ timers' + Len(gets') <= 1
           /\ timers' > 0 => last'
<1>1. timers \in Nat /\ last \in BOOLEAN /\ (last => timers > 0) /\ Len(gets) = 0
  BY DEF TypeOK
<1>2. /\ host' \in Hosts \cup {None} /\ iface' \in Interfaces \cup {Dialer0, None}
      /\ variable' \in Variables /\ type' \in Types /\ duration' \in Nat \cup {NaN}
  BY DEF TypeOK
<1>3. /\ ~ Selected' => gets' = gets /\ timers' = timers /\ last' = last
      /\ Selected' => /\ Len(gets') = Len(gets) + 1
                      /\ timers' = (IF last THEN timers - 1 ELSE timers)
  BY <1>1, <1>2, FetchFacts
<1>4. CASE Selected'
  <2>1. Len(gets') = 1 /\ timers' = (IF last THEN timers - 1 ELSE timers)
    BY <1>1, <1>3, <1>4
  <2>2. timers' = 0
    <3>1. CASE last
      BY <1>1, <2>1, <3>1
    <3>2. CASE ~ last
      BY <1>1, <2>1, <3>2
    <3> QED
      BY <3>1, <3>2
  <2> QED
    BY <2>1, <2>2
<1>5. CASE ~ Selected'
  BY <1>1, <1>3, <1>5
<1> QED
  BY <1>4, <1>5

\* One request or timer is all there is.
LEMMA OneLeft ==
    \A t, n \in Nat :
        n >= 1 => (t + n <= 1 => t = 0 /\ n = 1) /\ (n <= 1 => n = 1)
OBVIOUS

\* Every step keeps the page polling once at a time.
LEMMA PollStep == TypeOK /\ TypeOK' /\ PollInv /\ [Next]_vars => PollInv'
<1> SUFFICES ASSUME TypeOK, TypeOK', PollInv, [Next]_vars, ~ hasty'
             PROVE  /\ timers' + Len(gets') <= 1
                    /\ Len(lists') <= 1
                    /\ timers' > 0 => last'
                    /\ lists' # <<>> => gets' = <<>> /\ (Selected' => timers' = 0)
                    /\ lists' # <<>> /\ lists'[1] = All => timers' = 0
  BY DEF PollInv
<1>a. /\ gets \in Seq(Requests) /\ timers \in Nat /\ Len(gets) \in Nat
      /\ Len(gets) = 0 <=> gets = <<>>
  BY LenProperties, EmptySeq DEF TypeOK
<1>b. hasty \in BOOLEAN /\ last \in BOOLEAN
  BY DEF TypeOK
<1>l. Len(lists) \in Nat /\ (Len(lists) = 0 <=> lists = <<>>)
  BY LenProperties, EmptySeq DEF TypeOK
<1>p. ASSUME ~ hasty
      PROVE  /\ timers + Len(gets) <= 1
             /\ Len(lists) <= 1
             /\ timers > 0 => last
             /\ lists # <<>> => gets = <<>> /\ (Selected => timers = 0)
             /\ lists # <<>> /\ lists[1] = All => timers = 0
  BY <1>p DEF PollInv
<1>e. Len(<<>>) = 0
  OBVIOUS
<1>q. ~ hasty /\ Len(gets) >= 1 => timers = 0 /\ Len(gets) = 1 /\ gets # <<>>
  <2> SUFFICES ASSUME ~ hasty, Len(gets) >= 1
               PROVE  timers = 0 /\ Len(gets) = 1 /\ gets # <<>>
    OBVIOUS
  <2>1. timers + Len(gets) <= 1
    BY <1>p
  <2>2. timers = 0 /\ Len(gets) = 1
    BY <1>a, <2>1, OneLeft
  <2> QED
    BY <1>a, <2>2
<1>r. ~ hasty /\ Len(lists) >= 1 => Len(lists) = 1 /\ lists # <<>>
  <2> SUFFICES ASSUME ~ hasty, Len(lists) >= 1 PROVE Len(lists) = 1 /\ lists # <<>>
    OBVIOUS
  <2>1. Len(lists) <= 1
    BY <1>p
  <2>2. Len(lists) = 1
    BY <1>l, <2>1, OneLeft
  <2> QED
    BY <1>l, <2>2
<1>1. CASE Aside
  BY <1>1, <1>p, AsideFacts DEF Selected
<1>2. CASE Fetching
  <2>1. FetchData(timers, last) /\ lists' = lists
    BY <1>2, FetchingFacts
  <2>2. ~ hasty /\ gets = <<>> /\ lists = <<>>
    <3>1. hasty' = (hasty \/ gets # <<>> \/ lists # <<>>)
      BY <1>2, FetchingFacts
    <3> QED
      BY <3>1
  <2>3. timers <= 1 /\ (timers > 0 => last)
    BY <1>a, <1>p, <2>2
  <2>4. timers' + Len(gets') <= 1 /\ (timers' > 0 => last')
    BY <2>1, <2>2, <2>3, FetchAlone
  <2> QED
    BY <1>e, <2>1, <2>2, <2>4
<1>3. ASSUME NEW h \in Hosts, HostChange(h)
      PROVE  /\ timers' + Len(gets') <= 1
             /\ Len(lists') <= 1
             /\ timers' > 0 => last'
             /\ gets' = <<>> /\ ~ Selected' /\ lists'[1] # All
  <2>1. /\ ~ Selected'
        /\ UNCHANGED <<gets, timers, last>>
        /\ Len(lists') = Len(lists) + 1
        /\ lists = <<>> => lists'[1] = InterfacesOf(h)
    BY <1>3, HostChangeFacts
  <2>2. ~ hasty /\ gets = <<>> /\ lists = <<>>
    <3>1. hasty' = (hasty \/ gets # <<>> \/ lists # <<>>)
      BY <1>3, HostChangeFacts
    <3> QED
      BY <3>1
  <2>3. lists'[1] # All
    BY <2>1, <2>2, NameFacts
  <2> QED
    BY <1>e, <1>p, <2>1, <2>2, <2>3
<1>4. ASSUME NEW i \in DOMAIN gets, GetReply(i) \/ GetError(i) \/ GetGarbled(i)
      PROVE  /\ timers' <= 1 /\ gets' = <<>> /\ timers' \in Nat
             /\ timers' > 0 => last'
             /\ lists' = <<>>
  <2>1. /\ gets' = RemoveAt(gets, i) /\ UNCHANGED <<lists, hasty>>
        /\ (timers' = timers + 1 /\ last' = TRUE) \/ UNCHANGED <<timers, last>>
    BY <1>4 DEF GetReply, GetError, GetGarbled, SetTimeout, history
  <2>2. ~ hasty
    BY <2>1
  <2>3. /\ Len(gets) >= 1 /\ (Len(gets) = 1 => RemoveAt(gets, i) = <<>>)
    BY <1>a, RemoveFacts
  <2>4. timers = 0 /\ Len(gets) = 1 /\ gets # <<>>
    BY <1>q, <2>2, <2>3
  <2>5. lists = <<>>
    BY <1>p, <2>2, <2>4
  <2> QED
    BY <2>1, <2>3, <2>4, <2>5
<1>5. ASSUME NEW i \in DOMAIN lists, ListError(i)
      PROVE  /\ timers' + Len(gets') <= 1
             /\ timers' > 0 => last'
             /\ lists' = <<>>
  <2>1. lists' = RemoveAt(lists, i) /\ UNCHANGED <<gets, timers, last, hasty>>
    BY <1>5 DEF ListError, polling
  <2>2. ~ hasty
    BY <2>1
  <2>3. /\ Len(lists) >= 1 /\ (Len(lists) = 1 => RemoveAt(lists, i) = <<>>)
    BY RemoveFacts DEF TypeOK
  <2>4. Len(lists) = 1
    BY <1>r, <2>2, <2>3
  <2> QED
    BY <1>p, <2>1, <2>2, <2>3, <2>4
<1>6. ASSUME NEW i \in DOMAIN lists, SelectorsReply(i)
      PROVE  /\ timers' = 0 /\ gets' = <<>> /\ Len(lists') <= 1 /\ lists'[1] # All
  <2>1. /\ lists[i] = All /\ UNCHANGED <<gets, timers, last, hasty>>
        /\ lists' # <<>> /\ Len(lists') = Len(lists)
        /\ Len(lists) = 1 => i = 1 /\ lists'[1] = InterfacesOf(host')
    BY <1>6, SelectorsFacts
  <2>2. ~ hasty
    BY <2>1
  <2>3. /\ Len(lists) >= 1
    BY RemoveFacts DEF TypeOK
  <2>4. Len(lists) = 1 /\ lists # <<>>
    BY <1>r, <2>2, <2>3
  <2>5. timers = 0 /\ gets = <<>>
    BY <1>p, <2>1, <2>2, <2>4
  <2>6. host' \in Hosts \cup {None}
    BY DEF TypeOK
  <2> QED
    BY <2>1, <2>4, <2>5, <2>6, NameFacts
<1>7. ASSUME NEW i \in DOMAIN lists, InterfacesReply(i)
      PROVE  /\ timers' + Len(gets') <= 1
             /\ timers' > 0 => last'
             /\ lists' = <<>>
  <2>1. /\ UNCHANGED hasty /\ FetchData(timers, last)
        /\ Len(lists) >= 1
        /\ Len(lists) = 1 => lists' = <<>>
    BY <1>7, InterfacesFacts
  <2>2. ~ hasty
    BY <2>1
  <2>3. Len(lists) = 1 /\ lists # <<>>
    BY <1>r, <2>1, <2>2
  <2>4. gets = <<>> /\ timers <= 1 /\ (timers > 0 => last)
    BY <1>a, <1>p, <2>2, <2>3
  <2> QED
    BY <2>1, <2>3, <2>4, FetchAlone
<1>8. CASE TimerFire
  <2>1. /\ timers > 0 /\ FetchData(timers - 1, last /\ timers > 1)
        /\ timers - 1 \in Nat /\ (last /\ timers > 1) \in BOOLEAN
        /\ last /\ timers > 1 => timers - 1 > 0
        /\ UNCHANGED <<host, iface, lists, hasty>>
    BY <1>8, TimerFacts
  <2>2. timers = 1 /\ Len(gets) = 0 /\ gets = <<>>
    BY <1>a, <1>p, <2>1
  <2>3. /\ host' \in Hosts \cup {None} /\ iface' \in Interfaces \cup {Dialer0, None}
        /\ variable' \in Variables /\ type' \in Types /\ duration' \in Nat \cup {NaN}
    BY DEF TypeOK
  <2>4. FetchData(0, FALSE)
    <3>1. timers - 1 = 0 /\ (last /\ timers > 1) = FALSE
      BY <2>2
    <3> QED
      BY <2>1, <3>1
  <2>5. /\ ~ Selected' => gets' = gets /\ timers' = 0
        /\ Selected' => Len(gets') = Len(gets) + 1 /\ timers' = 0
    BY <2>3, <2>4, FetchFacts
  <2>6. Selected' => lists' = <<>>
    BY <1>p, <2>1, <2>2 DEF Selected
  <2>7. Len(lists') <= 1
    BY <1>p, <2>1
  <2> QED
    BY <2>2, <2>5, <2>6, <2>7
<1> QED
  BY <1>1, <1>2, <1>3, <1>4, <1>5, <1>6, <1>7, <1>8, <1>e, StepFacts

\* Every step of a page whose answers all come keeps the interface of the host.
LEMMA MatchStep == TypeOK /\ TypeOK' /\ PollInv /\ MatchInv /\ [Next]_vars => MatchInv'
<1> SUFFICES ASSUME TypeOK, TypeOK', PollInv, MatchInv, [Next]_vars, ~ hasty', ~ lost'
             PROVE  /\ iface' \in Interfaces => iface'[1] = host'
                    /\ lists' = <<>> /\ options' # None => options' = host'
                    /\ lists' # <<>> => lists'[1] = All \/ lists'[1] = InterfacesOf(host')
                    /\ lists' # <<>> /\ lists'[1] = All => iface' = Dialer0
  BY DEF MatchInv
<1>a. /\ host \in Hosts \cup {None} /\ host' \in Hosts \cup {None}
      /\ options \in Hosts \cup {None}
  BY DEF TypeOK
<1>l. Len(lists) \in Nat /\ (Len(lists) = 0 <=> lists = <<>>)
  BY LenProperties, EmptySeq DEF TypeOK
<1>p. ASSUME ~ hasty, NEW i \in DOMAIN lists
      PROVE  Len(lists) = 1
  <2>1. Len(lists) <= 1
    BY <1>p DEF PollInv
  <2>2. Len(lists) >= 1
    BY RemoveFacts DEF TypeOK
  <2> QED
    BY <1>l, <2>1, <2>2
<1>m. ASSUME ~ hasty, ~ lost
      PROVE  /\ iface \in Interfaces => iface[1] = host
             /\ lists = <<>> /\ options # None => options = host
             /\ lists # <<>> => lists[1] = All \/ lists[1] = InterfacesOf(host)
             /\ lists # <<>> /\ lists[1] = All => iface = Dialer0
  BY <1>m DEF MatchInv
<1>1. CASE Aside
  BY <1>1, <1>m, AsideFacts
<1>2. CASE Fetching
  <2>1. /\ UNCHANGED <<lost, host, options, lists>>
        /\ iface' = iface \/ (options # None /\ iface' \in {options} \X Ports)
    BY <1>2, FetchingFacts DEF menus
  <2>2. ~ hasty /\ lists = <<>>
    <3>1. hasty' = (hasty \/ gets # <<>> \/ lists # <<>>)
      BY <1>2, FetchingFacts
    <3> QED
      BY <3>1
  <2>3. /\ iface \in Interfaces => iface[1] = host
        /\ options # None => options = host
    BY <1>m, <2>1, <2>2
  <2>4. iface' \in Interfaces => iface'[1] = host'
    BY <2>1, <2>3
  <2> QED
    BY <2>1, <2>2, <2>3, <2>4
<1>3. ASSUME NEW h \in Hosts, HostChange(h)
      PROVE  /\ iface' \notin Interfaces
             /\ lists' # <<>> /\ lists'[1] = InterfacesOf(host')
  <2>1. /\ iface' = None /\ host' = h /\ lists' # <<>>
        /\ lists = <<>> => lists'[1] = InterfacesOf(h)
    BY <1>3, HostChangeFacts
  <2>2. lists = <<>>
    <3>1. hasty' = (hasty \/ gets # <<>> \/ lists # <<>>)
      BY <1>3, HostChangeFacts
    <3> QED
      BY <3>1
  <2> QED
    BY <2>1, <2>2, NameFacts
<1>4. ASSUME NEW i \in DOMAIN gets, GetReply(i) \/ GetError(i) \/ GetGarbled(i)
      PROVE  UNCHANGED <<host, iface, options, lists, hasty, lost>>
  BY <1>4 DEF GetReply, GetError, GetGarbled, choice, menus, history
<1>5. ~ \E i \in DOMAIN lists : ListError(i)
  BY DEF ListError
<1>6. ASSUME NEW i \in DOMAIN lists, SelectorsReply(i)
      PROVE  /\ iface' \notin Interfaces
             /\ lists' # <<>> /\ lists'[1] = InterfacesOf(host')
  <2>1. /\ lists[i] = All /\ UNCHANGED <<iface, lost, hasty>> /\ lists' # <<>>
        /\ Len(lists) = 1 => i = 1 /\ lists'[1] = InterfacesOf(host')
    BY <1>6, SelectorsFacts
  <2>2. ~ hasty /\ ~ lost
    BY <2>1
  <2>3. Len(lists) = 1
    BY <1>p, <2>2
  <2>4. i = 1 /\ lists # <<>>
    BY <1>l, <2>1, <2>3
  <2>5. iface = Dialer0
    BY <1>m, <2>1, <2>2, <2>4
  <2> QED
    BY <2>1, <2>3, <2>5, NameFacts
<1>7. ASSUME NEW i \in DOMAIN lists, InterfacesReply(i)
      PROVE  /\ iface' \in Interfaces => iface'[1] = host'
             /\ options' # None => options' = host'
             /\ lists' = <<>>
  <2>1. /\ lists[i] # All /\ UNCHANGED <<host, lost, hasty>>
        /\ options' \in {lists[i][2], None}
        /\ iface' = iface \/ iface' \in {lists[i][2]} \X Ports
        /\ Len(lists) = 1 => i = 1 /\ lists' = <<>>
    BY <1>7, InterfacesFacts
  <2>2. ~ hasty /\ ~ lost
    BY <2>1
  <2>3. Len(lists) = 1
    BY <1>p, <2>2
  <2>4. i = 1 /\ lists # <<>> /\ lists' = <<>>
    BY <1>l, <2>1, <2>3
  <2>5. lists[i] = InterfacesOf(host)
    BY <1>m, <2>1, <2>2, <2>4
  <2>6. lists[i][2] = host
    BY <1>a, <2>5, NameFacts
  <2>7. iface \in Interfaces => iface[1] = host
    BY <1>m, <2>2
  <2>8. iface' \in Interfaces => iface'[1] = host'
    BY <2>1, <2>6, <2>7
  <2> QED
    BY <2>1, <2>4, <2>6, <2>8
<1>8. CASE TimerFire
  BY <1>8, <1>m, TimerFacts
<1>9. ASSUME NEW i \in DOMAIN gets, GetReply(i) \/ GetError(i) \/ GetGarbled(i)
      PROVE  /\ iface' \in Interfaces => iface'[1] = host'
             /\ lists' = <<>> /\ options' # None => options' = host'
             /\ lists' # <<>> => lists'[1] = All \/ lists'[1] = InterfacesOf(host')
             /\ lists' # <<>> /\ lists'[1] = All => iface' = Dialer0
  BY <1>4, <1>9, <1>m
<1>10. InterfacesOf(host') # All
  BY <1>a, NameFacts
<1> QED
  BY <1>1, <1>2, <1>3, <1>5, <1>6, <1>7, <1>8, <1>9, <1>10, StepFacts

\* A page with a complete selection goes on polling at every step.
LEMMA AlwaysStep == TypeOK /\ TypeOK' /\ AlwaysPolling /\ [Next]_vars => AlwaysPolling'
<1> SUFFICES ASSUME TypeOK, TypeOK', AlwaysPolling, [Next]_vars, Selected', ~ lost'
             PROVE  timers' > 0 \/ gets' # <<>> \/ lists' # <<>>
  BY DEF AlwaysPolling
<1>a. /\ host' \in Hosts \cup {None} /\ iface' \in Interfaces \cup {Dialer0, None}
      /\ variable' \in Variables /\ type' \in Types /\ duration' \in Nat \cup {NaN}
      /\ timers \in Nat
  BY DEF TypeOK
<1>b. last \in BOOLEAN /\ (last => timers > 0)
  BY DEF TypeOK
<1>1. CASE Aside
  BY <1>1, AsideFacts DEF AlwaysPolling, Selected
<1>2. CASE Fetching
  <2>1. FetchData(timers, last)
    BY <1>2, FetchingFacts
  <2> QED
    BY <1>a, <1>b, <2>1, FetchFacts
<1>3. ASSUME NEW h \in Hosts, HostChange(h) PROVE lists' # <<>>
  BY <1>3, HostChangeFacts
<1>4. ASSUME NEW i \in DOMAIN gets, GetReply(i) \/ GetError(i) \/ GetGarbled(i)
      PROVE  timers' > 0
  <2>1. timers' = timers + 1
    BY <1>4 DEF GetReply, GetError, GetGarbled, SetTimeout
  <2> QED
    BY <1>a, <2>1
<1>5. ~ \E i \in DOMAIN lists : ListError(i)
  BY DEF ListError
<1>6. ASSUME NEW i \in DOMAIN lists, SelectorsReply(i) PROVE lists' # <<>>
  BY <1>6, SelectorsFacts
<1>7. ASSUME NEW i \in DOMAIN lists, InterfacesReply(i) PROVE gets' # <<>>
  <2>1. FetchData(timers, last)
    BY <1>7, InterfacesFacts
  <2> QED
    BY <1>a, <1>b, <2>1, FetchFacts
<1>8. CASE TimerFire
  <2>1. /\ FetchData(timers - 1, last /\ timers > 1)
        /\ timers - 1 \in Nat /\ (last /\ timers > 1) \in BOOLEAN
        /\ last /\ timers > 1 => timers - 1 > 0
    BY <1>8, TimerFacts
  <2> QED
    BY <1>a, <2>1, FetchFacts
<1> QED
  BY <1>1, <1>2, <1>3, <1>4, <1>5, <1>6, <1>7, <1>8, StepFacts

-----------------------------------------------------------------------------
\* The page never stops polling for a complete selection: whatever fails and
\* whatever the user does, FetchData, its two callbacks and the answers of the
\* store leave a timer or a request, unless an answer had no callback.
THEOREM NeverStopsPolling == Spec => []AlwaysPolling
<1>1. Init => AlwaysPolling
  BY DEF Init, AlwaysPolling, Selected
<1> QED
  BY <1>1, TypeCorrect, AlwaysStep, PTL DEF Spec

\* FetchData clears the timer that SetTimeout has set, so a page whose user
\* waits for the answers polls once at a time.
THEOREM PollsOnce == Spec => []OnePoller
<1>1. Init => PollInv
  BY DEF Init, PollInv, Selected
<1>2. PollInv => OnePoller
  BY DEF PollInv, OnePoller
<1> QED
  BY <1>1, <1>2, TypeCorrect, PollStep, PTL DEF Spec

\* The handlers of the selectors leave an interface of the host selected, if the
\* user waits for the answers and they all come.
THEOREM InterfaceOfHost == Spec => []MatchedInterface
<1>1. Init => PollInv
  BY DEF Init, PollInv, Selected
<1>2. Init => MatchInv
  BY NameFacts DEF Init, MatchInv
<1>3. MatchInv => MatchedInterface
  BY DEF MatchInv, MatchedInterface
<1> QED
  BY <1>1, <1>2, <1>3, TypeCorrect, PollStep, MatchStep, PTL DEF Spec

\* However NiceDuration rounds the duration down, the + button, which parses the
\* text and doubles it, shows a longer time.
THEOREM PlusShowsMore == Spec => IncreaseGrows
<1>1. ASSUME TypeOK, Increase, duration >= 2, text = NiceDuration(duration)
      PROVE  duration' > duration
  <2>1. duration \in Nat
    BY <1>1 DEF TypeOK, NaN
  <2>2. duration' = Twice(ParseDuration(NiceDuration(duration)))
    BY <1>1 DEF Increase, ChangeDuration
  <2> QED
    BY <1>1, <2>1, <2>2, RoundFacts
<1>2. TypeOK => [Increase /\ duration >= 2 /\ text = NiceDuration(duration)
                    => duration' > duration]_vars
  BY <1>1
<1> QED
  BY <1>2, TypeCorrect, PTL DEF IncreaseGrows
=============================================================================
