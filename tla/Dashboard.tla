----------------------------- MODULE Dashboard -----------------------------
(***************************************************************************)
(* The web interface of the store (static/test.js on the StoreClient of    *)
(* static/openinstrument.js): a page that asks the store for the hosts and *)
(* interfaces it knows, draws the stream that the user has selected, and   *)
(* draws it again every 30 seconds.                                        *)
(*                                                                         *)
(* JavaScript runs one callback at a time, so a callback is one action.    *)
(* What interleaves is the order of the callbacks: the user's events, the  *)
(* answers to the requests under way, which may come in any order, and the *)
(* timers. All timers are set for the same 30 seconds and therefore expire *)
(* in the order in which they were set.                                    *)
(*                                                                         *)
(* Durations are counted in half seconds: half of a whole number of        *)
(* seconds is the smallest fraction the page can compute.                  *)
(***************************************************************************)
EXTENDS Integers, Sequences, SequencesExt

CONSTANTS
    Hosts,       \* the values of the label hostname
    Ports,       \* each host has an interface for every port
    Variables,   \* the names of the variables the store has for them
    Types,       \* the options of #value_type
    Ranges,      \* the parts of the time axis the user may zoom into
    Typed,       \* what the user may type into #nice_duration
    None,        \* null, or an undefined variable
    MaxClicks,   \* bound: events of the user
    MaxFailures  \* bound: requests that fail

ASSUME DashboardAssumption ==
    /\ MaxClicks \in Nat
    /\ MaxFailures \in Nat
    /\ None \notin Hosts \cup Ranges \cup (Hosts \X Ports)
    /\ Variables # {} /\ Types # {}

\* Interfaces are told apart by their host; Dialer0 is the name that the page
\* starts with, which is an interface of no host in particular.
Interfaces == Hosts \X Ports
Dialer0    == <<None, None>>

\* The List requests of BuildSelectors and of BuildInterfaceList.
All             == <<"all", None>>
InterfacesOf(h) == <<"interfaces", h>>

VARIABLES
    host,        \* graph_host
    iface,       \* graph_interface
    variable,    \* graph_variable
    type,        \* the value of #value_type
    duration,    \* graph_duration
    text,        \* the value of #nice_duration
    listed,      \* #host and #variable have their options
    options,     \* the host whose interfaces are the options of #interface
    range,       \* xaxis.min and xaxis.max of graph_options
    zoomstack,   \* zoomstack
    zoomout,     \* #zoomout is enabled
    gets,        \* the Get requests under way, as what they ask for
    lists,       \* the List requests under way, as what they ask for
    timers,      \* how many timers are running
    last,        \* fetch_timeout is one of them, which is then the newest
    shown,       \* what the graph shows
    \* bounds and history
    clicks,      \* events of the user so far
    failures,    \* requests that have failed
    lost,        \* an answer got no callback that goes on polling
    hasty        \* the user has changed a selection while a request was under way

choice  == <<host, iface, variable, type>>
lengths == <<duration, text>>
menus   == <<listed, options>>
zoom    == <<range, zoomstack, zoomout>>
polling == <<gets, timers, last>>
history == <<clicks, failures, lost, hasty>>
vars == <<choice, lengths, menus, zoom, polling, lists, shown, history>>
-----------------------------------------------------------------------------
(***************************************************************************)
(* ParseDuration and NiceDuration. A text is a number with a unit, which   *)
(* is a second if parseInt finds no other, or it is Blank: no number, or a *)
(* negative one, which NiceDuration shows as an empty text as well.        *)
(***************************************************************************)
NaN   == -1
Blank == [n |-> 0, unit |-> "none"]
Units == [y |-> 31536000, w |-> 604800, d |-> 86400, h |-> 3600, m |-> 60,
          s |-> 1]
Half(unit) == 2 * Units[unit]   \* a unit in half seconds
Texts == {Blank} \cup [n : Nat, unit : DOMAIN Units]

ASSUME TypedAssumption == Typed \subseteq Texts

\* FAULT: a week is taken for a day.
ParseDurationShortWeek(t) ==
    IF t = Blank THEN NaN
    ELSE t.n * Half(IF t.unit = "w" THEN "d" ELSE t.unit)
ParseDuration(t) == IF t = Blank THEN NaN ELSE t.n * Half(t.unit)

In(d, unit) == [n |-> d \div Half(unit), unit |-> unit]

\* For zero and for NaN, NiceDuration returns undefined, which jQuery's val
\* shows as an empty text.
NiceDuration(d) ==
    CASE d >  Half("y") -> In(d, "y")
      [] d <= Half("y") /\ d >= Half("w") -> In(d, "w")
      [] d <  Half("w") /\ d >= Half("d") -> In(d, "d")
      [] d <  Half("d") /\ d >= Half("h") -> In(d, "h")
      [] d <  Half("h") /\ d >= Half("m") -> In(d, "m")
      [] d <  Half("m") /\ d > 0 -> In(d, "s")
      [] d <= 0 -> Blank

Twice(d)  == IF d = NaN THEN NaN ELSE 2 * d
Halved(d) == IF d = NaN THEN NaN ELSE d \div 2
-----------------------------------------------------------------------------
\* The page has been loaded: BuildSelectors has sent its request, and FetchData
\* has returned at once, because there is no host yet.
Init ==
    /\ host = None
    /\ iface = Dialer0
    /\ variable = CHOOSE v \in Variables : TRUE
    /\ type = CHOOSE t \in Types : TRUE
    /\ duration = 12 * Half("h")
    /\ text = NiceDuration(12 * Half("h"))
    /\ listed = FALSE
    /\ options = None
    /\ range = None
    /\ zoomstack = <<>>
    /\ zoomout = FALSE
    /\ gets = <<>>
    /\ lists = <<All>>
    /\ timers = 0
    /\ last = FALSE
    /\ shown = None
    /\ clicks = 0
    /\ failures = 0
    /\ lost = FALSE
    /\ hasty = FALSE

Selection == [host |-> host, iface |-> iface, variable |-> variable,
              type |-> type, duration |-> duration]
Selected  == host # None /\ iface # None

\* FetchData with t timers running, fetch_timeout being one of them if l holds.
\* Nothing happens while there is no complete selection; otherwise the newest
\* timer is cleared and a Get request sent.
\* FAULT: the timer of the poll before is not cleared.
FetchDataKeepsTimer(t, l) ==
    IF ~Selected'
    THEN timers' = t /\ last' = l /\ UNCHANGED gets
    ELSE /\ gets' = Append(gets, Selection')
         /\ timers' = t
         /\ last' = l
FetchData(t, l) ==
    IF ~Selected'
    THEN timers' = t /\ last' = l /\ UNCHANGED gets
    ELSE /\ gets' = Append(gets, Selection')
         /\ timers' = IF l THEN t - 1 ELSE t
         /\ last' = FALSE

\* BuildInterfaceList asks for the interfaces of the host selected.
BuildInterfaceList(rest) == lists' = Append(rest, InterfacesOf(host'))
-----------------------------------------------------------------------------
(***************************************************************************)
(* Answers and timers.                                                     *)
(***************************************************************************)

\* setTimeout(FetchData, 30000), kept in fetch_timeout.
\* FAULT: it is not kept.
SetTimeoutForgotten == timers' = timers + 1 /\ UNCHANGED last
SetTimeout == timers' = timers + 1 /\ last' = TRUE

\* The success callback of FetchData draws what was asked for.
GetReply(i) ==
    /\ i \in DOMAIN gets
    /\ shown' = gets[i]
    /\ gets' = RemoveAt(gets, i)
    /\ SetTimeout
    /\ UNCHANGED <<choice, lengths, menus, zoom, lists, history>>

\* Its error callback: the request failed, or the store says so.
\* FAULT: no timer is set.
GetErrorGivesUp(i) ==
    /\ i \in DOMAIN gets
    /\ failures < MaxFailures
    /\ gets' = RemoveAt(gets, i)
    /\ failures' = failures + 1
    /\ UNCHANGED <<choice, lengths, menus, zoom, timers, last, lists, shown,
                   clicks, lost, hasty>>
GetError(i) ==
    /\ i \in DOMAIN gets
    /\ failures < MaxFailures
    /\ gets' = RemoveAt(gets, i)
    /\ SetTimeout
    /\ failures' = failures + 1
    /\ UNCHANGED <<choice, lengths, menus, zoom, lists, shown, clicks, lost,
                   hasty>>

\* An answer that ParseFromStream throws on reaches neither callback.
GetGarbled(i) ==
    /\ i \in DOMAIN gets
    /\ failures < MaxFailures
    /\ gets' = RemoveAt(gets, i)
    /\ failures' = failures + 1
    /\ lost' = TRUE
    /\ UNCHANGED <<choice, lengths, menus, zoom, timers, last, lists, shown,
                   clicks, hasty>>

\* A List request that fails, or whose answer cannot be parsed, is only logged:
\* BuildSelectors and BuildInterfaceList have no error callback.
ListError(i) ==
    /\ i \in DOMAIN lists
    /\ failures < MaxFailures
    /\ lists' = RemoveAt(lists, i)
    /\ failures' = failures + 1
    /\ lost' = TRUE
    /\ UNCHANGED <<choice, lengths, menus, zoom, polling, shown, clicks, hasty>>

\* The answer to BuildSelectors: the first host of the answer is selected, if
\* there is one, and its interfaces are asked for.
SelectorsReply(i) ==
    /\ i \in DOMAIN lists
    /\ lists[i] = All
    /\ host' \in Hosts \cup {None}
    /\ listed' = TRUE
    /\ options' = None
    /\ BuildInterfaceList(RemoveAt(lists, i))
    /\ UNCHANGED <<iface, variable, type, lengths, zoom, polling, shown, history>>

\* The answer to BuildInterfaceList: its interfaces become the options, and the
\* first of them is selected if no interface is. A store that has none for the
\* host answers with an empty list, as it does when there is no host.
\* FAULT: the new selection is not fetched.
InterfacesReplyNoFetch(i) ==
    /\ i \in DOMAIN lists
    /\ lists[i] # All
    /\ \E some \in IF lists[i][2] = None THEN {FALSE} ELSE BOOLEAN :
          /\ options' = IF some THEN lists[i][2] ELSE None
          /\ iface' \in IF iface = None /\ some THEN {lists[i][2]} \X Ports
                                                ELSE {iface}
    /\ lists' = RemoveAt(lists, i)
    /\ UNCHANGED <<host, variable, type, lengths, listed, zoom, polling, shown,
                   history>>
InterfacesReply(i) ==
    /\ i \in DOMAIN lists
    /\ lists[i] # All
    /\ \E some \in IF lists[i][2] = None THEN {FALSE} ELSE BOOLEAN :
          /\ options' = IF some THEN lists[i][2] ELSE None
          /\ iface' \in IF iface = None /\ some THEN {lists[i][2]} \X Ports
                                                ELSE {iface}
    /\ UNCHANGED <<host, variable, type, lengths>>
    /\ FetchData(timers, last)
    /\ lists' = RemoveAt(lists, i)
    /\ UNCHANGED <<listed, zoom, shown, history>>

\* The oldest timer expires. If it is the only one, fetch_timeout refers to no
\* running timer any more.
TimerFire ==
    /\ timers > 0
    /\ UNCHANGED <<choice, lengths>>
    /\ FetchData(timers - 1, last /\ timers > 1)
    /\ UNCHANGED <<menus, zoom, lists, shown, history>>
-----------------------------------------------------------------------------
(***************************************************************************)
(* Events of the user.                                                     *)
(***************************************************************************)
Click == clicks < MaxClicks /\ clicks' = clicks + 1

\* An event that changes what is selected; it is hasty if a request of the page
\* is still under way.
Select ==
    /\ Click
    /\ hasty' = (hasty \/ gets # <<>> \/ lists # <<>>)
    /\ UNCHANGED <<failures, lost, shown>>

\* ResetZoom shows the whole time axis again. It does not empty zoomstack.
ResetZoom == range' = None /\ zoomout' = FALSE

\* The buttons + and - start from the text, which may have been edited.
ChangeDuration(d) ==
    /\ Select
    /\ duration' = d
    /\ text' = NiceDuration(d)
    /\ ResetZoom
    /\ UNCHANGED choice
    /\ FetchData(timers, last)
    /\ UNCHANGED <<menus, zoomstack, lists>>
Increase == ChangeDuration(Twice(ParseDuration(text)))
Decrease == ChangeDuration(Halved(ParseDuration(text)))

\* The user edits the text. The handler of its change event calls val of the
\* event instead of the element, throws, and changes nothing.
EditDuration(t) ==
    /\ Click
    /\ text' = t
    /\ text' # text
    /\ UNCHANGED <<choice, duration, menus, zoom, polling, lists, shown,
                   failures, lost, hasty>>

ValueTypeChange(t) ==
    /\ Select
    /\ t # type
    /\ type' = t
    /\ UNCHANGED <<host, iface, variable, lengths>>
    /\ FetchData(timers, last)
    /\ UNCHANGED <<menus, zoom, lists>>

\* FAULT: the interface of the host before stays selected.
HostChangeKeepsInterface(h) ==
    /\ Select
    /\ listed /\ host # None
    /\ h # host
    /\ host' = h
    /\ BuildInterfaceList(lists)
    /\ UNCHANGED <<iface, variable, type, lengths, menus, zoom, polling>>
HostChange(h) ==
    /\ Select
    /\ listed /\ host # None
    /\ h # host
    /\ host' = h
    /\ iface' = None
    /\ BuildInterfaceList(lists)
    /\ UNCHANGED <<variable, type, lengths, menus, zoom, polling>>

VariableChange(v) ==
    /\ Select
    /\ listed /\ host # None
    /\ v # variable
    /\ variable' = v
    /\ UNCHANGED <<host, iface, type, lengths>>
    /\ FetchData(timers, last)
    /\ UNCHANGED <<menus, zoom, lists>>

InterfaceChange(p) ==
    /\ Select
    /\ options # None
    /\ <<options, p>> # iface
    /\ iface' = <<options, p>>
    /\ UNCHANGED <<host, variable, type, lengths>>
    /\ FetchData(timers, last)
    /\ UNCHANGED <<menus, zoom, lists>>

\* The user drags the mouse over a part of the graph: the range before is kept.
PlotSelected(r) ==
    /\ Click
    /\ shown # None
    /\ r # range
    /\ zoomstack' = IF range = None THEN zoomstack ELSE Append(zoomstack, range)
    /\ range' = r
    /\ zoomout' = TRUE
    /\ UNCHANGED <<choice, lengths, menus, polling, lists, shown, failures, lost,
                   hasty>>

\* The button, which cannot be clicked while it is disabled.
\* FAULT: the range is popped whether or not there is one.
ZoomOutBlindly ==
    /\ Click
    /\ zoomout
    /\ range' = IF zoomstack = <<>> THEN "undefined" ELSE Last(zoomstack)
    /\ zoomstack' = IF zoomstack = <<>> THEN <<>> ELSE Front(zoomstack)
    /\ UNCHANGED <<choice, lengths, menus, zoomout, polling, lists, shown,
                   failures, lost, hasty>>
ZoomOut ==
    /\ Click
    /\ zoomout
    /\ \/ /\ zoomstack # <<>>
          /\ range' = Last(zoomstack)
          /\ zoomstack' = Front(zoomstack)
          /\ UNCHANGED zoomout
       \/ /\ zoomstack = <<>>
          /\ ResetZoom
          /\ UNCHANGED zoomstack
    /\ UNCHANGED <<choice, lengths, menus, polling, lists, shown, failures, lost,
                   hasty>>
-----------------------------------------------------------------------------
User ==
    \/ Increase
    \/ Decrease
    \/ \E t \in Typed : EditDuration(t)
    \/ \E t \in Types : ValueTypeChange(t)
    \/ \E h \in Hosts : HostChange(h)
    \/ \E v \in Variables : VariableChange(v)
    \/ \E p \in Ports : InterfaceChange(p)
    \/ \E r \in Ranges : PlotSelected(r)
    \/ ZoomOut

Answer ==
    \/ \E i \in DOMAIN gets : GetReply(i) \/ GetError(i) \/ GetGarbled(i)
    \/ \E i \in DOMAIN lists :
          SelectorsReply(i) \/ InterfacesReply(i) \/ ListError(i)

Next == User \/ Answer \/ TimerFire

Spec == Init /\ [][Next]_vars

\* Every request is answered in the end, or fails, and every timer expires. The
\* oldest request is the one that has waited longest, so it is enough that
\* there is always an answer to the oldest. The user need not do anything.
OldestGet  == GetReply(1) \/ GetError(1) \/ GetGarbled(1)
OldestList == SelectorsReply(1) \/ InterfacesReply(1) \/ ListError(1)

FairSpec ==
    /\ Spec
    /\ WF_vars(OldestGet)
    /\ WF_vars(OldestList)
    /\ WF_vars(TimerFire)
-----------------------------------------------------------------------------
(***************************************************************************)
(* Properties.                                                             *)
(***************************************************************************)
Requests == [host : Hosts, iface : Interfaces \cup {Dialer0},
             variable : Variables, type : Types, duration : Nat \cup {NaN}]

\* Every variable holds a value of its kind.
TypeOK ==
    /\ host \in Hosts \cup {None}
    /\ iface \in Interfaces \cup {Dialer0, None}
    /\ variable \in Variables
    /\ type \in Types
    /\ duration \in Nat \cup {NaN}
    /\ text \in Texts
    /\ listed \in BOOLEAN
    /\ options \in Hosts \cup {None}
    /\ range \in Ranges \cup {None}
    /\ zoomstack \in Seq(Ranges)
    /\ zoomout \in BOOLEAN
    /\ gets \in Seq(Requests)
    /\ lists \in Seq({All} \cup {InterfacesOf(h) : h \in Hosts \cup {None}})
    /\ timers \in Nat
    /\ last \in BOOLEAN
    /\ last => timers > 0
    /\ shown \in Requests \cup {None}
    /\ clicks \in 0..MaxClicks
    /\ failures \in 0..MaxFailures
    /\ lost \in BOOLEAN
    /\ hasty \in BOOLEAN

\* A page with a complete selection never stops polling, whatever fails and
\* whatever the user does meanwhile, unless an answer was lost: a timer runs,
\* or a request is under way whose answer will set one.
AlwaysPolling ==
    Selected /\ ~lost => timers > 0 \/ gets # <<>> \/ lists # <<>>

\* A user who waits for the answers has a page that polls once at a time.
OnePoller == ~hasty => timers + Len(gets) <= 1

\* A user who waits for the answers, and gets them, sees an interface of the
\* host selected.
MatchedInterface == ~hasty /\ ~lost /\ iface \in Interfaces => iface[1] = host

\* The + button shows a longer time, although it starts from the text, in which
\* NiceDuration has rounded the duration down to a whole number of its unit;
\* from one second on, and unless the user has edited the text.
IncreaseGrows ==
    [][Increase /\ duration >= 2 /\ text = NiceDuration(duration)
          => duration' > duration]_vars

\* In the end the graph shows what is selected, in whatever order the answers
\* to earlier requests came, unless an answer was lost.
SettlesOnSelection == <>[](Selected /\ ~lost => shown = Selection)

\* If answers come sooner than timers expire, the pollers that a hasty user has
\* started merge into one again: the oldest timer clears the newest.
PollersMerge ==
    <>[][TimerFire => gets = <<>>]_vars => <>[](timers + Len(gets) <= 1)
=============================================================================
