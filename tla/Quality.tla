------------------------------ MODULE Quality -------------------------------
(***************************************************************************)
(* The network quality: the evaluator of observability/network_quality.rs, *)
(* shared by the calls of the C ABI (ffi/quality_ffi.rs), and the          *)
(* subscriptions, each a task with an evaluator of its own.                *)
(***************************************************************************)
EXTENDS RttWindow

CONSTANTS
    Evaluations,   \* calls of catcher_evaluate_quality
    Hosts,         \* users of subscriptions; each makes one, ends it twice
    Addresses,     \* where the allocator may put a subscription
    Rtts,          \* round trip times that a measurement may find
    WindowSize,    \* 50 in the code
    Nobody         \* no holder, no address, no subscription, no level

ASSUME QualityAssumption ==
    /\ WindowSize \in Nat \ {0}
    /\ Nobody \notin Evaluations \cup Addresses

VARIABLES
    shared,    \* window and cache of the shared evaluator
    holder,    \* the evaluation that holds its lock
    queue,     \* the evaluations that wait for the lock, the first first
    eval,      \* "idle", "waiting" or "measuring"
    history,   \* what catcher_quality_history returned last
    subs,      \* SUBSCRIPTIONS: the addresses of the live subscriptions
    sub,       \* the subscription that each host made
    crashed,   \* the process has aborted
    ends,      \* history: how often each host has unsubscribed
    late,      \* history: callbacks begun after the subscription was ended
    told,      \* history: levels that each host was told, at most the last two
    killer     \* history: who ended each host's subscription, after how many calls

sharedVars == <<shared, holder, queue, eval, history>>
subVars == <<subs, sub, crashed, ends, late, told, killer>>
qualityVars == <<sharedVars, subVars>>

Empty == [win |-> <<>>, dirty |-> FALSE, snap |-> NoStats]
NoSub == [pc |-> "none", at |-> Nobody, est |-> Empty, prev |-> 0,
          aborted |-> FALSE]

QualityInit ==
    /\ shared = Empty /\ holder = Nobody /\ queue = <<>>
    /\ eval = [e \in Evaluations |-> "idle"] /\ history = "none"
    /\ subs = {} /\ sub = [h \in Hosts |-> NoSub] /\ crashed = FALSE
    /\ ends = [h \in Hosts |-> 0] /\ late = [h \in Hosts |-> 0]
    /\ told = [h \in Hosts |-> <<>>] /\ killer = [h \in Hosts |-> {}]

-----------------------------------------------------------------------------
(* NetworkQualityEvaluator.                                                *)

\* record_rtt
RecordRtt(e, rtt) ==
    [e EXCEPT !.win = Push(@, WindowSize, rtt), !.dirty = TRUE]

\* rtt_snapshot: the statistics, computed again only if the window changed.
RttSnapshot(e) ==
    IF e.win # <<>> /\ e.dirty
    THEN [e EXCEPT !.snap = Stats(e.win), !.dirty = FALSE]
    ELSE e

\* The statistics that rtt_snapshot returns.
Shown(e) == IF e.win = <<>> THEN NoStats ELSE RttSnapshot(e).snap

\* classify_quality: 1 is Excellent, 5 is Bad.
Classify(stats) ==
    CASE stats.count = 0 -> 5
      [] stats.avg < 80 -> 1
      [] stats.avg < 200 -> 2
      [] stats.avg < 500 /\ stats.jitter < 150 -> 3
      [] stats.avg < 1000 -> 4
      [] OTHER -> 5

-----------------------------------------------------------------------------
(* catcher_evaluate_quality and catcher_quality_history.                   *)

\* The task asks for the lock, which is fair.
Evaluate(e) ==
    /\ eval[e] = "idle"
    /\ eval' = [eval EXCEPT ![e] = "waiting"] /\ queue' = Append(queue, e)
    /\ UNCHANGED <<shared, holder, history, subVars>>

\* It has the lock and sends its HEAD request.
Lock ==
    /\ holder = Nobody /\ queue # <<>>
    /\ holder' = Head(queue) /\ queue' = Tail(queue)
    /\ eval' = [eval EXCEPT ![Head(queue)] = "measuring"]
    /\ UNCHANGED <<shared, history, subVars>>

\* A response with a good status or 404: its time is recorded, the level of the
\* window is told to the host.
Measured(e, rtt) ==
    /\ eval[e] = "measuring"
    /\ shared' = RttSnapshot(RecordRtt(shared, rtt))
    /\ holder' = Nobody /\ eval' = [eval EXCEPT ![e] = "idle"]
    /\ UNCHANGED <<queue, history, subVars>>

\* Any other: the level of the window as it was, with the error.
Failed(e) ==
    /\ eval[e] = "measuring"
    /\ shared' = RttSnapshot(shared)
    /\ holder' = Nobody /\ eval' = [eval EXCEPT ![e] = "idle"]
    /\ UNCHANGED <<queue, history, subVars>>

\* try_lock.  A lock that is free goes to those that wait for it first.
QualityHistory ==
    /\ IF holder = Nobody /\ queue = <<>>
       THEN history' = "levels" /\ shared' = RttSnapshot(shared)
       ELSE history' = "busy" /\ UNCHANGED shared
    /\ UNCHANGED <<holder, queue, eval, subVars>>

-----------------------------------------------------------------------------
(* catcher_quality_subscribe and catcher_quality_unsubscribe.              *)

\* From a thread of a tokio runtime, which is to say in a callback: the task is
\* spawned.  An interval of 0 is refused by tokio, which ends the task at once.
Subscribe(h) ==
    /\ ~crashed /\ sub[h].pc = "none"
    /\ \E a \in Addresses \ subs, pc \in {"waiting", "ended"} :
          /\ sub' = [sub EXCEPT ![h].at = a, ![h].pc = pc]
          /\ subs' = subs \cup {a}
    /\ UNCHANGED <<sharedVars, crashed, ends, late, told, killer>>

\* From any other thread tokio::spawn panics, in an extern "C" function.
SubscribeOutside ==
    /\ ~crashed
    /\ \E h \in Hosts : sub[h].pc = "none"
    /\ crashed' = TRUE
    /\ UNCHANGED <<sharedVars, subs, sub, ends, late, told, killer>>

\* unsubscribe: the task ends when it next waits, at once if it waits now.
Aborted(s) ==
    [s EXCEPT !.aborted = TRUE,
              !.pc = IF @ \in {"waiting", "measuring"} THEN "ended" ELSE @]

\* Mutant: the table is not asked.
UnsubscribeUnchecked(h) ==
    /\ ~crashed /\ sub[h].pc # "none" /\ ends[h] < 2
    /\ ends' = [ends EXCEPT ![h] = @ + 1]
    /\ subs' = subs \ {sub[h].at}
    /\ sub' = [sub EXCEPT ![h] = Aborted(@)]
    /\ killer' = [killer EXCEPT ![h] = @ \cup {<<h, ends[h]>>}]
    /\ UNCHANGED <<sharedVars, crashed, late, told>>

\* The host ends its subscription, perhaps a second time: only an address that
\* is in the table is freed, with the subscription that is there now.
Unsubscribe(h) ==
    /\ ~crashed /\ sub[h].pc # "none" /\ ends[h] < 2
    /\ ends' = [ends EXCEPT ![h] = @ + 1]
    /\ IF sub[h].at \in subs
       THEN LET owner == CHOOSE g \in Hosts :
                            sub[g].at = sub[h].at /\ killer[g] = {}
            IN  /\ subs' = subs \ {sub[h].at}
                /\ sub' = [sub EXCEPT ![owner] = Aborted(@)]
                /\ killer' = [killer EXCEPT ![owner] = @ \cup {<<h, ends[h]>>}]
       ELSE UNCHANGED <<subs, sub, killer>>
    /\ UNCHANGED <<sharedVars, crashed, late, told>>

-----------------------------------------------------------------------------
(* The task of a subscription.                                             *)

\* The interval ticks: a HEAD request is sent.
Tick(h) ==
    /\ ~crashed /\ sub[h].pc = "waiting"
    /\ sub' = [sub EXCEPT ![h].pc = "measuring"]
    /\ UNCHANGED <<sharedVars, subs, crashed, ends, late, told, killer>>

TickFailed(h) ==
    /\ ~crashed /\ sub[h].pc = "measuring"
    /\ sub' = [sub EXCEPT ![h].pc = "waiting"]
    /\ UNCHANGED <<sharedVars, subs, crashed, ends, late, told, killer>>

\* The task wakes with a response.  From here to its next wait it cannot be
\* aborted.
TickResponse(h, rtt) ==
    /\ ~crashed /\ sub[h].pc = "measuring"
    /\ sub' = [sub EXCEPT ![h].pc = "running",
                          ![h].est = RttSnapshot(RecordRtt(@, rtt))]
    /\ UNCHANGED <<sharedVars, subs, crashed, ends, late, told, killer>>

Wait(s) == [s EXCEPT !.pc = IF s.aborted THEN "ended" ELSE "waiting"]

\* The callback is called if the level is not the previous one.
Compare(h) ==
    /\ ~crashed /\ sub[h].pc = "running"
    /\ LET level == Classify(Shown(sub[h].est))
       IN  IF level # sub[h].prev
           THEN /\ sub' = [sub EXCEPT ![h].pc = "calling"]
                /\ told' = [told EXCEPT ![h] =
                              IF Len(@) = 2 THEN <<@[2], level>>
                              ELSE Append(@, level)]
                /\ late' = [late EXCEPT ![h] =
                              IF killer[h] # {} THEN @ + 1 ELSE @]
           ELSE /\ sub' = [sub EXCEPT ![h] = Wait(@)]
                /\ UNCHANGED <<told, late>>
    /\ UNCHANGED <<sharedVars, subs, crashed, ends, killer>>

\* Mutant: the task starts over without remembering what it told.
CallbackForgets(h) ==
    /\ ~crashed /\ sub[h].pc = "calling"
    /\ sub' = [sub EXCEPT ![h] = Wait(@)]
    /\ UNCHANGED <<sharedVars, subs, crashed, ends, late, told, killer>>

\* The callback returns, and the level told becomes the previous one.
CallbackReturns(h) ==
    /\ ~crashed /\ sub[h].pc = "calling"
    /\ sub' = [sub EXCEPT ![h] =
                 Wait([@ EXCEPT !.prev = Classify(Shown(sub[h].est))])]
    /\ UNCHANGED <<sharedVars, subs, crashed, ends, late, told, killer>>

-----------------------------------------------------------------------------
EvaluatorNext ==
    \/ \E e \in Evaluations :
          Evaluate(e) \/ Failed(e) \/ \E rtt \in Rtts : Measured(e, rtt)
    \/ Lock \/ QualityHistory

SubscriptionNext ==
    \/ SubscribeOutside
    \/ \E h \in Hosts :
          \/ Subscribe(h) \/ Unsubscribe(h) \/ Tick(h) \/ TickFailed(h)
          \/ \E rtt \in Rtts : TickResponse(h, rtt)
          \/ Compare(h) \/ CallbackReturns(h)

QualityNext == EvaluatorNext \/ SubscriptionNext

QualitySpec == QualityInit /\ [][QualityNext]_qualityVars

-----------------------------------------------------------------------------
(* Properties.                                                             *)

\* The windows hold round trip times, no more than there is room for.
QualityTypeOK ==
    /\ \A w \in {shared.win} \cup {sub[h].est.win : h \in Hosts} :
           w \in Seq(Rtts) /\ Len(w) <= WindowSize
    /\ eval \in [Evaluations -> {"idle", "waiting", "measuring"}]

\* The level that an evaluation or a history shows is that of the window as it
\* is, whatever has been recorded and read before; and the lock is held by an
\* evaluation that measures and by no other, so that "busy" is not for ever.
SharedCurrent ==
    /\ shared.win # <<>> => Shown(shared) = Stats(shared.win)
    /\ \A e \in Evaluations : eval[e] = "measuring" <=> holder = e

\* Two callbacks that follow each other tell different levels, and between
\* callbacks the host knows the level of the subscription's window.
HostKnows ==
    \A h \in Hosts :
        /\ Len(told[h]) = 2 => told[h][1] # told[h][2]
        /\ (sub[h].pc = "waiting" /\ sub[h].est.win # <<>>)
              => /\ told[h] # <<>>
                 /\ told[h][Len(told[h])] = Classify(Stats(sub[h].est.win))

\* A subscription is freed once, by its own host or by one whose own was freed
\* before at the same address (the table knows addresses, not subscriptions).
\* Somebody must have unsubscribed twice for that: if nobody does, each host
\* frees its own.
FreedByOwner ==
    /\ \A h \in Hosts : \A j, k \in killer[h] :
          /\ j = k
          /\ k[1] # h => killer[k[1]] # {} /\ sub[k[1]].at = sub[h].at
    /\ (\A h \in Hosts : ends[h] <= 1)
          => \A h \in Hosts : \A k \in killer[h] : k[1] = h

\* After unsubscribe at most one callback begins: that of a task that was
\* running then.
LateOnce == \A h \in Hosts : late[h] <= 1

\* Whoever evaluates or subscribes is shown the level of the window of now.
LevelsCurrent == QualityTypeOK /\ SharedCurrent /\ HostKnows

\* An unsubscribe ends one subscription, the caller's own unless somebody does
\* it twice, and one callback more may begin.
UnsubscribeEnds == FreedByOwner /\ LateOnce
=============================================================================
