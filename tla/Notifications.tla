--------------------------- MODULE Notifications ---------------------------
(***************************************************************************)
(* Notifications of one user: the preferences, notify, the inbox routes,   *)
(* the jobs and admin routes that notify, and the scheduler's dispatcher   *)
(* (packages/notifications, routes/me.py, admin_system.py, scheduler).     *)
(* The dispatcher sends a whole batch before its one commit.  APScheduler  *)
(* runs one instance of a job at a time.                                   *)
(***************************************************************************)
EXTENDS Integers, Sequences, FiniteSets, Absent

CONSTANTS
    Kinds,         \* kinds of notification
    Defaults,      \* DEFAULT_CHANNELS: [Kinds -> SUBSET Channels]
    Expiring,      \* the kind "subscription_expiring"
    Announcement,  \* the kind "announcement"
    RetryTicks,    \* _RETRY_DELAYS_SEC in ticks, a sequence
    Choices,       \* the preferences a user may set: <<kind, channel, enabled>>
    MaxRows, MaxNCrashes, MaxLost, MaxPrefs    \* bounds

Channels == {"in_app", "email", "telegram"}
MaxTries == Len(RetryTicks)   \* _MAX_ATTEMPTS

VARIABLES
    pref,          \* notification_preferences: enabled, by kind and channel, or None
    chat,          \* the user has linked a Telegram chat
    inbox,         \* the notifications table
    nbatch, ntodo, \* the rows the dispatcher has loaded, and those not sent yet
    delivered,     \* history: how often a row reached the user
    ncrashes, lost,    \* crashes, and deliveries whose answer was lost, so far
    prefEdits

nVars == <<pref, chat, inbox, nbatch, ntodo, delivered, ncrashes, lost, prefEdits>>
user == <<pref, chat, prefEdits>>
sending == <<nbatch, ntodo, delivered, ncrashes, lost>>

NotificationRow ==
    [channel : Channels, kind : Kinds, status : {"pending", "sent", "dead"},
     attempt : 0 .. MaxTries, wait : Nat, read : BOOLEAN, recent : BOOLEAN]

ASSUME NotificationAssumption ==
    /\ Defaults \in [Kinds -> SUBSET Channels] /\ {Expiring, Announcement} \subseteq Kinds
    /\ RetryTicks \in Seq(Nat) /\ RetryTicks # <<>>
    /\ Choices \subseteq Kinds \X Channels \X BOOLEAN
    /\ {MaxRows, MaxNCrashes, MaxLost, MaxPrefs} \subseteq Nat
    /\ \A D \in SUBSET (1 .. MaxRows) : None \notin [D -> NotificationRow]

NotificationTypeOK ==
    /\ pref \in [Kinds -> [Channels -> BOOLEAN \cup {None}]]
    /\ chat \in BOOLEAN
    /\ inbox \in Seq(NotificationRow)
    /\ ntodo \subseteq DOMAIN inbox
    /\ nbatch = None \/ \A n \in DOMAIN nbatch : nbatch[n] \in NotificationRow
    /\ delivered \in [1 .. MaxRows -> Nat]
    /\ ncrashes \in 0 .. MaxNCrashes /\ lost \in 0 .. MaxLost /\ prefEdits \in 0 .. MaxPrefs

NInit ==
    /\ pref = [k \in Kinds |-> [c \in Channels |-> None]]
    /\ chat = FALSE
    /\ inbox = <<>>
    /\ nbatch = None /\ ntodo = {}
    /\ delivered = [n \in 1 .. MaxRows |-> 0]
    /\ ncrashes = 0 /\ lost = 0 /\ prefEdits = 0
-----------------------------------------------------------------------------
\* _enabled_channels: one stored preference of the kind replaces all defaults.
EnabledChannels(k) ==
    IF \A c \in Channels : pref[k][c] = None THEN Defaults[k]
    ELSE {c \in Channels : pref[k][c] = TRUE}

\* create_in_app, then sent at once; e-mail and Telegram wait for the dispatcher.
NewRow(k, c) ==
    [channel |-> c, kind |-> k, status |-> IF c = "in_app" THEN "sent" ELSE "pending",
     attempt |-> 0, wait |-> 0, read |-> FALSE, recent |-> TRUE]

\* The row for a channel, if it is enabled; Telegram needs a chat.
ChannelRows(k, c) ==
    IF c \in EnabledChannels(k) /\ (c = "telegram" => chat) THEN <<NewRow(k, c)>> ELSE <<>>

\* The rows notify adds, in the order of the code.
NotifyRows(k) == ChannelRows(k, "in_app") \o ChannelRows(k, "email") \o ChannelRows(k, "telegram")

Notify(k) ==
    /\ Len(inbox) + Len(NotifyRows(k)) <= MaxRows
    /\ inbox' = inbox \o NotifyRows(k)
    /\ UNCHANGED <<user, sending>>

\* Mutant: the job does not look for an earlier notification.
NotYetToldSkipped == TRUE
\* No row of the kind in the last three days.
NotYetTold == \A n \in DOMAIN inbox : ~(inbox[n].kind = Expiring /\ inbox[n].recent)

\* subscription_expiring_soon_job, when an active subscription of the user ends
\* within three days.
SubscriptionExpiringSoon == NotYetTold /\ NotifyRows(Expiring) # <<>> /\ Notify(Expiring)

\* broadcast_notification, when role, plan and status of the user pass its filter.
BroadcastNotification == Notify(Announcement)

\* admin_notify_user: any kind, whatever the user's status.
AdminNotifyUser(k) == Notify(k)
-----------------------------------------------------------------------------
\* update_notification_preferences: an upsert of the items given.
UpdatePreferences(k, items) ==
    /\ prefEdits < MaxPrefs /\ prefEdits' = prefEdits + 1
    /\ pref' = [pref EXCEPT ![k] = [c \in Channels |->
                    IF c \in DOMAIN items THEN items[c] ELSE pref[k][c]]]
    /\ UNCHANGED <<chat, inbox, sending>>

\* mute_notification: a row is created as enabled; nothing reads muted_until.
MuteNotification(k, c) ==
    /\ prefEdits < MaxPrefs /\ prefEdits' = prefEdits + 1
    /\ pref' = [pref EXCEPT ![k][c] = IF pref[k][c] = None THEN TRUE ELSE pref[k][c]]
    /\ UNCHANGED <<chat, inbox, sending>>

\* mark_notification_read takes any row of the user.
MarkRead(n) ==
    /\ ~inbox[n].read
    /\ inbox' = [inbox EXCEPT ![n].read = TRUE]
    /\ UNCHANGED <<user, sending>>

MarkAllRead ==
    /\ \E n \in DOMAIN inbox : inbox[n].channel = "in_app" /\ ~inbox[n].read
    /\ inbox' = [n \in DOMAIN inbox |-> IF inbox[n].channel = "in_app"
                                        THEN [inbox[n] EXCEPT !.read = TRUE] ELSE inbox[n]]
    /\ UNCHANGED <<user, sending>>

\* The user links or unlinks a Telegram chat.
ChatChanges ==
    /\ inbox = <<>> /\ chat' = ~chat
    /\ UNCHANGED <<pref, prefEdits, inbox, sending>>
-----------------------------------------------------------------------------
\* Mutant: a row that was sent is picked up again.
DueRows == {n \in DOMAIN inbox : inbox[n].channel \in {"email", "telegram"} /\ inbox[n].wait = 0}
\* The rows dispatch_pending_notifications selects.
PendingRows ==
    {n \in DOMAIN inbox : /\ inbox[n].channel \in {"email", "telegram"}
                          /\ inbox[n].status = "pending" /\ inbox[n].wait = 0}

DispatchNotifications ==
    /\ nbatch = None /\ PendingRows # {}
    /\ nbatch' = [n \in PendingRows |-> inbox[n]] /\ ntodo' = PendingRows
    /\ UNCHANGED <<user, inbox, delivered, ncrashes, lost>>

\* Mutant: a failure does not postpone the next attempt nor end it.
TriedForever(r, ok) == IF ok THEN [r EXCEPT !.status = "sent"] ELSE [r EXCEPT !.wait = 1]
\* Mutant: the outcome of the send is not looked at.
TriedIgnoringOutcome(r, ok) == [r EXCEPT !.status = "sent"]
\* The row after _deliver has returned ok or not, or raised.
Tried(r, ok) ==
    LET a == r.attempt + 1
    IN  IF ok THEN [r EXCEPT !.status = "sent"]
        ELSE IF a >= MaxTries THEN [r EXCEPT !.attempt = a, !.status = "dead"]
        ELSE [r EXCEPT !.attempt = a, !.wait = RetryTicks[a]]

\* send_email and send_telegram: it arrives or not; the answer of one that
\* arrives may be lost, which looks like a failure.
Deliver(n, arrives, ok) ==
    /\ n \in ntodo
    /\ ok => arrives
    /\ arrives /\ ~ok => lost < MaxLost
    /\ nbatch' = [nbatch EXCEPT ![n] = Tried(nbatch[n], ok)]
    /\ ntodo' = ntodo \ {n}
    /\ delivered' = [delivered EXCEPT ![n] = IF arrives THEN @ + 1 ELSE @]
    /\ lost' = IF arrives /\ ~ok THEN lost + 1 ELSE lost
    /\ UNCHANGED <<user, inbox, ncrashes>>

\* Mutant: the whole row is written back.
WrittenWhole(n) == nbatch[n]
\* The columns the dispatcher has changed; read_at is not one of them.
Written(n) == [nbatch[n] EXCEPT !.read = inbox[n].read, !.recent = inbox[n].recent]

DispatchNotificationsCommit ==
    /\ nbatch # None /\ ntodo = {}
    /\ inbox' = [n \in DOMAIN inbox |-> IF n \in DOMAIN nbatch THEN Written(n) ELSE inbox[n]]
    /\ nbatch' = None
    /\ UNCHANGED <<user, ntodo, delivered, ncrashes, lost>>

\* The scheduler dies before the commit.
SchedulerCrash ==
    /\ nbatch # None /\ ncrashes < MaxNCrashes
    /\ nbatch' = None /\ ntodo' = {}
    /\ ncrashes' = ncrashes + 1
    /\ UNCHANGED <<user, inbox, delivered, lost>>

NTick ==
    /\ \E n \in DOMAIN inbox : inbox[n].wait > 0
    /\ inbox' = [n \in DOMAIN inbox |-> IF inbox[n].wait > 0
                     THEN [inbox[n] EXCEPT !.wait = @ - 1] ELSE inbox[n]]
    /\ UNCHANGED <<user, sending>>

\* Three days pass.
Age ==
    /\ \E n \in DOMAIN inbox : inbox[n].recent
    /\ \A n \in DOMAIN inbox : inbox[n].status # "pending"
    /\ inbox' = [n \in DOMAIN inbox |-> [inbox[n] EXCEPT !.recent = FALSE]]
    /\ UNCHANGED <<user, sending>>

NNext ==
    \/ SubscriptionExpiringSoon \/ MarkAllRead \/ ChatChanges \/ NTick \/ Age
    \/ BroadcastNotification
    \/ \E k \in Kinds : AdminNotifyUser(k)
    \/ \E x \in Choices : MuteNotification(x[1], x[2]) \/ UpdatePreferences(x[1], [c \in {x[2]} |-> x[3]])
    \/ \E n \in DOMAIN inbox : MarkRead(n)
    \/ DispatchNotifications \/ DispatchNotificationsCommit \/ SchedulerCrash
    \/ \E n \in 1 .. MaxRows, arrives, ok \in BOOLEAN : Deliver(n, arrives, ok)

\* The job runs every five seconds and every send has a timeout of ten.
NFairness ==
    /\ WF_nVars(NTick)
    /\ WF_nVars(DispatchNotifications) /\ WF_nVars(DispatchNotificationsCommit)
    /\ WF_nVars(\E n \in 1 .. MaxRows, arrives, ok \in BOOLEAN : Deliver(n, arrives, ok))

NSpec == NInit /\ [][NNext]_nVars /\ NFairness
-----------------------------------------------------------------------------
\* A notification reaches the user once, and once more at most for every crash
\* between a send and the commit and for every lost answer (dispatcher.py sends
\* the batch before the one commit).
OneCopyPerFault ==
    \A n \in 1 .. MaxRows : delivered[n] <= 1 + ncrashes + lost

\* A row marked as sent has reached the user, and a dead one was tried
\* max_attempts times.
OutcomeIsTrue ==
    \A n \in DOMAIN inbox : inbox[n].channel # "in_app" =>
        /\ inbox[n].status = "sent" => delivered[n] > 0
        /\ inbox[n].status = "dead" => inbox[n].attempt = MaxTries

\* A user is told about the end of a plan at most once in three days on each
\* channel, unless an admin sends that kind by hand (the docstring of
\* subscription_expiring_soon_job).
ToldOnceInThreeDays ==
    [][SubscriptionExpiringSoon => \A c \in Channels :
         Cardinality({n \in DOMAIN inbox' : inbox'[n].kind = Expiring /\ inbox'[n].channel = c
                                            /\ inbox'[n].recent}) <= 1]_nVars

\* What the user has marked as read stays so, although the dispatcher writes rows it
\* loaded before (mark_notification_read).
ReadStaysRead ==
    [][\A n \in DOMAIN inbox : inbox[n].read => inbox'[n].read]_nVars

\* Every e-mail and Telegram row ends as sent or dead, in spite of crashes.
NotificationSettles ==
    \A n \in 1 .. MaxRows : n \in DOMAIN inbox ~> n \in DOMAIN inbox /\ inbox[n].status # "pending"

\* The rows say what happened (dispatcher.py).
NotificationsHold == NotificationTypeOK /\ OneCopyPerFault /\ OutcomeIsTrue

\* What the dispatcher and the job may never do, and what must happen.
NotificationsProceed == ToldOnceInThreeDays /\ ReadStaysRead /\ NotificationSettles
=============================================================================
