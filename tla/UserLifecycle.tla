----------------------------- MODULE UserLifecycle -----------------------------
(***************************************************************************)
(* A subscription (services/user_service.py): first use starts its clock,  *)
(* admins and the machine API edit, renew, pause, resume, reset, disable   *)
(* and delete it, and every client request resolves it and claims a device *)
(* slot.  Subscriptions are rows of their own, so one is modelled.         *)
(*                                                                         *)
(* A call reads the row in a SELECT of its own and writes later; only what *)
(* stands in one UPDATE, or between a first write and its commit, is       *)
(* atomic.  Time is counted in days.                                       *)
(***************************************************************************)
EXTENDS Integers, FiniteSets

CONSTANTS
    Threads,        \* request threads of the panel
    Nets,           \* networks clients come from: the fingerprint is the /24 block
    NoTime,         \* NULL
    NoNet,
    Days,           \* durations an admin may set; 0 is unlimited
    MaxDays,        \* bound: the duration renewals may add up to
    MaxTime,        \* bound: the clock
    MaxDevices,     \* column max_devices; 0 is unlimited
    Window,         \* setting device_window_days
    Grace,          \* setting device_grace_hours, in days
    Retention       \* days after which a device row is pruned

ASSUME UserAssumption ==
    /\ NoTime \notin Int /\ NoNet \notin Nets
    /\ Days \subseteq 0 .. MaxDays /\ MaxDays \in Nat /\ MaxTime \in Nat
    /\ MaxDevices \in Nat /\ Window \in Nat /\ Grace \in Nat /\ Retention \in Nat
    /\ IsFiniteSet(Nets)

VARIABLES
    now,
    user,           \* the row
    devices,        \* [Nets -> day last seen + NoTime]: user_devices
    pc,             \* [Threads -> what the thread's call does next]
    read,           \* [Threads -> Rows]: the row as the thread read it
    arg,            \* [Threads -> days]: the duration to set
    net,            \* [Threads -> Nets + NoNet]: where the client comes from
    asOf,           \* [Threads -> day]: "now" of the device check
    overlapped      \* history: two calls have run at the same time

vars == <<now, user, devices, pc, read, arg, net, asOf, overlapped>>

Times == Int \cup {NoTime}
Rows  == [status : {"ACTIVE", "PAUSED", "DISABLED", "gone"}, duration_days : Nat,
          activated_at : Times, expire_at : Times, paused_at : Times]
Pcs   == {"free", "edit", "pause", "resume", "activate", "reread",
          "lookup", "refresh", "count", "register"}

TypeOK ==
    /\ now \in Nat
    /\ user \in Rows
    /\ devices \in [Nets -> Times]
    /\ pc \in [Threads -> Pcs]
    /\ read \in [Threads -> Rows]
    /\ arg \in [Threads -> Nat]
    /\ net \in [Threads -> Nets \cup {NoNet}]
    /\ asOf \in [Threads -> Nat]
    /\ overlapped \in BOOLEAN

NewUser(d) == [status |-> "ACTIVE", duration_days |-> d,
               activated_at |-> NoTime, expire_at |-> NoTime, paused_at |-> NoTime]
Gone == [NewUser(0) EXCEPT !.status = "gone"]

(* add_user.                                                               *)
Init ==
    /\ now = 0
    /\ \E d \in Days : user = NewUser(d)
    /\ devices = [n \in Nets |-> NoTime]
    /\ pc = [t \in Threads |-> "free"]
    /\ read = [t \in Threads |-> Gone]
    /\ arg = [t \in Threads |-> 0]
    /\ net = [t \in Threads |-> NoNet]
    /\ asOf = [t \in Threads |-> 0]
    /\ overlapped = FALSE

Exists       == user.status # "gone"
Activated(u) == u.activated_at # NoTime
Expired(u)   == u.expire_at # NoTime /\ u.expire_at < now

(* Thread t moves on to p; whether calls overlap is noted.                 *)
Goto(t, p) ==
    /\ pc' = [pc EXCEPT ![t] = p]
    /\ overlapped' = (overlapped \/ \E s \in Threads \ {t} : pc[s] # "free")

(* The call of t has what it needs and returns.                            *)
Return(t) ==
    /\ Goto(t, "free")
    /\ read' = [read EXCEPT ![t] = Gone]
    /\ arg' = [arg EXCEPT ![t] = 0]
    /\ net' = [net EXCEPT ![t] = NoNet]
    /\ asOf' = [asOf EXCEPT ![t] = 0]

(* The first SELECT of a call.                                             *)
Read(t, p) ==
    /\ pc[t] = "free" /\ Exists
    /\ read' = [read EXCEPT ![t] = user]
    /\ Goto(t, p)
    /\ UNCHANGED <<now, user, devices>>

(* Bound: lost updates of overlapping calls can push the expiry anywhere,  *)
(* calls that do not overlap leave it here.                                *)
InBounds(u) == u.expire_at \in {NoTime} \cup 0 .. (MaxTime + MaxDays)

-------------------------------------------------------------------------------
(* Admins and the machine API.                                             *)

(* update_user with a new duration.                                        *)
ReadEdit(t, d) ==
    /\ Read(t, "edit")
    /\ arg' = [arg EXCEPT ![t] = d]
    /\ UNCHANGED <<net, asOf>>

(* Mutant: becoming unlimited keeps the expiry.                            *)
RecomputedFinite(u, d) ==
    IF d = 0 THEN u.expire_at
    ELSE IF u.duration_days = 0 THEN u.activated_at + d
    ELSE u.expire_at + (d - u.duration_days)

(* The expiry of an activated subscription whose duration becomes d.       *)
Recomputed(u, d) ==
    IF d = 0 THEN NoTime
    ELSE IF u.duration_days = 0 THEN u.activated_at + d
    ELSE u.expire_at + (d - u.duration_days)

(* The statement sets the duration, and the expiry if it was recomputed.   *)
WriteEdit(t) ==
    /\ pc[t] = "edit"
    /\ LET u == read[t]
           d == arg[t]
           shift == /\ Activated(u) /\ d # u.duration_days
                    /\ d = 0 \/ u.duration_days = 0 \/ u.expire_at # NoTime
       IN user' = IF ~ Exists THEN user
                  ELSE [user EXCEPT !.duration_days = d,
                                    !.expire_at = IF shift THEN Recomputed(u, d) ELSE @]
    /\ InBounds(user')
    /\ Return(t)
    /\ UNCHANGED <<now, devices>>

(* Mutant: a paused subscription restarts from now like any other.         *)
ExtendedPaused(u, d) ==
    IF ~ Activated(u) THEN u.expire_at
    ELSE LET e == IF u.expire_at = NoTime THEN now ELSE u.expire_at
         IN IF e >= now THEN e + d ELSE now + d

(* extend_user is one UPDATE, whose condition also covers the no-op for an *)
(* unlimited subscription.                                                 *)
Extended(u, d) ==
    IF ~ Activated(u) THEN u.expire_at
    ELSE LET e == IF u.expire_at = NoTime THEN now ELSE u.expire_at
         IN IF u.status = "PAUSED" \/ e >= now THEN e + d ELSE now + d

Extend(t, d) ==
    /\ pc[t] = "free" /\ Exists
    /\ d > 0 /\ user.duration_days # 0
    /\ user.duration_days + d <= MaxDays
    /\ user' = [user EXCEPT !.duration_days = @ + d, !.expire_at = Extended(user, d)]
    /\ InBounds(user')
    /\ Goto(t, "free")
    /\ UNCHANGED <<now, devices, read, arg, net, asOf>>

ReadPause(t) ==
    /\ user.status = "ACTIVE"
    /\ Read(t, "pause")
    /\ UNCHANGED <<arg, net, asOf>>

WritePause(t) ==
    /\ pc[t] = "pause"
    /\ user' = IF Exists THEN [user EXCEPT !.status = "PAUSED", !.paused_at = now] ELSE user
    /\ Return(t)
    /\ UNCHANGED <<now, devices>>

ReadResume(t) ==
    /\ user.status = "PAUSED"
    /\ Read(t, "resume")
    /\ UNCHANGED <<arg, net, asOf>>

(* Mutant: the pause is not given back.                                    *)
WriteResumeUnshifted(t) ==
    /\ pc[t] = "resume"
    /\ user' = IF Exists THEN [user EXCEPT !.status = "ACTIVE", !.paused_at = NoTime] ELSE user
    /\ Return(t)
    /\ UNCHANGED <<now, devices>>

(* The paused span is added to the expiry as it was read.                  *)
WriteResume(t) ==
    /\ pc[t] = "resume"
    /\ LET u == read[t]
           shift == Activated(u) /\ u.paused_at # NoTime /\ u.expire_at # NoTime
       IN user' = IF ~ Exists THEN user
                  ELSE [user EXCEPT !.status = "ACTIVE", !.paused_at = NoTime,
                          !.expire_at = IF shift THEN u.expire_at + (now - u.paused_at) ELSE @]
    /\ InBounds(user')
    /\ Return(t)
    /\ UNCHANGED <<now, devices>>

Reset(t) ==
    /\ pc[t] = "free" /\ Exists
    /\ user' = NewUser(user.duration_days)
    /\ devices' = [n \in Nets |-> NoTime]
    /\ Goto(t, "free")
    /\ UNCHANGED <<now, read, arg, net, asOf>>

SetEnabled(t, enabled) ==
    /\ pc[t] = "free" /\ Exists
    /\ user' = IF enabled THEN [user EXCEPT !.status = "ACTIVE", !.paused_at = NoTime]
                          ELSE [user EXCEPT !.status = "DISABLED"]
    /\ Goto(t, "free")
    /\ UNCHANGED <<now, devices, read, arg, net, asOf>>

Delete(t) ==
    /\ pc[t] = "free" /\ Exists
    /\ user' = Gone
    /\ devices' = [n \in Nets |-> NoTime]
    /\ Goto(t, "free")
    /\ UNCHANGED <<now, read, arg, net, asOf>>

(* reset_user_devices for all networks, delete_user_device for one.        *)
ForgetDevices(t, S) ==
    /\ pc[t] = "free" /\ Exists
    /\ devices' = [n \in Nets |-> IF n \in S THEN NoTime ELSE devices[n]]
    /\ Goto(t, "free")
    /\ UNCHANGED <<now, user, read, arg, net, asOf>>

-------------------------------------------------------------------------------
(* resolve_user_request: a client at network n, or one that claims no slot *)
(* (a bot, a browser, an address nothing can be made of): NoNet.           *)

Hit(t, n) ==
    /\ Read(t, IF Activated(user) THEN "lookup" ELSE "activate")
    /\ user.status = "ACTIVE"
    /\ net' = [net EXCEPT ![t] = n]
    /\ UNCHANGED <<arg, asOf>>

(* Mutant: the UPDATE lacks "activated_at IS NULL".                        *)
ActivateAgain(t) ==
    /\ pc[t] = "activate"
    /\ LET d == read[t].duration_days
       IN user' = IF Exists
                  THEN [user EXCEPT !.activated_at = now,
                                    !.expire_at = IF d = 0 THEN NoTime ELSE now + d]
                  ELSE user
    /\ Goto(t, "reread")
    /\ UNCHANGED <<now, devices, read, arg, net, asOf>>

(* First use: the expiry is computed from the duration as it was read; the *)
(* condition on activated_at lets one of several first requests win.       *)
Activate(t) ==
    /\ pc[t] = "activate"
    /\ LET d == read[t].duration_days
       IN user' = IF Exists /\ ~ Activated(user)
                  THEN [user EXCEPT !.activated_at = now,
                                    !.expire_at = IF d = 0 THEN NoTime ELSE now + d]
                  ELSE user
    /\ Goto(t, "reread")
    /\ UNCHANGED <<now, devices, read, arg, net, asOf>>

(* A row deleted meanwhile ends the request.                               *)
Reread(t) ==
    /\ pc[t] = "reread"
    /\ IF Exists
       THEN /\ read' = [read EXCEPT ![t] = user]
            /\ Goto(t, "lookup")
            /\ UNCHANGED <<arg, net, asOf>>
       ELSE Return(t)
    /\ UNCHANGED <<now, user, devices>>

(* Expired, or served nothing that takes a slot; else is the device known? *)
(* The rest of the check goes by the clock as it is here.                  *)
LookUp(t) ==
    /\ pc[t] = "lookup"
    /\ IF Expired(read[t]) \/ net[t] = NoNet \/ MaxDevices = 0
       THEN Return(t)
       ELSE /\ Goto(t, IF devices[net[t]] # NoTime THEN "refresh" ELSE "count")
            /\ asOf' = [asOf EXCEPT ![t] = now]
            /\ UNCHANGED <<read, arg, net>>
    /\ UNCHANGED <<now, user, devices>>

Refresh(t) ==
    /\ pc[t] = "refresh"
    /\ devices' = [devices EXCEPT ![net[t]] = IF @ = NoTime THEN @ ELSE asOf[t]]
    /\ Return(t)
    /\ UNCHANGED <<now, user>>

Active(n, d)  == devices[n] # NoTime /\ devices[n] >= d - Window
InGrace(u, d) == Activated(u) /\ d - u.activated_at < Grace
HasSlot(u, d) == InGrace(u, d) \/ Cardinality({n \in Nets : Active(n, d)}) < MaxDevices

(* Mutant: "<=" for "<".                                                   *)
CountOneMore(t) ==
    /\ pc[t] = "count"
    /\ IF HasSlot(read[t], asOf[t]) \/ Cardinality({n \in Nets : Active(n, asOf[t])}) = MaxDevices
       THEN Goto(t, "register") /\ UNCHANGED <<read, arg, net, asOf>>
       ELSE Return(t)
    /\ UNCHANGED <<now, user, devices>>

(* With no slot left the client gets the device-limit text.                *)
Count(t) ==
    /\ pc[t] = "count"
    /\ IF HasSlot(read[t], asOf[t])
       THEN /\ Goto(t, "register")
            /\ UNCHANGED <<read, arg, net, asOf>>
       ELSE Return(t)
    /\ UNCHANGED <<now, user, devices>>

(* INSERT OR IGNORE.                                                       *)
Register(t) ==
    /\ pc[t] = "register"
    /\ devices' = [devices EXCEPT ![net[t]] = IF @ = NoTime THEN asOf[t] ELSE @]
    /\ Return(t)
    /\ UNCHANGED <<now, user>>

-------------------------------------------------------------------------------
(* cleanup_stale_devices, on the scheduler's turn.                         *)
Prune ==
    /\ devices' = [n \in Nets |-> IF devices[n] # NoTime /\ devices[n] < now - Retention
                                  THEN NoTime ELSE devices[n]]
    /\ UNCHANGED <<now, user, pc, read, arg, net, asOf, overlapped>>

Tick ==
    /\ now < MaxTime
    /\ now' = now + 1
    /\ UNCHANGED <<user, devices, pc, read, arg, net, asOf, overlapped>>

Next ==
    \/ \E t \in Threads :
        \/ \E d \in Days : ReadEdit(t, d) \/ Extend(t, d)
        \/ WriteEdit(t)
        \/ ReadPause(t) \/ WritePause(t) \/ ReadResume(t) \/ WriteResume(t)
        \/ Reset(t) \/ Delete(t)
        \/ \E enabled \in BOOLEAN : SetEnabled(t, enabled)
        \/ \E S \in {Nets} \cup {{n} : n \in Nets} : ForgetDevices(t, S)
        \/ \E n \in Nets \cup {NoNet} : Hit(t, n)
        \/ Activate(t) \/ Reread(t) \/ LookUp(t) \/ Refresh(t) \/ Count(t) \/ Register(t)
    \/ Prune
    \/ Tick

Spec == Init /\ [][Next]_vars

-------------------------------------------------------------------------------
(* Properties.                                                             *)

(* Of two first requests racing through the read, one starts the clock;    *)
(* only a reset (or deletion) clears it.                                   *)
ActivatedOnce ==
    [][Activated(user) => user'.activated_at \in {user.activated_at, NoTime}]_vars

(* A running subscription expires no earlier than the days granted to it   *)
(* after its first use, and an unlimited one never: through edits,         *)
(* renewals, pauses and resumes, in any order.                             *)
GrantedDays ==
    Activated(user) =>
        IF user.duration_days = 0 THEN user.expire_at = NoTime
        ELSE /\ user.expire_at # NoTime
             /\ user.expire_at >= user.activated_at + user.duration_days

(* The same of calls that do not overlap.                                  *)
GrantedDaysAlone == ~ overlapped => GrantedDays

(* The days left: those between the expiry and now, or the pause.          *)
Left(u, at) == u.expire_at - (IF u.status = "PAUSED" THEN u.paused_at ELSE at)

(* Nobody gets time for free: no more days are left than were granted.     *)
NoFreeDays ==
    ~ overlapped /\ Activated(user) /\ user.expire_at # NoTime
        => Left(user, now) <= user.duration_days

(* Pausing, resuming (however long the pause was) and renewing never take  *)
(* a day from the customer.                                                *)
PauseIsFair ==
    [][\A t \in Threads :
         (/\ \/ WritePause(t) \/ WriteResume(t) \/ (\E d \in Days : Extend(t, d))
          /\ ~ overlapped' /\ Activated(user) /\ user.expire_at # NoTime)
         => user'.expire_at # NoTime /\ Left(user', now) >= Left(user, now)]_vars

(* A new device is let in only if, at the time it is recorded with, a slot *)
(* was free or the grace ran.                                              *)
NewDeviceHasSlot ==
    [][\A n \in Nets :
         ~ overlapped' /\ devices[n] = NoTime /\ devices'[n] # NoTime
         => HasSlot(user, devices'[n])]_vars

(* services/user_service.py, extend_user: a renewal is never lost, the     *)
(* customer has at least the days just paid for.                           *)
RenewalPays ==
    [][\A t \in Threads, d \in Days :
         Extend(t, d) /\ Activated(user) => Left(user', now) >= d]_vars

(* set_user_enabled "permanently" disables: only enabling or resetting     *)
(* brings a disabled subscription back.                                    *)
DisabledStays ==
    [][user.status = "DISABLED" /\ user'.status \in {"ACTIVE", "PAUSED"}
         => \E t \in Threads : SetEnabled(t, TRUE) \/ Reset(t)]_vars

================================================================================
