----------------------------- MODULE IcmpRateLimit -----------------------------
(***************************************************************************)
(* ICMP error rate limiting of src/src/ip_icmp.c: the per-type token       *)
(* buckets icmp_ratelimit_state[], consumed by icmp_ratelimit_drop on the  *)
(* forwarding lcores, refilled once a second by                            *)
(* icmp_ratelimit_refresh_tmr_hdlr on the master lcore, and reset by the   *)
(* configuration handler cmd_icmp_rate_limit_cfg_handler and the "icmprl  *)
(* clear" command.  Nothing here takes a lock: tokens is changed with     *)
(* uatomic operations, everything else with plain stores.                 *)
(*                                                                         *)
(* An lcore's icmp_ratelimit_drop is two steps when the bucket is         *)
(* limiting and not empty: the test rl->tokens <= 0, then the             *)
(* uatomic_add_return(&rl->tokens, -1).  The timer handler is two steps:  *)
(* advancing the statistics interval, then the refill loop.  The          *)
(* configuration handler and the clear command are one step each.  Only   *)
(* the IPv4 table is modelled; the IPv6 one runs the same code.            *)
(***************************************************************************)
EXTENDS Integers, FiniteSets

CONSTANTS
    Cores,        \* forwarding lcores generating ICMP errors
    Named,        \* ICMP types with a rate limit entry (.name set)
    Rates,        \* maximum values a configuration command may carry
    Triggers,     \* packets that make an lcore generate an ICMP error
    ICMP_RATELIMIT_STATS_INTERVAL, \* seconds per drop statistics interval
    NUM_DROP_INTERVALS,            \* drop statistics intervals kept
    MaxErrors,    \* bound on ICMP errors generated
    MaxCmds       \* bound on configuration and clear commands

(* ICMP_RATELIMIT_TYPE_DEFAULT: entry 0 holds the default values. *)
ICMP_RATELIMIT_TYPE_DEFAULT == 0
Entries == {ICMP_RATELIMIT_TYPE_DEFAULT} \cup Named
Intervals == 0 .. NUM_DROP_INTERVALS - 1
ICMP_REDIRECT == 5

(* A trigger packet, as far as icmp_do_error looks at it: seen by the    *)
(* crypto path and not received on a VTI, a fragment other than the      *)
(* first, link-level multicast or broadcast, or carrying an ICMP error   *)
(* (not an informational ICMP message).                                   *)
Trigger == [crypto : BOOLEAN, nonfirst : BOOLEAN, l2mc : BOOLEAN, icmperr : BOOLEAN]

ASSUME Named \subseteq Nat \ {0} /\ Rates \subseteq Nat
ASSUME ICMP_RATELIMIT_STATS_INTERVAL \in Nat \ {0}
ASSUME NUM_DROP_INTERVALS \in Nat \ {0}
ASSUME {MaxErrors, MaxCmds} \subseteq Nat

VARIABLES
    limiting, explicit, max_rate, tokens,   \* icmp_ratelimit_state[t]
    total_sent, total_dropped, drop_stats,  \*   and its counters
    interval,      \* icmp_ratelimit_interval
    second_count,  \* icmp_ratelimit_second_count
    pc,            \* lcore: "idle", or "dec" between the test and the add
    ty,            \* lcore: ICMP type of the error it is sending
    trig,          \* lcore: the packet the error is about
    tmr,           \* timer handler: "idle", or "refresh" after advancing
    errors, cmds,  \* bound counters
    sentNow,       \* history: sends since the bucket was last filled
    droppedNow     \* history: drops since the bucket was last filled

vars == <<limiting, explicit, max_rate, tokens, total_sent, total_dropped,
          drop_stats, interval, second_count, pc, ty, trig, tmr, errors,
          cmds, sentNow, droppedNow>>

entryVars == <<limiting, explicit, max_rate, tokens, total_sent,
               total_dropped, drop_stats>>

(* Fault variant: the ring wraps one interval too late. *)
icmp_ratelimit_next_interval_off_by_one(i) ==
    IF i <= NUM_DROP_INTERVALS - 1 THEN i + 1 ELSE 0

icmp_ratelimit_next_interval(i) ==
    IF i < NUM_DROP_INTERVALS - 1 THEN i + 1 ELSE 0

(* The drop branch: both totals bumped, the drop counted in the interval *)
(* icmp_ratelimit_interval names when the lcore reads it.                *)
Drop(t) ==
    /\ total_dropped' = [total_dropped EXCEPT ![t] = @ + 1]
    /\ drop_stats' = [drop_stats EXCEPT ![t][interval] = @ + 1]
    /\ droppedNow' = [droppedNow EXCEPT ![t] = @ + 1]

(* The checks icmp_do_error makes after the rate limit: no error about  *)
(* a crypto packet from a non-VTI interface, a non-first fragment, a     *)
(* link multicast or broadcast, or an ICMP error (unless it is a         *)
(* redirect being sent).                                                  *)
IcmpErrorSuppressed(p, t) ==
    \/ p.crypto
    \/ p.nonfirst
    \/ p.l2mc
    \/ p.icmperr /\ t # ICMP_REDIRECT

(* The rest of icmp_do_error once the rate limit let the error through: *)
(* a suppressed trigger gives no error; otherwise the error is built,    *)
(* unless the header is not contiguous or too short, pktmbuf_alloc       *)
(* fails, or undoing NAT/CGNAT on the trigger fails.                     *)
Emit(t, p) ==
    \/ /\ IcmpErrorSuppressed(p, t)
       /\ UNCHANGED sentNow
    \/ /\ ~IcmpErrorSuppressed(p, t)
       /\ \/ sentNow' = [sentNow EXCEPT ![t] = @ + 1]
          \/ UNCHANGED sentNow

(* icmp_do_error of type t about packet p, first step (the test in      *)
(* icmp_ratelimit_drop): without limiting the error goes on uncounted,  *)
(* with no tokens it is dropped, otherwise the lcore goes on to take a   *)
(* token.                                                                *)
icmp_ratelimit_drop(c, t, p) ==
    /\ pc[c] = "idle" /\ errors < MaxErrors
    /\ errors' = errors + 1
    /\ ty' = [ty EXCEPT ![c] = t]
    /\ trig' = [trig EXCEPT ![c] = p]
    /\ \/ /\ ~limiting[t]
          /\ UNCHANGED <<pc, total_dropped, drop_stats, droppedNow>>
       \/ /\ limiting[t] /\ tokens[t] <= 0
          /\ Drop(t)
          /\ UNCHANGED pc
       \/ /\ limiting[t] /\ tokens[t] > 0
          /\ pc' = [pc EXCEPT ![c] = "dec"]
          /\ UNCHANGED <<total_dropped, drop_stats, droppedNow>>
    /\ UNCHANGED <<limiting, explicit, max_rate, tokens, total_sent,
                   interval, second_count, tmr, cmds, sentNow>>

(* Fault variant: the decrement's result not tested, so the test of the *)
(* first step alone decides.                                            *)
icmp_ratelimit_take_unchecked(c) ==
    LET t == ty[c] IN
    /\ pc[c] = "dec"
    /\ pc' = [pc EXCEPT ![c] = "idle"]
    /\ tokens' = [tokens EXCEPT ![t] = @ - 1]
    /\ total_sent' = [total_sent EXCEPT ![t] = @ + 1]
    /\ Emit(t, trig[c])
    /\ UNCHANGED <<total_dropped, drop_stats, droppedNow>>
    /\ UNCHANGED <<limiting, explicit, max_rate, interval, second_count,
                   ty, trig, tmr, errors, cmds>>

(* icmp_ratelimit_drop, second step: uatomic_add_return(&tokens, -1); a *)
(* result <= 0 drops the error, otherwise it counts as sent and          *)
(* icmp_do_error goes on with its checks.                                *)
icmp_ratelimit_take(c) ==
    LET t == ty[c] IN
    /\ pc[c] = "dec"
    /\ pc' = [pc EXCEPT ![c] = "idle"]
    /\ tokens' = [tokens EXCEPT ![t] = @ - 1]
    /\ IF tokens[t] - 1 <= 0
       THEN Drop(t) /\ UNCHANGED <<total_sent, sentNow>>
       ELSE /\ total_sent' = [total_sent EXCEPT ![t] = @ + 1]
            /\ Emit(t, trig[c])
            /\ UNCHANGED <<total_dropped, drop_stats, droppedNow>>
    /\ UNCHANGED <<limiting, explicit, max_rate, interval, second_count,
                   ty, trig, tmr, errors, cmds>>

(* icmp_ratelimit_refresh_tmr_hdlr, first step: count the second and,   *)
(* every ICMP_RATELIMIT_STATS_INTERVAL seconds, move to the next        *)
(* drop statistics interval.                                             *)
icmp_ratelimit_tick ==
    /\ tmr = "idle"
    /\ tmr' = "refresh"
    /\ second_count' = IF second_count + 1 = ICMP_RATELIMIT_STATS_INTERVAL
                       THEN 0 ELSE second_count + 1
    /\ interval' = IF second_count + 1 = ICMP_RATELIMIT_STATS_INTERVAL
                   THEN icmp_ratelimit_next_interval(interval) ELSE interval
    /\ UNCHANGED <<entryVars, pc, ty, trig, errors, cmds, sentNow, droppedNow>>

(* icmp_ratelimit_refresh_tmr_hdlr, second step: the loop that refills  *)
(* every bucket to max_rate and, at an interval change, zeroes the new  *)
(* interval's drop count.                                                *)
icmp_ratelimit_refresh ==
    /\ tmr = "refresh"
    /\ tmr' = "idle"
    /\ tokens' = max_rate
    /\ drop_stats' = IF second_count = 0
                     THEN [t \in Entries |-> [drop_stats[t] EXCEPT ![interval] = 0]]
                     ELSE drop_stats
    /\ sentNow' = [t \in Entries |-> 0]
    /\ droppedNow' = [t \in Entries |-> 0]
    /\ UNCHANGED <<limiting, explicit, max_rate, total_sent, total_dropped,
                   interval, second_count, pc, ty, trig, errors, cmds>>

(* icmp_ratelimit_reset_entry on every entry of S: totals and drop      *)
(* statistics cleared, limiting, explicit, max_rate and tokens set.      *)
icmp_ratelimit_reset_entry(S, en, ex, val) ==
    LET Upd(f, v) == [i \in Entries |-> IF i \in S THEN v ELSE f[i]] IN
    /\ total_sent' = Upd(total_sent, 0)
    /\ total_dropped' = Upd(total_dropped, 0)
    /\ limiting' = Upd(limiting, en)
    /\ explicit' = Upd(explicit, ex)
    /\ max_rate' = Upd(max_rate, val)
    /\ tokens' = Upd(tokens, val)
    /\ drop_stats' = Upd(drop_stats, [k \in Intervals |-> 0])
    /\ sentNow' = Upd(sentNow, 0)
    /\ droppedNow' = Upd(droppedNow, 0)

(* cmd_icmp_rate_limit_cfg_handler for a valid type t (0 = default) and *)
(* action SET with maximum v, or DELETE.  Deleting the default sets 0;  *)
(* deleting a type copies the default's values.  A default command is   *)
(* then copied to every named type whose explicit flag is clear.        *)
cmd_icmp_rate_limit_cfg_handler(t, isSet, v) ==
    LET ex  == t # ICMP_RATELIMIT_TYPE_DEFAULT
        en  == IF isSet THEN TRUE
               ELSE IF ~ex THEN FALSE ELSE limiting[ICMP_RATELIMIT_TYPE_DEFAULT]
        val == IF isSet THEN v
               ELSE IF ~ex THEN 0 ELSE max_rate[ICMP_RATELIMIT_TYPE_DEFAULT]
        S   == IF ex THEN {t}
               ELSE {t} \cup {i \in Named : ~explicit[i]}
    IN
    /\ cmds < MaxCmds
    /\ cmds' = cmds + 1
    /\ icmp_ratelimit_reset_entry(S, en, ex, val)
    /\ UNCHANGED <<interval, second_count, pc, ty, trig, tmr, errors>>

(* cmd_icmp_rl "clear": totals and drop statistics of every entry. *)
cmd_icmp_rl_clear ==
    /\ cmds < MaxCmds
    /\ cmds' = cmds + 1
    /\ total_sent' = [i \in Entries |-> 0]
    /\ total_dropped' = [i \in Entries |-> 0]
    /\ drop_stats' = [i \in Entries |-> [k \in Intervals |-> 0]]
    /\ UNCHANGED <<limiting, explicit, max_rate, tokens, interval,
                   second_count, pc, ty, trig, tmr, errors, sentNow,
                   droppedNow>>

(* The static icmp_ratelimit_state[] (all zero but the names) and the   *)
(* zero statics icmp_ratelimit_interval / _second_count.                  *)
Init ==
    /\ limiting = [i \in Entries |-> FALSE]
    /\ explicit = [i \in Entries |-> FALSE]
    /\ max_rate = [i \in Entries |-> 0]
    /\ tokens = [i \in Entries |-> 0]
    /\ total_sent = [i \in Entries |-> 0]
    /\ total_dropped = [i \in Entries |-> 0]
    /\ drop_stats = [i \in Entries |-> [k \in Intervals |-> 0]]
    /\ interval = 0
    /\ second_count = 0
    /\ pc = [c \in Cores |-> "idle"]
    /\ ty = [c \in Cores |-> ICMP_RATELIMIT_TYPE_DEFAULT]
    /\ trig = [c \in Cores |-> CHOOSE p \in Triggers : TRUE]
    /\ tmr = "idle"
    /\ errors = 0 /\ cmds = 0
    /\ sentNow = [i \in Entries |-> 0]
    /\ droppedNow = [i \in Entries |-> 0]

Next ==
    \/ \E c \in Cores, t \in Named, p \in Triggers : icmp_ratelimit_drop(c, t, p)
    \/ \E c \in Cores : icmp_ratelimit_take(c)
    \/ icmp_ratelimit_tick
    \/ icmp_ratelimit_refresh
    \/ \E t \in Entries, isSet \in BOOLEAN, v \in Rates :
           cmd_icmp_rate_limit_cfg_handler(t, isSet, v)
    \/ cmd_icmp_rl_clear

Spec == Init /\ [][Next]_vars

-----------------------------------------------------------------------------
(* Properties *)

TypeOK ==
    /\ limiting \in [Entries -> BOOLEAN]
    /\ explicit \in [Entries -> BOOLEAN]
    /\ max_rate \in [Entries -> Rates \cup {0}]
    /\ tokens \in [Entries -> Int]
    /\ total_sent \in [Entries -> Nat]
    /\ total_dropped \in [Entries -> Nat]
    /\ drop_stats \in [Entries -> [Intervals -> Nat]]
    /\ interval \in Intervals
    /\ second_count \in 0 .. ICMP_RATELIMIT_STATS_INTERVAL - 1
    /\ pc \in [Cores -> {"idle", "dec"}]
    /\ ty \in [Cores -> Entries]
    /\ trig \in [Cores -> Triggers]
    /\ tmr \in {"idle", "refresh"}

(* The limit (icmp_ratelimit_drop racing the refill and configuration): *)
(* between two fills of a bucket, by the timer or by a configuration    *)
(* command, the lcores together send at most max_rate errors of the     *)
(* type, however their token tests and decrements interleave.           *)
SentWithinLimit ==
    \A t \in Named : sentNow[t] <= max_rate[t]

(* The budget (icmp_ratelimit_drop): an error is only dropped for lack  *)
(* of tokens once max_rate errors of the type were sent since the        *)
(* bucket was filled.                                                   *)
DropOnlyWhenExhausted ==
    \A t \in Named : droppedNow[t] > 0 => sentNow[t] >= max_rate[t]
====
