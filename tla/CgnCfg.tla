-------------------------------- MODULE CgnCfg --------------------------------
(***************************************************************************)
(* CGNAT configuration commands of src/src/npf/cgnat/cgn_cmd_cfg.c.       *)
(* cmd_cgn runs each "cgn-cfg" command on the configuration thread, and   *)
(* the interface index events run on the same thread, so every handler   *)
(* is one step.  A policy attach for an interface that does not exist yet *)
(* is stored on the replay list cgn_cfg_list and run again by              *)
(* cgn_event_if_index_set when the interface appears;                      *)
(* cgn_event_if_index_unset discards what is stored for it.               *)
(*                                                                         *)
(* An interface name and a policy name are model values; a stored command *)
(* is abstracted to its interface and the value of its name= item.  The   *)
(* policy hash table and the per-interface policy lists are kept in        *)
(* cgn_policy.c and cgn_if.c, which are not part of the repository: they  *)
(* are the sets policies and attached.                                     *)
(***************************************************************************)
EXTENDS Integers, Sequences, FiniteSets

CONSTANTS
    Ifnames,                \* interface names commands may name
    Policies,               \* policy names
    NoName,                 \* a command without that item=value pair
    CGN_SESSIONS_MAX,
    CGN_DEST_SESSIONS_MAX,
    SessionsArgs,           \* values a max-sessions command may carry
    DestArgs,               \* values a max-dest-per-session command may carry
    TimeoutItems,           \* item names of a session-timeouts command
    TimeoutArgs,            \* values they may carry
    MaxCmds                 \* bound on cgn-cfg commands

(* A cgn_cfg_if_list_entry: le_ifname and the attach command it holds. *)
Entry == [ifname : Ifnames, name : Policies \cup {NoName}]

VARIABLES
    ifaces,      \* interfaces ifnet_byifname finds
    policies,    \* policies cgn_policy_lookup finds
    attached,    \* <<ifname, policy>> pairs on the cgn interface lists
    listAlloc,   \* cgn_cfg_list # NULL
    cache,       \* cgn_cfg_list->if_list, in list order
    count,       \* cgn_cfg_list->if_list_count
    hairpin,     \* cgn_hairpinning_gbl
    sessMax,     \* cgn_sessions_max
    destMax,     \* cgn_dest_sessions_max (int16_t)
    etime,       \* the session timeouts, per item
    want,        \* history: pairs whose last attach/detach command said attach
    rc,          \* the value cmd_cgn returned for the last command
    cmds         \* commands so far

vars == <<ifaces, policies, attached, listAlloc, cache, count, hairpin,
          sessMax, destMax, etime, want, rc, cmds>>
listVars == <<listAlloc, cache, count>>
EEXIST == -17   \* -EEXIST
gblVars == <<hairpin, sessMax, destMax, etime>>

(* (int16_t) of an int on a two's complement target. *)
Int16(x) == IF (x % 65536) >= 32768 THEN (x % 65536) - 65536 ELSE x % 65536

(* Every command goes through cmd_cgn, which dispatches on argv[1] and,  *)
(* for "policy", on argv[2]; an unknown keyword or a short command is a  *)
(* usage error (-1) that changes nothing, the same step as the usage     *)
(* errors of the handlers below.                                         *)
Command == cmds < MaxCmds /\ cmds' = cmds + 1

-----------------------------------------------------------------------------
(* cgn_cfg_replay_init + cgn_cfg_if_list_add of a cached attach.  The     *)
(* list allocation may fail (-ENOMEM: nothing stored, attach fails); the  *)
(* entry allocation may fail too, but the caller ignores that result.     *)
CacheAttach(e) ==
    LET l == IF listAlloc THEN cache ELSE <<>>    \* a new list is empty
        n == IF listAlloc THEN count ELSE 0
    IN
    \/ /\ ~listAlloc                                 \* zmalloc fails
       /\ rc' = -1
       /\ UNCHANGED listVars
    \/ /\ listAlloc' = TRUE                          \* entry malloc fails
       /\ rc' = 0
       /\ cache' = l /\ count' = n
    \/ /\ listAlloc' = TRUE
       /\ cache' = Append(l, e)
       /\ count' = n + 1
       /\ rc' = 0

(* Parsing after the interface was found: name= required, then the     *)
(* policy lookup (-EEXIST when absent), then cgn_if_add_policy.          *)
AttachNow(i, n) ==
    IF n \in policies THEN attached \cup {<<i, n>>} ELSE attached

(* cgn-cfg policy attach intf=i name=n, argc >= 5.  i = NoName: no      *)
(* intf= item, a usage error.                                            *)
cgn_policy_cfg_attach(i, n) ==
    /\ Command
    /\ want' = IF i \in Ifnames /\ n \in Policies
               THEN want \cup {<<i, n>>} ELSE want
    /\ UNCHANGED <<ifaces, policies, gblVars>>
    /\ \/ /\ i = NoName
          /\ rc' = -1
          /\ UNCHANGED <<attached, listVars>>
       \/ /\ i \in Ifnames /\ i \notin ifaces
          /\ CacheAttach([ifname |-> i, name |-> n])
          /\ UNCHANGED attached
       \/ /\ i \in ifaces
          /\ attached' = AttachNow(i, n)
          /\ rc' = CASE n = NoName -> -1 [] n \notin policies -> EEXIST
                     [] OTHER -> 0
          /\ UNCHANGED listVars

(* cgn-cfg policy detach name=n intf=i: usage without both items,       *)
(* -EEXIST when the interface does not exist, otherwise the policy is   *)
(* looked up on the interface's list and deleted from it.               *)
cgn_policy_cfg_detach(i, n) ==
    /\ Command
    /\ want' = IF i \in Ifnames /\ n \in Policies
               THEN want \ {<<i, n>>} ELSE want
    /\ attached' = IF i \in ifaces THEN attached \ {<<i, n>>} ELSE attached
    /\ rc' = CASE i = NoName \/ n = NoName -> -1 [] i \notin ifaces -> EEXIST
               [] OTHER -> 0
    /\ UNCHANGED <<ifaces, policies, listVars, gblVars>>

(* Fault variant: the entry is unlinked but if_list_count is not        *)
(* decremented.                                                           *)
cgn_cfg_if_list_del_nocount(n) == n

(* cgn_cfg_if_list_del of an entry: unlinked and freed, and the count     *)
(* of the list goes down by one.  The caller checks for count 0 (-ENOENT, *)
(* nothing unlinked).                                                      *)
cgn_cfg_if_list_del(n) == n - 1

(* Fault variant: the walk stops after the first entry for i. *)
RECURSIVE WalkDel_first(_, _, _)
WalkDel_first(l, n, i) ==
    IF l = <<>> THEN <<<<>>, n>>
    ELSE IF Head(l).ifname = i /\ n # 0
    THEN <<Tail(l), cgn_cfg_if_list_del(n)>>
    ELSE LET r == WalkDel_first(Tail(l), n, i) IN <<<<Head(l)>> \o r[1], r[2]>>

(* cds_list_for_each_entry_safe over the list l with if_list_count n:    *)
(* cgn_cfg_if_list_del of every entry for interface i, in list order.    *)
(* The result is the list left and its count.                            *)
RECURSIVE WalkDel(_, _, _)
WalkDel(l, n, i) ==
    IF l = <<>> THEN <<<<>>, n>>
    ELSE IF Head(l).ifname = i /\ n # 0
    THEN WalkDel(Tail(l), cgn_cfg_if_list_del(n), i)
    ELSE LET r == WalkDel(Tail(l), n, i) IN <<<<Head(l)>> \o r[1], r[2]>>

(* The walk, then cgn_cfg_if_list_destroy when if_list_count is 0: the    *)
(* list head is freed and cgn_cfg_list set to NULL.  Entries still linked *)
(* to a list freed that way are lost, so they stay in cache.              *)
DropEntries(i) ==
    LET w == WalkDel(cache, count, i) IN
    /\ cache' = w[1]
    /\ count' = w[2]
    /\ listAlloc' = (w[2] # 0)

(* cgn_event_if_index_set: the interface now exists; each stored        *)
(* command for it, in list order, is replayed through cmd_cgn (and now  *)
(* finds the interface) and removed, whatever it returned.              *)
cgn_event_if_index_set(i) ==
    /\ i \notin ifaces
    /\ ifaces' = ifaces \cup {i}
    /\ IF listAlloc
       THEN /\ attached' = attached \cup
                   {<<i, cache[j].name>> : j \in {j \in 1 .. Len(cache) :
                        cache[j].ifname = i /\ cache[j].name \in policies}}
            /\ DropEntries(i)
       ELSE UNCHANGED <<attached, listVars>>
    /\ UNCHANGED <<policies, gblVars, want, rc, cmds>>

(* cgn_event_if_index_unset: the stored commands for i are discarded.   *)
(* The policies attached to the interface are left on its cgn interface *)
(* list; this handler does not touch them.                               *)
cgn_event_if_index_unset(i) ==
    /\ i \in ifaces
    /\ ifaces' = ifaces \ {i}
    /\ IF listAlloc THEN DropEntries(i) ELSE UNCHANGED listVars
    /\ UNCHANGED <<policies, attached, gblVars, want, rc, cmds>>

(* cgn-cfg policy add / delete (cgn_policy.c): the hash table changes; a *)
(* deleted policy stays on the interface lists that hold a reference.    *)
(* Their parsing and results are not modelled.                           *)
cgn_policy_cfg_add(n) ==
    /\ Command
    /\ policies' = policies \cup {n}
    /\ UNCHANGED <<ifaces, attached, listVars, gblVars, want, rc>>

cgn_policy_cfg_delete(n) ==
    /\ Command
    /\ policies' = policies \ {n}
    /\ UNCHANGED <<ifaces, attached, listVars, gblVars, want, rc>>

(* cgn-cfg hairpinning {on|off}: anything but "on" turns it off. *)
cgn_hairpinning_cfg(on) ==
    /\ Command
    /\ hairpin' = on
    /\ rc' = 0
    /\ UNCHANGED <<ifaces, policies, attached, listVars, sessMax, destMax,
                   etime, want>>

(* Fault variant: 0 stored as it is instead of meaning the maximum. *)
cgn_max_sessions_cfg_zero(v) ==
    /\ Command
    /\ rc' = IF v < 0 \/ v > CGN_SESSIONS_MAX THEN -1 ELSE 0
    /\ sessMax' = IF v < 0 \/ v > CGN_SESSIONS_MAX THEN sessMax ELSE v
    /\ UNCHANGED <<ifaces, policies, attached, listVars, hairpin, destMax,
                   etime, want>>

(* cgn-cfg max-sessions <num>: out of range fails, 0 means the maximum. *)
cgn_max_sessions_cfg(v) ==
    /\ Command
    /\ rc' = IF v < 0 \/ v > CGN_SESSIONS_MAX THEN -1 ELSE 0
    /\ sessMax' = IF v < 0 \/ v > CGN_SESSIONS_MAX THEN sessMax
                  ELSE IF v = 0 THEN CGN_SESSIONS_MAX ELSE v
    /\ UNCHANGED <<ifaces, policies, attached, listVars, hairpin, destMax,
                   etime, want>>

(* cgn-cfg max-dest-per-session <num>: stored through an int16_t cast. *)
cgn_max_dest_sessions_cfg(v) ==
    /\ Command
    /\ rc' = IF v < 0 \/ v > CGN_DEST_SESSIONS_MAX \/ v > 65535 - 1 THEN -1
             ELSE 0
    /\ destMax' = IF v < 0 \/ v > CGN_DEST_SESSIONS_MAX \/ v > 65535 - 1
                  THEN destMax
                  ELSE Int16(IF v = 0 THEN CGN_DEST_SESSIONS_MAX ELSE v)
    /\ UNCHANGED <<ifaces, policies, attached, listVars, hairpin, sessMax,
                   etime, want>>

(* cgn-cfg session-timeouts item=value ...: fewer than two items is a    *)
(* usage error; the items are applied in order until a negative value,  *)
(* which ends the loop with a usage error after the earlier ones.        *)
cgn_session_timeouts_cfg(s) ==
    /\ Command
    /\ LET bad  == {j \in 1 .. Len(s) : s[j][2] < 0}
           stop == IF bad = {} THEN Len(s) + 1
                   ELSE CHOOSE j \in bad : \A b \in bad : j <= b
           set(it) == {j \in 1 .. stop - 1 : s[j][1] = it}
       IN /\ rc' = IF Len(s) < 2 \/ bad # {} THEN -1 ELSE 0
          /\ etime' = IF Len(s) < 2 THEN etime
                      ELSE [it \in TimeoutItems |->
                              IF set(it) = {} THEN etime[it]
                              ELSE s[CHOOSE j \in set(it) :
                                       \A b \in set(it) : b <= j][2]]
    /\ UNCHANGED <<ifaces, policies, attached, listVars, hairpin, sessMax,
                   destMax, want>>

-----------------------------------------------------------------------------
(* The dataplane starts with no interfaces, policies or stored commands; *)
(* the limits are their defaults.                                        *)
Init ==
    /\ ifaces = {}
    /\ policies = {}
    /\ attached = {}
    /\ listAlloc = FALSE
    /\ cache = <<>>
    /\ count = 0
    /\ hairpin = FALSE
    /\ sessMax = CGN_SESSIONS_MAX
    /\ destMax = CGN_DEST_SESSIONS_MAX
    /\ etime = [it \in TimeoutItems |-> 1]
    /\ want = {}
    /\ rc = 0
    /\ cmds = 0

Names == Ifnames \cup {NoName}
TimeoutCmds == UNION {[1 .. n -> TimeoutItems \X TimeoutArgs] : n \in 1 .. 2}

Next ==
    \/ \E i \in Names, n \in Policies \cup {NoName} : cgn_policy_cfg_attach(i, n)
    \/ \E i \in Names, n \in Policies \cup {NoName} : cgn_policy_cfg_detach(i, n)
    \/ \E i \in Ifnames : cgn_event_if_index_set(i)
    \/ \E i \in Ifnames : cgn_event_if_index_unset(i)
    \/ \E n \in Policies : cgn_policy_cfg_add(n)
    \/ \E n \in Policies : cgn_policy_cfg_delete(n)
    \/ \E on \in BOOLEAN : cgn_hairpinning_cfg(on)
    \/ \E v \in SessionsArgs : cgn_max_sessions_cfg(v)
    \/ \E v \in DestArgs : cgn_max_dest_sessions_cfg(v)
    \/ \E s \in TimeoutCmds : cgn_session_timeouts_cfg(s)

Spec == Init /\ [][Next]_vars

-----------------------------------------------------------------------------
TypeOK ==
    /\ ifaces \subseteq Ifnames
    /\ policies \subseteq Policies
    /\ attached \subseteq Ifnames \X Policies
    /\ listAlloc \in BOOLEAN
    /\ cache \in Seq(Entry)
    /\ count \in Nat
    /\ hairpin \in BOOLEAN
    /\ sessMax \in 1 .. CGN_SESSIONS_MAX
    /\ destMax \in -32768 .. 32767
    /\ etime \in [TimeoutItems -> Nat]
    /\ want \subseteq Ifnames \X Policies
    /\ rc \in {0, -1, EEXIST}
    /\ cmds \in 0 .. MaxCmds

(* The replay list (cgn_policy_cfg_attach, cgn_event_if_index_set/unset): *)
(* no command stays stored for an interface that exists, whatever order  *)
(* attaches and interface events of several interfaces come in: every    *)
(* stored command for an interface is run or dropped when it appears.    *)
CachedOnlyForAbsent ==
    \A j \in 1 .. Len(cache) : cache[j].ifname \notin ifaces

(* The list bookkeeping of cgn_cfg_if_list_add/_del/_destroy across     *)
(* attaches and interface events of several interfaces: if_list_count    *)
(* counts the linked entries, so the event handlers free the list only   *)
(* when no stored command is left on it to be lost.                       *)
ReplayCacheAccounted ==
    /\ count = Len(cache)
    /\ ~listAlloc => cache = <<>>

(* Replay against later commands: a policy is never attached to an      *)
(* existing interface when the last attach/detach command for that pair *)
(* was a detach.                                                          *)
ConfigApplied ==
    \A a \in attached : a[1] \in ifaces => a \in want
=============================================================================
