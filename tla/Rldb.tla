---------------------------------- MODULE Rldb ----------------------------------
(***************************************************************************)
(* The rule database of src/src/npf/rldb.c: a global lock-free hash table *)
(* (rldb_global_ht) of database handles keyed by name, a rule mempool,   *)
(* the flag rldb_disabled and the id counter rldb_counter.  Clients call *)
(* rldb_init once at start-up, then rldb_create, rldb_destroy and        *)
(* rldb_cleanup in any order.  The rule operations are stubs returning 0 *)
(* and rldb_walk/rldb_dump only read, so they are not actions.           *)
(* A handle is a record [id, name, af]; `table' is the set of handles    *)
(* linked in the global table, `live' those returned to clients and not  *)
(* destroyed, `stale' those freed by rldb_cleanup that clients still     *)
(* hold.  A NULL dereference or a use of freed memory is recorded in     *)
(* `fault' and ends the behaviour.                                        *)
(***************************************************************************)
EXTENDS Integers, FiniteSets

CONSTANTS
    Names,      \* names with room for the "-<id>" suffix
    LongNames,  \* names of RLDB_NAME_MAX - 1 characters: suffix cut off
    BadNames,   \* empty names and names of RLDB_NAME_MAX characters
    NullName,   \* a NULL name pointer
    Flags,      \* subsets of {"V4", "V6"} passed as flags
    MaxIds      \* bound on rldb_counter

AllNames == Names \cup LongNames \cup BadNames \cup {NullName}

VARIABLES
    inited,     \* rldb_init has been called
    disabled,   \* rldb_disabled (static, so FALSE before rldb_init)
    mempool,    \* rldb_mempool non-NULL
    htAlloc,    \* rldb_global_ht non-NULL
    table,      \* handles linked in rldb_global_ht
    live,       \* handles held by clients
    stale,      \* handles freed by rldb_cleanup, still held by clients
    counter,    \* rldb_counter
    fault,      \* "none", "null_deref" or "use_after_free"
    rc          \* result of the last call

vars == <<inited, disabled, mempool, htAlloc, table, live, stale, counter,
          fault, rc>>

Handle == [id : 1 .. MaxIds, name : Names \cup LongNames, af : {"V4", "V6"}]

TypeOK ==
    /\ inited \in BOOLEAN /\ disabled \in BOOLEAN
    /\ mempool \in BOOLEAN /\ htAlloc \in BOOLEAN
    /\ table \subseteq Handle /\ live \subseteq Handle /\ stale \subseteq Handle
    /\ counter \in 0 .. MaxIds
    /\ fault \in {"none", "null_deref", "use_after_free"}

Init ==
    /\ inited = FALSE /\ disabled = FALSE /\ mempool = FALSE /\ htAlloc = FALSE
    /\ table = {} /\ live = {} /\ stale = {} /\ counter = 0
    /\ fault = "none" /\ rc = "OK"

(* The name stored in the handle: snprintf of "%s-%d" into RLDB_NAME_MAX   *)
(* bytes, which drops the suffix of a long name.                          *)
StoredName(h) == IF h.name \in LongNames THEN <<h.name>> ELSE <<h.name, h.id>>

(* rldb_cleanup: every linked handle is destroyed (rldb_destroy with the   *)
(* flag still clear), the table and the mempool are freed, and the module *)
(* is disabled.  Handles clients hold are now freed memory.               *)
Cleanup ==
    /\ table' = {} /\ live' = {} /\ stale' = stale \cup live
    /\ htAlloc' = FALSE /\ mempool' = FALSE /\ disabled' = TRUE

rldb_cleanup ==
    /\ inited /\ fault = "none"
    /\ Cleanup /\ rc' = "OK"
    /\ UNCHANGED <<inited, counter, fault>>

(* rldb_init: the mempool (on failure -ENOMEM is returned with            *)
(* rldb_disabled left as it is), then the global table (on failure        *)
(* rldb_cleanup runs and disables the module).                            *)
rldb_init ==
    /\ ~inited /\ inited' = TRUE
    /\ \/ /\ rc' = "ENOMEM"
          /\ UNCHANGED <<disabled, mempool, htAlloc, table, live, stale>>
       \/ /\ rc' = "ENOMEM" /\ Cleanup
       \/ /\ rc' = "OK" /\ mempool' = TRUE /\ htAlloc' = TRUE
          /\ disabled' = FALSE
          /\ UNCHANGED <<table, live, stale>>
    /\ UNCHANGED <<counter, fault>>

(* Fault variant: the counter's old value (a fetch-and-add) taken as id. *)
NextId_old == counter

(* rte_atomic32_add_return: the id is the incremented counter. *)
NextId == counter + 1

(* Fault variant: the error path leaves the node linked. *)
Unlink_skipped(h, t) == t

(* cds_lfht_del of a handle's node from the global table. *)
Unlink(h, t) == t \ {h}

(* rldb_create(name, flags): -EINVAL for a NULL name, checked first;     *)
(* then -ENODEV when disabled, -EINVAL for an empty                       *)
(* or over-long name, -ENOMEM when the handle cannot be allocated.  The   *)
(* handle then takes the next id.  With neither address-family flag, or   *)
(* when its own table cannot be allocated, the error path passes the      *)
(* handle's NULL table to cds_lfht_destroy.  Otherwise it is added to the *)
(* global table under the hash of the requested name, matched against     *)
(* the stored names (-EEXIST), and the ACL context is set up; if that     *)
(* fails the error path unlinks and frees the handle.                    *)
rldb_create(n, f) ==
    /\ inited /\ fault = "none"
    /\ IF n = NullName THEN rc' = "EINVAL" /\ UNCHANGED <<counter, table, live, fault>>
       ELSE IF disabled THEN rc' = "ENODEV" /\ UNCHANGED <<counter, table, live, fault>>
       ELSE IF n \in BadNames
       THEN rc' = "EINVAL" /\ UNCHANGED <<counter, table, live, fault>>
       ELSE
       \/ rc' = "ENOMEM" /\ UNCHANGED <<counter, table, live, fault>>
       \/ /\ counter < MaxIds /\ counter' = counter + 1
          /\ LET h == [id |-> NextId, name |-> n,
                       af |-> IF "V4" \in f THEN "V4" ELSE "V6"] IN
             IF f = {}
             THEN fault' = "null_deref" /\ rc' = "EAFNOSUPPORT"
                  /\ UNCHANGED <<table, live>>
             ELSE
             \/ fault' = "null_deref" /\ rc' = "ENOMEM"  \* cds_lfht_new fails
                /\ UNCHANGED <<table, live>>
             \/ /\ ~htAlloc                             \* global table NULL
                /\ fault' = "null_deref" /\ rc' = "OK"
                /\ UNCHANGED <<table, live>>
             \/ /\ htAlloc
                /\ \E d \in table : d.name = n /\ StoredName(d) = StoredName(h)
                /\ rc' = "EEXIST" /\ table' = Unlink(h, table)
                /\ UNCHANGED <<live, fault>>
             \/ /\ htAlloc
                /\ ~\E d \in table : d.name = n /\ StoredName(d) = StoredName(h)
                /\ \/ rc' = "EACL" /\ table' = Unlink(h, table \cup {h})
                      /\ UNCHANGED <<live, fault>>
                   \/ rc' = "OK" /\ table' = table \cup {h}
                      /\ live' = live \cup {h} /\ UNCHANGED fault
    /\ UNCHANGED <<inited, disabled, mempool, htAlloc, stale>>

(* Fault variant: no rldb_disabled check. *)
rldb_destroy_unchecked(h) ==
    /\ fault = "none"
    /\ IF h \in stale
       THEN fault' = "use_after_free" /\ rc' = "OK" /\ UNCHANGED <<table, live>>
       ELSE table' = Unlink(h, table) /\ live' = live \ {h} /\ rc' = "OK"
            /\ UNCHANGED fault
    /\ UNCHANGED <<inited, disabled, mempool, htAlloc, stale, counter>>

(* rldb_destroy(db): -ENODEV when disabled; otherwise the handle is       *)
(* unlinked from the global table and freed, which for a handle freed by *)
(* rldb_cleanup is a use of freed memory.                                 *)
rldb_destroy(h) ==
    /\ fault = "none"
    /\ IF disabled THEN rc' = "ENODEV" /\ UNCHANGED <<table, live, fault>>
       ELSE IF h \in stale
       THEN fault' = "use_after_free" /\ rc' = "OK" /\ UNCHANGED <<table, live>>
       ELSE table' = Unlink(h, table) /\ live' = live \ {h} /\ rc' = "OK"
            /\ UNCHANGED fault
    /\ UNCHANGED <<inited, disabled, mempool, htAlloc, stale, counter>>

Next ==
    \/ rldb_init
    \/ \E n \in AllNames, f \in Flags : rldb_create(n, f)
    \/ \E h \in live \cup stale : rldb_destroy(h)
    \/ rldb_cleanup

Spec == Init /\ [][Next]_vars

-----------------------------------------------------------------------------
(* The global table links exactly the handles clients hold, and none is   *)
(* held without a table: every error path of rldb_create unlinks what it  *)
(* linked, rldb_destroy unlinks, rldb_cleanup empties both.               *)
TableMatchesHandles ==
    /\ htAlloc => table = live
    /\ ~htAlloc => live = {}

(* No call touches a handle rldb_cleanup has freed: after cleanup the     *)
(* module stays disabled and rldb_destroy refuses with -ENODEV.           *)
NoUseAfterFree == fault # "use_after_free"
=============================================================================
