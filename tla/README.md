# TLA+ models of vyatta-dataplane components

This directory holds TLA+ specifications of parts of the vyatta-dataplane
sources under `src/src/`, the TLC configurations that check them, and
`PROJECT.json`, which lists every component, run, property mutant,
the mapping from definitions to source lines, the findings and the hazards.

## 1. The system and its parts

The repository is a slice of the Vyatta/DANOS dataplane: eight C files.

| Part | Source | State it owns | Operations | Who runs them |
|---|---|---|---|---|
| NPF session state engine | `src/npf/npf_state.c` | per-session `npf_state_t` (`nst_gen_state`, `nst_tcp_state`, TCP windows, `nst_to`, `nst_lock`); the per-lcore table `stats[lcore].ss_ct[proto][state]` / `ss_tcp_ct[state]`; `npf_state_icmp_strict` | `npf_state_init`, `npf_state_destroy`, `npf_state_inspect` (other/TCP/ICMP), `npf_state_set_gen_closed`/`_tcp_closed`, `npf_state_update_gen/tcp_session`, `npf_state_stats_json`, `npf_state_set_icmp_strict` | forwarding lcores in parallel on the same record (forward and reverse packets), the session GC, the console thread for show commands |
| NPF state sync | `src/npf/npf_state.c` 650-809 | same record | `npf_state_pack_update_gen/tcp` (binary npf_pack record), `npf_state_pack_*_pb`, `npf_state_restore_*_pb` (unlocked, initial load), `npf_state_update_*_pb` (locked, live) | connsync on the console/main thread, racing the lcores |
| NPF state names | `src/npf/npf_state.c` 466-563 | none | name lookup and conversion, custom timeout lookup | anyone |
| ICMP errors and rate limiting | `src/ip_icmp.c` | `icmp_ratelimit_state[type]` (tokens, max_rate, limiting, explicit, drop_stats), interval counters | `icmp_ratelimit_drop`, the 1 s refresh timer, `cmd_icmp_rate_limit_cfg_handler`, show/clear | lcores generating ICMP errors, the main thread timer, config |
| TWAMP control | `src/twamp_ctrl.c` | RCU list of `tw_session_entry`, UDP port registrations | session create/delete/counters, VRF clean, port register messages console to main | console thread, main thread |
| CGNAT configuration | `src/npf/cgnat/cgn_cmd_cfg.c` | replay list of commands for absent interfaces, policies attached to interfaces, global limits | `cgn_policy_cfg_attach/detach`, `cgn_event_if_index_set/unset`, limits and timeouts | config thread, interface events |
| Rule database | `src/npf/rldb.c` | global hash table of rldb instances, counters | `rldb_init`, `rldb_create/destroy`, `rldb_cleanup`; rule ops are stubs | config |
| Crypto PMD management | `src/crypto/crypto_rte_pmd.c` | `pmd_inst_ids[type][slot]`, `dev_cnts[type]`, private session pools | `crypto_rte_create_pmd` (with its fail path), `crypto_rte_destroy_pmd`, transform setup | main thread |

`src/tests/whole_dp/...` is a packet-driven test and is not modelled.

### How the engine parts interact

A packet reaches `npf_state_inspect` on some lcore. The handler takes the
record's spinlock, computes the next state (table `npf_generic_fsm`, the
external TCP validator, or the ICMP echo guard plus the table), applies it
through `npf_state_set_gen`/`_set_tcp`, which move the record between two
counters of **the running lcore's** row, and releases the lock. Only then,
if the state changed, the session layer is notified
(`npf_session_*_state_change`, which calls `npf_state_update_*_session`
to re-read the record and set the session's state and timeout). Session
GC marks records CLOSED, the connsync path applies replicated states, and
`npf_state_destroy` uncounts the record when the session is freed. The show
command `npf_state_stats_json` runs on another thread and, before summing
the rows, adds every row's NONE counters into its CLOSED counters in place.

## 2. Modules

### `NpfStateEnums.tla`

The enumerations `enum npf_proto_idx`, `enum dp_session_state`,
`enum tcp_session_state` (as ordinals), `enum npf_flow_dir` and the fixed
projection `npf_state_tcp2gen`, shared by the modules below. The enum
headers are not in the repository, so these are taken from the spec.

### `NpfState.tla`: the state engine

* **CONSTANTS**: `Cores` (lcores, i.e. rows of `stats`), `Records`
  (`npf_state_t` instances, reused by successive sessions), `Protos`
  (`proto_idx` values sessions are created with), `GenSyncIn`/`TcpSyncIn`
  (ordinals a protobuf message may carry, including one past the last),
  `GenPackIn`/`TcpPackIn` (states of a binary record), `TcpValidatorOut`
  (verdicts of the TCP validator), `MaxReports`, `MaxSessions`.
* **VARIABLES**: `proto`, `life` (free/live), `gen`, `tcp`,
  `stats[core][<<proto, state>>]`, `icmpStrict`, `pending[core]` (the
  notification a core owes after its unlock), `sessView` (the state the
  dataplane session was last given), `reportQ`/`reportTmp`/`reports` (the
  reporter's progress through the fold), the history variable `opener`,
  and the bound counter `sessions`. `pending[c].read` holds the state the
  notification has read and not yet written.
* **Actions**, one per C function: `npf_state_init(c, r, p, found)` (found
  = the VRF has a timeout struct), `npf_state_destroy`,
  `npf_state_inspect_other`, `npf_state_inspect_tcp` (validator verdict
  from `TcpValidatorOut` or failure), `npf_state_inspect_icmp` (echo
  request or not), `npf_state_set_gen_closed`, `npf_state_set_tcp_closed`,
  `npf_state_pack_update_gen/_tcp`, `npf_state_update_gen_pb/_tcp_pb`
  (out-of-range ordinal rejected with nothing changed),
  `npf_state_update_session_read` and `npf_state_update_session_write`
  (the post-unlock notification, together `npf_state_update_session`),
  `npf_state_set_icmp_strict`, and the reporter as
  `npf_state_stats_json` + `StatsFoldLoad` + `StatsFoldStore`.
  `Engine` is the lcores' steps and the strict toggle, `Next` adds the
  reporter; `EngineSpec` and `Spec` are the two specifications. The
  reporter's load reads NONE and CLOSED of a row in one step: the two
  loads are plain reads, and the race the project is about is the store.
* **Atomicity**: everything between `rte_spinlock_lock` and `_unlock` is
  one step; the notification is two further steps of the same core (the
  core does nothing else until they have run): the unlocked read of the
  record's state (`npf_state.c:438`/`457`) and the write of it into the
  session (`:444`/`463`), so another core may change the record and
  notify in between. `set_*_closed(lock = false)` is
  called with the lock already held, so it too is one step. The reporter's
  `+=` is a load step and a store step per counter, because it is a plain
  C read-modify-write from another thread with no lock.
* **Abstractions**: TCP windows are not state here (they never affect the
  counters or the notification); the validator is its contract; return
  codes are not state (the caller drops the packet; the record is
  untouched, which the model keeps); timeouts are not modelled.

### `NpfStateSync.tla`: protobuf connection sync

* **CONSTANTS**: `Records` with their `ProtoOf`, `WinVals` (values of the
  four window fields), `TcpPacketOut`/`GenPacketOut` (states a packet may
  lead to), `SkewMark` (a window value only a newer peer sends),
  `PeerMsgs` (messages of peers of other builds), `MaxPacks`,
  `MaxSessions`.
* **VARIABLES**: `life` (free / loading = created for a restore / live),
  `gen`, `tcp`, `win[r][dir][field]`, one `stats` row, `net` (every
  message sent so far; since messages are never removed, any of them may
  be applied again, late, or never: loss, duplication and reordering),
  `packs`, `sessions`, the history variable `synced` (the packed record a
  record was last synced from) and `fault` (an absent window struct read).
* **Actions**: `npf_state_init(r, loading)`, `npf_state_destroy`, packet
  steps through the set primitives (`npf_state_inspect_tcp` also writes
  the direction's window, as the validator does), and one action per
  protobuf function: `npf_state_pack_gen_pb`, `_pack_tcp_pb`,
  `_restore_gen_pb`, `_restore_tcp_pb` (with
  `npf_state_restore_tcpwin_pb` per direction), `_update_gen_pb`,
  `_update_tcp_pb`. A message carries `nss_state`, `n_nss_tcpwins`, the
  windows and the per-field has-flags.
* **Abstractions**: the generic FSM and the TCP validator are reduced to
  "some state from a small set" (NpfState models them exactly); windows
  written by packets are uniform per direction.

### `MC_NpfStateSync.tla`

A TCP record `r1` and a UDP record `r2`; windows over {0, 1} and the
newer-peer value 2; peer messages: a TCP state one past `NPF_TCPS_LAST`
with windows of 2, an older peer's ESTABLISHED without `tw_wscale`, a
generic state one past `SESSION_STATE_LAST`, and (for one violation run
only) a TCP message without window structs. Two packs and three destroys
let a record be packed, its session destroyed, and a new session restored
from the pack while the other record is live.

### `IcmpRateLimit.tla`: ICMP error rate limiting (`ip_icmp.c`)

State: per entry of `icmp_ratelimit_state[]` (entry 0 the default, plus
the named types) `limiting`, `explicit`, `max_rate`, `tokens`,
`total_sent`, `total_dropped` and the `drop_stats` ring; the globals
`icmp_ratelimit_interval` (`interval`) and the timer's `second_count`; a
`pc`, error type and trigger `trig` per forwarding lcore; the timer's
step `tmr`. A trigger (`Triggers`, records of `Trigger`) says what
`icmp_do_error` finds after the rate limit let the error through: a
crypto packet, a non-first fragment, a link multicast/broadcast
destination, or an ICMP error that is not a redirect
(`IcmpErrorSuppressed`); `Emit` then sends the error, or not when it is
suppressed or the buffer allocation or NAT undo fails.
Actions: `icmp_ratelimit_drop` (first step: the unlocked test of
`tokens`, with the uncounted send and the empty-bucket drop) and
`icmp_ratelimit_take` (second step: `uatomic_add_return(-1)` and the test
of its result); the timer handler as `icmp_ratelimit_tick` (second count
and interval change) and `icmp_ratelimit_refresh` (refill and zeroing of
the new interval); `cmd_icmp_rate_limit_cfg_handler` (SET/DELETE of a type
or of the default, which is copied to every non-explicit type) and
`cmd_icmp_rl_clear`. Ghost variables `sentNow` (errors really generated
since the last fill) and `droppedNow` state the properties.

### `MC_IcmpRateLimit.tla`

Two lcores, the named types 3 (destination unreachable) and 11 (time
exceeded), maxima {1, 2}, two-second intervals, two intervals kept, four
errors and two commands; triggers: a plain forwarded packet and one to a
link multicast address (suppressed after the token is taken). Two lcores racing on a bucket of 1 or 2 tokens
and a timer that can run between any two steps reach every case of the
test-then-decrement; two commands are enough for a DELETE of a type
followed by a default SET.

### `TwampCtrl.tla`: TWAMP session control (`twamp_ctrl.c`)

The console thread runs `tw_protobuf_handler` for each TWAMPCmd of the
TWAMP daemon; the session list is written only there, so each handler is
one step. A session's UDP port must be registered on the main thread, so
`tw_session_udp_port` sends (add, af, port) over the inproc zsock pair and
the main thread's event loop applies it in `tw_event_register_udp_port`.

* **CONSTANTS**: `AFs`, `Ports`, `Vrfs`, `Modes` (modes a daemon may
  send), `MaxCreates`.
* **VARIABLES**: `sessions` (keys af, lport, vrf of the listed entries),
  `chan` (the FIFO pair socket), `udp` (pairs the dispatcher has), `resp`
  (request and status of the last response), `crashed`, `creates`,
  `down` (after `twamp_shutdown`), and the history `lost` (pairs a
  message of which `zsock_bsend` failed to send: `tw_session_udp_port`
  only logs the failure, so the request is gone).
* **Actions**: `tw_pb_session_create` (key errors, EEXIST, calloc failure,
  the unknown-mode delete of an unlisted entry, ENOTSUP for authenticated
  and encrypted, and the open create registering the first session of a
  pair), `tw_pb_session_delete` (unregistering the last user of a pair),
  `tw_pb_session_counters`, `tw_pb_init` (`tw_session_clean_vrf` or
  ENOENT), `tw_protobuf_handler_unknown`, `tw_event_register_udp_port`,
  `twamp_shutdown` (clean-all with direct releases, sockets destroyed).
* `PortsMatchSessions` folds the messages still in flight over `udp`
  (`FoldLeft`), so it is checked in every state, not only quiescent ones.

`MC_TwampCtrl.tla`: AF_INET and AF_INET6 (2, 10), ports 862 and 863,
two VRFs, three creates: enough for two sessions in different VRFs
sharing a pair and a VRF clean removing one of them.

### `CgnCfg.tla`: CGNAT configuration commands (`cgn_cmd_cfg.c`)

`cmd_cgn` and the interface index events run on the configuration
thread, so every handler is one step.

* **CONSTANTS**: `Ifnames`, `Policies`, `NoName` (a command without the
  item), `CGN_SESSIONS_MAX`, `CGN_DEST_SESSIONS_MAX`, the argument sets of
  the limit and timeout commands, `MaxCmds`.
* **VARIABLES**: `ifaces`, `policies`, `attached` (pairs on the cgn
  interface lists), `listAlloc`/`cache`/`count` (`cgn_cfg_list`, its
  entries in order and `if_list_count`), `hairpin`, `sessMax`, `destMax`
  (an int16_t), `etime`, `rc`; the history `want` (pairs whose last
  attach/detach said attach) and the bound `cmds`.
* **Actions**: `cgn_policy_cfg_attach` (usage, stored for an absent
  interface with both allocation failures, or attached after the policy
  lookup), `cgn_policy_cfg_detach`, `cgn_event_if_index_set` (replays the
  interface's entries in order and deletes each through
  `cgn_cfg_if_list_del`, which decrements `if_list_count` and refuses at
  0; the walk is the recursive `WalkDel`; then `cgn_cfg_if_list_destroy`
  frees the list when the count is 0, losing any entry still on it),
  `cgn_event_if_index_unset`, policy add/delete, hairpinning,
  max-sessions, max-dest-per-session and session-timeouts (items applied
  in order until a negative value).

`MC_CgnCfg.tla`: two interfaces, two policies, six commands; limit
arguments out of range, 0 and ordinary; timeout commands of one or two
items, with a negative value. `CGN_DEST_SESSIONS_MAX` is 64 (its real
value is in `cgn_limits.h`, not in the repository).

### `CryptoPmd.tla`: crypto device management (`crypto_rte_pmd.c`)

The crypto layer (its caller, `crypto.c`, is not in the repository) picks
a device type for an SA and creates or destroys virtual devices on the
main thread, so every call is one step.

* **Operators**: the tables `cipher_algorithms`/`md_algorithms`,
  `crypto_rte_set_cipher` (with the RFC 4106 key length computed in a
  uint16_t), `crypto_rte_set_auth`, `crypto_rte_set_session_parameters`
  and `crypto_rte_select_pmd_type`; `Int8` is the int8_t store of a
  dev_id.
* **VARIABLES**: `sessPool`/`opPool` (`crypto_rte_setup`), `firstTime`
  and `instIds` (`pmd_inst_ids`: zero until the first lookup sets it to
  -1), `devCnts`, `privPool` (per-type private session pools), `vdevs`
  (DPDK devices by name, i.e. type and slot), `live` (devices the crypto
  layer holds), `rc`, and the bound `ops`.
* **Actions**: `crypto_rte_setup`, `crypto_rte_shutdown`, `RequestPmd`
  (an accepted SA's type from the selection, then
  `crypto_rte_create_pmd`: slot lookup and `-ENOSPC`, `rte_vdev_init`
  failing, private pool failing, configure/queue/start failing with the
  fail path, whose `rte_vdev_uninit` may fail unnoticed, success), and `crypto_rte_destroy_pmd` (`-EINVAL` when no
  slot matches, the slot freed, then `rte_vdev_uninit` failing or the
  device gone with its count and, at zero, its pool).

`MC_CryptoPmd.tla`: two slots per type, dev ids 1, 2, 200 and 255 (the
last two do not fit an int8_t), 120 SAs over CBC, 3DES, NULL, GCM and an
unknown cipher with key lengths 0, 128, 160 and 288 bits and three digests,
six calls.

### `Rldb.tla`: the rule database (`rldb.c`)

No code in the repository calls rldb, so clients call `rldb_init` once at
start-up and then `rldb_create`, `rldb_destroy` and `rldb_cleanup` in any
order. Handles are records `[id, name, af]`; `StoredName` is the
`"%s-%d"` name with the suffix cut off for a name of `RLDB_NAME_MAX - 1`
characters. Variables: `inited`, `disabled`, `mempool`, `htAlloc`,
`table` (handles linked in `rldb_global_ht`), `live`, `stale` (handles
freed by cleanup that clients still hold), `counter`, `fault` (a NULL
dereference or a use of freed memory, after which nothing runs) and
`rc`. The rule functions are stubs returning 0 and walk/dump only read.

`rldb_create` refuses a NULL name (`NullName`) first, then checks the
disabled flag and the name length.

`MC_Rldb.tla`: two short names, one long, one bad, NULL, the flag sets
{V4}, {V6}, {V4, V6} and {}, four ids.

### `MC_NpfState.tla`

Two lcores `c1, c2`, one record `r1` reused by up to `MaxSessions`
sessions, protocols TCP, UDP and ICMP (or UDP only for the report and
session-view runs).
Sync inputs: ESTABLISHED and CLOSE_WAIT plus one ordinal past the last
(version skew); binary sync: TERMINATING and TIME_WAIT; validator
verdicts: SYN_SENT and ESTABLISHED. Each input leads to a state no other
action reaches first, so every action contributes states of its own.

`StatsBounded` is a state constraint: the per-lcore counters are a random
walk when the two lcores take turns on the record (each cross-lcore move
leaves -1 on one row and +1 on the other), so exploration stops when the
absolute counter values add up to more than `MaxSkew` = 4. Every property
below is reached well inside the bound (the counterexamples are 3 to 8
steps).

`EngineView` is the view of the engine run: `sessView` and the value a
pending notification has read are written and never read by another
step, so states that differ only in them have the same successors for
every property the run checks (none of which mentions them). The
session-view run keeps the full state.

## 3. Runs

| Run | cfg | Expect | What it shows |
|---|---|---|---|
| `npf_state_engine` | `MC_NpfState.cfg` | pass | `EngineSpec` (no reporter). `StatsConserved`: each global counter (summed over lcores as the reader sums them) equals the live records in that state, across inits, transitions, sync, GC and destroys on either lcore. `IcmpOpenedByRequest`: only a forward echo request opens a ping session, whatever `strict` was. |
| `session_view_stale` | `MC_SessionView.cfg` | violation | `SessionViewConverges`: c1 moves a UDP record to NEW and reads NEW for its notification; c2 moves it to ESTABLISHED, reads and writes ESTABLISHED; c1 then writes NEW. No notification is owed any more and the session shows NEW (with NEW's timeout) for an ESTABLISHED record. |
| `stats_report_fold` | `MC_StatsReportFold.cfg` | violation | One show command leaves CLOSED counters permanently above the live CLOSED records. |
| `npf_state_sync` | `MC_NpfStateSync.cfg` | pass | `RoundTrip`: a record restored or updated from a packed message holds the packed record's state and all eight window fields, whatever happened to the message on the way and whatever the record held. `VersionSkewNoChange`: no record ever holds an unknown state or a window value only a newer peer's rejected messages carry. |
| `sync_restore_consistency` | `MC_SyncRestore.cfg` | violation | `StateConsistent`: `restore_tcp_pb` leaves `nst_gen_state` at NONE under a restored TCP state, and a restore into an initialised record leaves the counters on NONE. |
| `icmp_ratelimit` | `MC_IcmpRateLimit.cfg` | pass | `SentWithinLimit`: between two fills of a bucket the lcores together send at most `max_rate` errors of a type, however two lcores' token tests and atomic decrements interleave with the timer and configuration commands. |
| `icmp_drop_at_limit` | `MC_IcmpDropAtLimit.cfg` | violation | `DropOnlyWhenExhausted`: the `<= 0` test after the decrement drops the `max_rate`-th error, so only `max_rate - 1` are sent per second. |
| `crypto_pmd` | `MC_CryptoPmd.cfg` | pass | `SelectableWhenAccepted`: no accepted SA is refused a device type. `PoolWhileDevices`: a type's private session pool stays allocated while `dev_cnts` counts a device of it, through create failures and failed destroys. `DevicesAccounted`: `dev_cnts` counts exactly the devices held and every held device is a DPDK device, while the fail path's `rte_vdev_uninit` may fail and leave a device nobody holds. |
| `rldb` | `MC_Rldb.cfg` | pass | `TableMatchesHandles`: the global table links exactly the handles clients hold, through every error path of `rldb_create`. `NoUseAfterFree`: no handle freed by `rldb_cleanup` is touched again. Names include a NULL pointer, refused before the disabled check. |
| `twamp_ctrl` | `MC_TwampCtrl.cfg` | pass | `PortsMatchSessions`: once the main thread has applied the port messages in flight, the UDP dispatcher holds exactly the (af, port) pairs of the listed sessions, across creates, deletes, VRF cleans and shutdown of sessions sharing ports. `PortsRegistered`: a pair some session uses is eventually registered, unless its sessions go first. Any `zsock_bsend` may fail (logged only); the pairs it hits are recorded in `lost` and exempt, and both properties hold for every other pair. |
| `cgn_cfg` | `MC_CgnCfg.cfg` | pass | `CachedOnlyForAbsent`: whatever order attaches, detaches, policy changes and the index events of two interfaces come in, no command stays stored for an interface that exists. `ReplayCacheAccounted`: `if_list_count`, incremented per add and decremented per `cgn_cfg_if_list_del` in the event handlers' walks, counts the stored entries, and the list is destroyed at count 0 only when no entry is left on it, through replays, discards and allocation failures. |
| `cgn_replay_detach` | `MC_CgnReplayDetach.cfg` | violation | `ConfigApplied`: attach for an absent interface (stored), detach for it (-EEXIST, the stored attach stays), policy add, interface appears: the policy is attached although the last command for the pair was a detach. |

Each property of a passing run has a mutant in `PROJECT.json`: a variant of
the mapped definition with a plausible bug (an off-by-one version-skew
check, a TCP record uncounted from its generic state, the ICMP guard
without its NONE clause, a pack without the `tw_wscale` has-flag, windows
copied before the version-skew check, the token decrement's result not
tested, the drop-interval ring wrapping one late, a port message with af and port
swapped, the delete's port test made before the unlink, a main thread
never woken by the event socket, 3DES left out of the PMD selection, the
create fail path freeing the pool unconditionally, the device count
decremented before `rte_vdev_uninit` succeeds, a dev_id stored unconverted,
the rldb id taken before the increment, the error path not unlinking, the
destroy without its disabled check, the replay walk stopping after the
first entry, the list delete without its count decrement), and TLC finds the property
violated with it.

### Fairness and deadlock

Only `TwampCtrl` has a liveness property, and its only fairness is weak
fairness of `tw_event_register_udp_port`: the main thread's zloop polls
the event socket registered by `twamp_init` and runs the handler whenever
it is readable, so a message waiting on the pair socket is eventually
received. No fairness is assumed for the console thread's commands (the
daemon may stop sending). The TWAMP runs have `CHECK_DEADLOCK FALSE`:
`twamp_shutdown` is the component's last step. Elsewhere deadlock checking stays on in every run: in `NpfState`,
`npf_state_set_icmp_strict` is always enabled, as configuration can
always change; in `NpfStateSync` the session bound limits destroys, not
creations, so once it is used up the live records keep taking packets;
in `IcmpRateLimit` the once-a-second timer is left unbounded, so it can
always run once errors and commands are used up; in `CgnCfg` the
interface index events are not bounded, so an interface can always
appear or go once the commands are used up; in `CryptoPmd` either
`crypto_rte_setup` or `crypto_rte_shutdown` is always enabled. `MC_Rldb.cfg`
has `CHECK_DEADLOCK FALSE`: a NULL dereference (`fault`) ends the process,
so those states have no successor.

## 4. Findings

See `PROJECT.json` `findings`: the stats fixup of
`npf_state_stats_json` inflates CLOSED permanently (its unlocked `+=` on
rows the lcores write also races them; that hazard is listed without a
run). In sync, `restore_*_pb` bypasses the set primitive (no stats
bookkeeping, no TCP projection). In ICMP rate limiting, the
bucket admits one error fewer than `max_rate` per second
(`ip_icmp.c:437`). In the notification after the unlock, the session's
state is read without the lock and written later, so two lcores
notifying for one record can leave the session with the older state
(`npf_state.c:438`). In CGNAT configuration, a detach
for an interface that does not exist yet fails and leaves the stored
attach to be replayed (`cgn_cmd_cfg.c:395`).

Two defects found earlier by the model are now listed only as hazards,
their one-step violation runs retired to make room for `CgnCfg`: the TCP
restore/update read two window structs whatever `n_nss_tcpwins` says
(`npf_state.c:786`; `NpfStateSync` keeps the branch as `fault`), and a
TWAMP create with an unknown mode deletes an entry never put on the list
(`twamp_ctrl.c:451`; `TwampCtrl` keeps it as `crashed`, and
`MC_TwampCtrl` sends only known modes). Two more were retired to make room
for `CryptoPmd` and `Rldb`: the generic FSM moves a CLOSED session back to
NONE on a late packet (`npf_state.c:261`, spec section 4.2 says unlisted
pairs are no-ops), and a DELETE of an ICMP type keeps it explicit so it
stops following the default (`ip_icmp.c:916`). Both behaviours remain in
the passing runs' state spaces.

In `crypto_rte_pmd.c` and `rldb.c` the models reach, without a run that
states them (see `hazards`): a dev_id of 128 or more is stored negative in
the int8_t slot table and can never be destroyed, and 255 makes the slot
look free; a failed `rte_vdev_uninit` (in destroy, or ignored on the
create fail path) leaves a free slot whose name is in use, blocking later
creates of the type; `rldb_create` with no
address-family flag, or when its table allocation fails, passes a NULL
table to `cds_lfht_destroy`; `rldb_init` failing on the mempool leaves
rldb enabled with a NULL global table; and duplicate rldb names are
accepted because the match compares the id-suffixed names.
Drops counted while the timer changes interval can be lost from the
interval statistics (`ip_icmp.c:958`); that is listed as a hazard.

The per-lcore statistic rows of `npf_state.c` are not conserved per
lcore (a session created on one lcore and destroyed on another leaves +1
and -1 on two rows); only their sum is, and only the sum is read, so no
run checks the rows one by one.

## 5. What is left

1. **Sync ordering and missing fields**: a message without `nss_state`
   (`has_nss_state` is never read) and a property about late updates, if
   the session layer's ordering contract can be pinned down.
2. `IcmpRateLimit`: the `show` handler's reading of the interval ring.
3. `TwampCtrl`: the session counters' contents and the reflector's packet
   path (`twamp_io.c`, not in the repository).
4. Violation runs for the behaviours listed as hazards without a run
   (`session-timeouts` applied in part, the crypto slot blocked by a failed
   uninit, the rldb NULL dereferences, duplicate rldb names); all twelve run
   slots are in use.

## 6. Not modelled, and why

* TCP window arithmetic and the validator (`npf_tcp.c` is not in the
  repository); JSON and log formatting; DPDK device calls; packet buffers.
* The session layer's own locking (not in the repository): whether it may
  take `nst_lock` inside the notification (hazard at `npf_state.c:393`).
* Concurrent double `npf_state_destroy` (the session layer calls it once).
* TWAMP session counters and the RCU readers of the list (the reflector
  in `twamp_io.c` is not in the repository); a port message in flight at
  `twamp_shutdown` is dropped with the socket, at dataplane exit.
* CGNAT policy add/delete and the per-interface policy lists
  (`cgn_policy.c`, `cgn_if.c`, not in the repository) are the sets
  `policies` and `attached`; the byte-level parsing of
  `cgn_cfg_ifname_from_arg` (hazard at `cgn_cmd_cfg.c:272`) is below the
  model's abstraction of names.
* NPF state names (`npf_state.c` 466-543): pure string conversions for
  JSON and log output that change no state; no property is about their
  wording.
* Crypto session and transform setup (`crypto_rte_setup_xform_chain`,
  `crypto_rte_setup_session`, `crypto_rte_destroy_session`): they fill
  DPDK structures from the SA and hold no state of this file beyond the
  session pointer; the caller `crypto.c` is not in the repository.
* rldb rule operations (stubs returning 0), `rldb_walk`/`rldb_dump` (read
  only), and the ACL context (`npf_rte_acl.c`, not in the repository; its
  setup succeeds or fails nondeterministically).
* The whole-dataplane TFTP ALG test (`src/tests/...`): test code driving
  the dataplane with packets, not part of the implementation.
