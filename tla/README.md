# TLA+ models of Dockin-Ops `wcsctl` (src/dockctl)

`wcsctl` is an operator's command-line tool. It finds container instances
(pods) by a fuzzy identifier: a subsystem id, a subsystem name, a host or pod
IP, or a pod name. Then it lists them (`cmdb`), opens an interactive shell on
one of them (`ssh`), or runs one command on one (`exec`). The cluster query
backend, the authentication backend and the remote shell are all one external
binary (`opsctl`), run with `os.popen` / `os.system`.

## 1. Inventory

| Component | Source | State it keeps | Operations |
|---|---|---|---|
| Identifier grammar | `commontool.py` 14-121 | none (pure); reads the process-wide `env` (169) | `is_sysid`, `is_sysname`, `is_ip`, `isdcn`, `is_pod_set_id`, `is_podname`, `k8s_pn`/`k8s_pn_1` (canonicalisation: append the replica suffix `-0` outside production) |
| Dead helpers | `commontool.py` 84-92, 104-110 | none | `cmdb_pn`, `k8s_pn_2` (no caller) |
| Query adapter (`cmdb`) | `cmdbdocker.py` | `self.result`, `resource_type`, `dcn_list` for one call | `analysis_input` → `analysis_resource_name` (kind in the order sysid, sysname, ip, podname) → `analysis_dcn_list` (tokens > 3 chars: Parameter Error; upper-case) → backend `opsctl list <kind> <key>` → `generate_prettytable` (blank → `-`, dcn substring filter, sort by SubSysName) |
| Interactive session | `wcsssh.py` | `flag` (common/once/subsys/dcn/number/pod/exit), `token`, `subsystem`, `dcn`, `cmdb_string_table`, `pod_list_all`, `pod_list_dcn`, `chosen`, `resource_name` | `run` loop: login, `display_pod` + `input_common_command`, `query_cmdb`, `input_dcn`+`query_dcn`, `run_ssh_pod` |
| Dispatcher | `dockctl.py` | `args_list`, `name_space`, `resource_name`, `exec_cmd` | `analysis_subcommand` (EXEC with `-n` in three positions, SSH, CMDB), `exec_pod`, `ssh`, `cmdb`; `get_name_space`, `rule_args` from `commontool.py` |
| Logging, config | `commontool.py` 152-175 | log handler, `env`, `rule`, `opsctl_name` | read once at import |

**Interaction.** `dockctl` classifies its argv with the grammar and calls
either `CmdbDocker.run` (cmdb), `WcsSsh.run` (ssh) or `os.system(opsctl exec)`.
`WcsSsh` calls `CmdbDocker.run(["cmdb", subsystem])` for each subsystem the
operator types. It keeps the printed table as a string. It re-parses that
string to filter by dcn (`split()[0]`) and to pick a pod by number
(`split()[2]`, the PodIp column). All calls are synchronous. There is one
thread. The external binary blocks until it exits.

**What is hard.** Nothing runs concurrently. The difficulty is in long
sequences of operator inputs and backend answers:
- The session keeps three copies of the table. It reads `self.dcn` in one
  place and `len(self.pod_list_dcn)` in another.
- A failed query keeps the old table.
- A number is bounds-checked against a different line count in the two views.
- The grammar depends on the environment, and the canonicalisation is not
  injective.
- Backend and login failures change the session without ending it.

**What makes each component correct.**
- Grammar: the kinds are mutually exclusive, so test order does not matter.
  Canonicalisation keeps a pod name a pod name, and (spec §8) is idempotent.
- Query adapter: only rows matching a dcn token are shown. Tokens are 1-3
  characters. A null answer is reported as "not found", not as an error.
  Rows are sorted by subsystem name, with ties in backend order (QuerySpec).
- Session: the three views agree. A number selects a row that is on screen,
  within its bounds. A subsystem query replaces the table and clears the filter.
  No remote session opens after a failed login. `ssh <pod>` opens exactly one
  session and returns.
- Dispatcher: `exec` gets the resource, command and namespace from the
  right positions. Only pod names and IPs reach `exec`.

## 2. Plan

In order of importance:
1. **WcsSsh.tla** (done): the session state machine. It composes
   CommonTool (grammar) and CmdbDocker (query) through `INSTANCE`.
2. **CommonTool.tla + Classifier.tla** (done): the grammar as operators over
   an abstract string, checked over every string of a bounded universe in all
   three environments.
3. **CmdbDocker.tla + CmdbQuery.tla** (done): `Run` checked over argument
   lists, dcn lists (including a trailing comma and `-`) and backend answers.
4. **Dockctl.tla** (done): `__init__`, `analysis_subcommand`,
   `get_name_space`, `exec_pod`, `ssh`, `cmdb`, checked over every argv of up
   to four arguments. The session MC takes its seeds from `Dockctl!Analysis`.
5. **SessionSpec.tla** (done): the state table of spec §4.4 (Idle, OneShot,
   Awaiting, Exiting, sessions opened), with WcsSsh shown to implement it.
   The table leaves out the outcome of authentication, because the code
   diverges there (`AuthFailureStops` is the finding).
6. **QuerySpec.tla** (done): the query contract of spec §4.2/4.3/7 (usage,
   backend message, not found, or the matching records in subsystem-name
   order). `CmdbQuery`, including `dockctl.cmdb`'s print branch, is shown to
   refine it on well-formed inputs. The edge inputs where the code leaves the
   contract are one violation run.

## 3. Modules

### CommonTool.tla: the grammar
A Python string is modelled by its `'-'`-separated parts. A part is modelled
by its `'.'`-separated atoms. For example, `"gns-query-10.1"` is
`<<<<"gns">>,<<"query">>,<<"10","1">>>>`. Atoms are words from a finite set.
The MC gives each atom its length, its integer value (for digit atoms) and
whether it is alphabetic. Every predicate in `commontool.py` reads a string
only through `split('-')`, `split('.')`, `len`, `isdigit`, `isalpha`, `int`
and the suffix `-0`, so this encoding is exact. It is one-to-one, which makes
`"%s-%s" % ...` a concatenation and `"%s.%s.%s.%s"` a flatten. Lower-casing is
the identity here because every atom is lower-case.

### CmdbDocker.tla: the query adapter
`Run(args, answer)` is `CmdbDocker.run`, given the backend's JSON answer. A
backend record is a model value `p`. Its Dcn is a real TLA+ string, so
substring tests (`d in i['Dcn']`) and `upper()` are computed on it. Its PodIp
is a CommonTool string. Blank fields become `-` before the filter, as in the
code. prettytable's `sortby` sorts rows by `[SubSysName] + row`, so ties are
broken by the whole row, not by backend order. `RowRank` is the order that
comparison gives. A field the backend sent as JSON null makes `len(i[n])`
raise TypeError out of `run`; `Raised` stands for that raise. The session
(`query_cmdb`) then dies, and `dockctl.cmdb` prints nothing.

### CmdbQuery.tla: one `wcsctl cmdb` call
`Init` chooses the argument list (no resource; a resource; a resource and a
dcn list) and the backend's answer. `Execute` is all of `dockctl.cmdb`:
`CmdbDocker.run`, then the print branch (`PrintResult`): usage for Code 1
"Parameter Error", the message for any other nonzero Code, else the table.
`entry` chooses the program: `wcsctl cmdb` (`dockctl.cmdb`, `PrintResult`) or
the standalone `cmdbdocker` (its `__main__`, `MainPrint`, which prints the
usage text as it is, so a null Data prints `None`). `shown` is what was
printed. The MC has three records: zone 1C1, zone 1C2 and
a blank zone. Their sort ranks are the reverse of TLC's enumeration order, so
an unsorted listing is visible.

### QuerySpec.tla: the query contract
Variables `args`, `answer` and `shown`; one action, `Query`, which shows
`Outcome`. It is written from spec §3, §4.1-4.3 and §7, not from the
code. It checks the resource's kind as a set membership, not in the code's
order. It requires tokens of 1-3 characters, filters on the real zone in any
letter case, and sorts by `NameRank` (the subsystem name's place), with ties
in backend order. `CmdbQuery` maps onto it with `shown` as `shown` and its
own argument and answer sets; `QueryRefines` is `Query!Spec`.

### Dockctl.tla: the dispatcher
Variables are the attributes of `OpsctlCommander`, plus `pc`
(init / analysed / done) and `called`, the external call `run()` made.
`Init` is `__init__`, including `get_name_space` (a `RECURSIVE` scan).
`AnalysisSubcommand` applies `Analysis(l, ns)`, the pure
`analysis_subcommand`. `ExecPod`, `Ssh`, `Cmdb` and `PrintUsage` are the four
branches of `run()`. An argv element is a CommonTool string, and
`str.upper()` maps each atom through the constant `AtomUpper`. A `cmdb` call
records `argv[1:]`; CmdbQuery checks what `CmdbDocker.run` does with it.

### SessionSpec.tla: the state table of spec §4.4
Variables: `mode` (Idle, OneShot, Awaiting, Exiting), `seed` (the
command-line argument, until it is used) and `opened` (the targets of remote
sessions). Authentication leads to OneShot for a pod name or ip, else to
Awaiting. OneShot opens the canonical seed once and exits. Awaiting may open
one session per step, or exit. Queries and dcn narrowing are invisible at
this level. `WcsSsh!Session` maps `pc`/`flag` to `mode`, `resource_name` to
`seed` and `sent` to `opened`.

### WcsSsh.tla: the session
Variables are named after the attributes of `WcsSsh`, plus `pc`
(login / loop / crashed) and `sent`, the log of transport calls. `sent` records
how each call was reached, its target, its token and the record picked.

One action is one pass of the `run` loop: the operator input that
`input_common_command` accepts, plus the whole handler that the same pass runs:
- `Login`: `input_user`, `check_user`
- `RunOnce`
- `ChooseExit`
- `ChooseSubsys`: `query_cmdb` through `CmdbDocker.Run`
- `ChooseDcn`: `input_dcn`, `query_dcn`
- `ChooseNumber`: bound check, `run_ssh_pod`, `get_pod_from_pod_list`
- `ChoosePod`: `run_ssh_pod` with `k8s_pn`

Inputs the loop ignores change nothing, so they are stuttering. An
`IndexError` in `get_pod_from_pod_list` kills the process. That is
`pc = "crashed"`, a terminal state like `flag = "exit"`; `Terminated`
stutters there.

The backend answer to a subsystem query is nondeterministic: an error, null
data, or any non-empty subset of that subsystem's records. A login answer
comes from `LoginAnswers`: a token, a refusal, or Code 0 with an empty
token. A Code 0 "Success" answer with null Data makes `check_user` raise a
TypeError; `Login` models that as a crash. No run gives the login that
answer: the process then ends before any session, which is what spec §7 asks
for on an authentication failure (only the report differs).

**Composition.** `MC_WcsSsh` instantiates `Dockctl`. The session's initial
arguments are the `resource_name` values that `Dockctl!Analysis` leaves for
`wcsctl ssh` with zero, one or two arguments.

**Fairness.** In Dockctl, `Next` is weakly fair: the one-shot process
never waits for input (no Dockctl run checks a liveness property). In WcsSsh,
only `Login` is weakly fair: it is the program's own blocking call to
`opsctl auth`, which returns or raises. `RunOnce` is not fair. Its
`os.system` ssh is an interactive shell that returns only when the operator
leaves it, so "ssh <pod> ends" is not something the code guarantees.
SessionSpec's `OneShotOpen` is not fair either, for the same reason. No
operator input is fair, because the operator may never type. In CmdbQuery, `Execute` is weakly fair, and so is
QuerySpec's `Query`: one `cmdb` call is a synchronous function call that
returns once `opsctl list` has answered (spec §5). The model takes that
answer to arrive; a hung backend is outside it.

## 4. Runs

| Run | Expect | Checks | Shows |
|---|---|---|---|
| `session_safety` (MC_WcsSsh.cfg) | pass | TypeOK, ViewConsistent, DirectTargetValid, SessionRefines | The three views stay consistent across any sequence of queries, failures and dcn narrowings. Direct pod targets survive canonicalisation. The session implements the §4.4 state table. |
| `session_index_bounds` (MC_WcsSsh_index.cfg) | violation | IndexWithinView | Two wrong bounds. (1) `0` is accepted, because `input_cmd > 0` compares str with int. Before any query this crashes; with a table loaded it opens a session on the header word `PodIp`. This is the counterexample TLC reports. (2) In a dcn view of m rows, m+1 passes the `>=` check and raises IndexError; this was confirmed with the upper bound alone (`chosen' <= Len(Shown)`). |
| `session_auth_failure` | violation | AuthFailureStops | A failed login is only printed. Sessions are then opened with an empty token. |
| `session_pending_pod` | violation | NumberTargetIsPod | A pod that the backend lists without an ip is printed as `-`. Its number opens `opsctl ssh -`. |
| `session_seed_dropped` (MC_WcsSsh_seed.cfg) | violation | SeedQueried | With well-formed login answers only, `wcsctl ssh gns-query` logs in and then shows the menu with nothing queried. `__init__` keeps the argument in `resource_name` with flag `common`, and no step of the loop reads it, although spec §4.5 says it seeds the interactive flow. TLC's trace is a login followed by `exit`; the seed was never queried. |
| `dispatch` (MC_Dockctl.cfg) | pass | ExecAsSpecified | Over 23,000 argvs, each exec form of spec §4.5 runs the command on the canonical target with the given namespace, although the namespace and the positions come from two different scans. |
| `dispatch_null_namespace` (MC_Dockctl_null.cfg) | violation | ExecAsSpecified | `wcsctl exec <pod> <cmd> -n null` prints usage. `"null"` is also the value `get_name_space` returns for "no `-n`", so neither exec branch runs. |
| `session_stale_table` | violation | SelectionMatchesLastQuery | After a query that finds nothing, the previous subsystem's table (and its dcn filter) stays. A number then opens a pod of the subsystem the operator did not name last. |
| `cmdb_query` (MC_CmdbQuery.cfg) | pass | QueryRefines | For each resource kind and each well-formed or bad dcn list, what `wcsctl cmdb` and `cmdbdocker` print is what QuerySpec promises. The backend answers are ordinary ones: an error whose message is not "Parameter Error", null data, or records of three subsystems with distinct names and every field set. The edge answers and dcn lists are only in `cmdb_query_contract`. |
| `cmdb_query_contract` (MC_CmdbQuery_edge.cfg) | violation | QueryRefines | Five ways the printed result leaves the contract. (1) A record whose Dcn the backend sent as null makes `len(None)` raise, so nothing is listed; spec §3 says absent values show as `-`. This is the counterexample TLC reports. (2) A backend error whose message is "Parameter Error" is taken for the usage result, and `.replace` on its null Data raises. (3) Records of one subsystem come out in prettytable's row order, not backend order. (4) `"1C2,"` adds the token `""`, which is in every zone. (5) The token `-` matches the placeholder of a blank zone. Each was also confirmed alone, by narrowing the pass cfg to that one edge input. |
| `classifier` (MC_Classifier.cfg) | pass | KindsExclusive, CanonicalKeepsKind | Over about 26,000 strings × {UAT, SIT, PRD}, no string has two kinds, and `k8s_pn` keeps pod names pod names. |
| `classifier_idempotence` | violation | CanonicalIdempotent | In UAT/SIT, `k8s_pn` is not idempotent. `gns-0-0-0-10` becomes `gns-0-0-0-10-0`, whose last four parts look like an IP, so a second call appends another `-0`. |

**Bounds.**
- Session: two subsystems (two pods in zones 1C1/1C2, and one pod in 1C1);
  numbers 0..3 and 10; three typed pods/IPs; three dcn lines (exact,
  lower-case, prefix); two transport calls. That is enough for every branch:
  - an empty view, a full view and a one-row filtered view;
  - index 0, in range, m+1 and far out of range;
  - a found, a null and an error answer, in any order;
  - a pod name already ending in `-0`.
- Dispatcher: `wcsctl`, one of five subcommand words (`exec`, `EXEC`,
  `ssh`, `cmdb`, another word), then up to four arguments. Each argument is
  one of: a pod name, a pod ip, a subsystem name, a command, `-n`, `-N`, a
  namespace, or `--all-namespaces`. That covers every exec branch and
  position, flags in every slot, and both scans of argv. The word `null` is
  left out of the pass run: a namespace named `null` is read as "no `-n`".
  `dispatch_null_namespace` uses a pod, a command, `-n` and `null`.
- Query: three records and five resources (one of each kind plus a
  no-kind one). Dcn lists: lower case, exact, too long, and two tokens; the
  edge run uses `"1C2,"` and `-`, a fourth record whose Dcn is null, and
  the backend error message "Parameter Error" next to "Backend Error". Answers: an error, null data, and every
  non-empty subset of the records, each in the one order `SetToSeq` gives
  it. The sort ranks run against that order, so a missing sort is visible.
- Session, pending pod: a fourth gns-web pod in 1C1 with no ip.
- Classifier: every string of up to five one-atom parts, six-part strings
  (the production pod-name shape), and one-part strings of up to four
  dotted atoms. The atoms cover:
  - the empty word;
  - IP octets in and out of range;
  - a 4-digit subsystem id;
  - 3-character zone words, digit and mixed;
  - a letter word.

## 5. Not modelled
- Logging and config parsing (`new_logger`, ConfigParser): I/O.
  `env` is a constant of the grammar.
- Table rendering (`string_table_add_index` padding, prettytable layout):
  cosmetic. Only the line structure that `split` reads back is kept.
- `input_namespace`, `analysis_input` in `wcsssh.py`, `cmdb_pn`, `k8s_pn_2`:
  never called.
- The shell quoting of `exec_cmd` in `exec_pod`: string formatting for
  `/bin/sh`.
- `list_2_string`: it only builds the log line.
- `rule_args` is modelled for `exec`. The session's ssh transport call does
  not use it, and that is left as it is in the code.
