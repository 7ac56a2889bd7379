# A TLA+ model of cephadm's SMB daemon form

This directory holds a TLA+ model of `src/src/cephadm/cephadmlib/daemons/smb.py`, the part
of cephadm that deploys a Samba (SMB) instance on a host. The model consists of TLA+
modules, TLC configurations that model-check small instances, and TLAPS proofs that
hold for all values of the constants. All paths and line numbers below refer to that
file unless stated otherwise.

## 1. The system

cephadm hands the daemon form a raw key/value config (`context_getters.fetch_configs`),
an optional `(rank, rank_generation)` pair and the host's facts. The deployment framework
then creates one `SMB` object per cephadm process and calls its methods in whatever
order it needs: `validate`, `container`, `init_containers`, `sidecar_containers`, the
`customize_*` hooks and `prepare_data_dir`. The object's parts and how they interact:

| Part | Code | What it does |
|---|---|---|
| Config model | `Features`, `ClusterPublicIP`, `Config`, `SMB.validate` (43-105, 412-478) | Checks the raw config in a fixed order and memoizes a frozen `Config` on the object. The first successful call also loads the host network inventory, but only if public addresses are configured. |
| Network mapper | `_NetworkMapper` (743-783) | Turns each public address's destination networks into the host's network devices, for ctdb. |
| Role catalog | `ContainerCommon` and its 11 subclasses (108-346) | Gives each container role its name, arguments, container arguments and environment. |
| Layout builder | `SMB._layout` (510-540) | Picks, from the features and metrics settings, the init containers, the primary container and the sidecars. The result is memoized. |
| Composer | `_to_init_container`, `_to_sidecar_container`, `customize_*` (542-690) | Turns the roles into container specs: mounts, endpoints and shared namespaces. |
| Data directory | `prepare_data_dir`, `_write_ctdb_stub_config`, `_write_smb_conf_stub` (692-740) | Creates directories, copies the configured files, and for a clustered instance writes `ctdb.json` and a stub `smb.conf`. |
| Version probe | `get_version` (391-410) | Runs `smbd --version`. |

The data directory outlives the process. A redeploy is a new process and a new object,
possibly with a new raw config, a new rank and a changed host, working over the files
the previous deployment left behind.

## 2. Modules

| Module | Models | State and actions |
|---|---|---|
| `SmbConfig` | Config model | Pure operators. `ParseConfig(raw, rankInfo)` makes `validate`'s checks in the code's order: `int(metrics_port)` first, then the id, the URI, the features, and the public-address assertion. It returns `[ok, cfg]` or `[ok, err]`. `ConfigUris` is `config_uris()`. |
| `SmbNetworkMapper` | Network mapper | `ConvertDevs` is `_convert`, written as a recursive function over the destination list (not a RECURSIVE operator, so the proofs can use it). `ForSambacc` is `for_sambacc`. |
| `SmbContainers` | Role catalog, layout builder, composer | Roles are a closed set of names; each class's override is one CASE arm. `BuildLayout` is `_layout` past its cache check. `Mounts` is `customize_container_mounts`. `AllSpecs` gives every container spec of a layout. |
| `SmbDataDir` | Data directory | Pure operators. `PrepSteps` is `prepare_data_dir` past its `validate()` as the sequence of its writes, each a partial map path → new contents; `ApplySteps` applies the first k of them. `DataDirTarget(cfg, files, nets)` is what a completed call leaves at each path it writes. `CtdbStub` and `SmbConfStub` are the two stub writers. |
| `SmbInstance` | What the object promises (abstract) | VARIABLES: the inputs, `cfg`, `layout`, `dir`, `ready`. Actions: `Validate` (settle the Config), `Plan` (build the layout once), `Prepare` (move paths of `dir` only to what `cfg` wants; report success only if all of them hold it), `Redeploy`. It takes `ParseConfig`, `BuildLayout` and `DataDirTarget` as operator parameters, which `SmbDaemon` instantiates with its own. |
| `SmbDaemon` | The `SMB` object and the data directory | VARIABLES: the object's fields (`instCfg` = `_instance_cfg`, `cachedLayout` = `_cached_layout`, `files`, `networks`), the inputs of the process (`raw`, `rankInfo`, `hostNets`, `endpoints`), the data directory `disk`, and two history counters. Actions: `ValidateCall(m)` for `validate`, `container` and `customize_container_mounts`; `LayoutCall(m)` for the five methods that go through `_layout`; `CustomizeEndpoints`; `PrepareDataDir`; `NewProcess` (`__init__` of the next process). |
| `SmbLayoutProofs`, `SmbDaemonProofs`, `SmbRefinementProofs`, `SmbSafetyProofs` | | The TLAPS proofs (section 5). |
| `MCSmbDaemon`, `MCSmbLayout`, `MCSmbNetworkMapper` | | Model-checking instances. |

Data is abstracted to what the properties tell apart:
- A path or URI is a sequence of components, so a container path can be matched against a mount target.
- A command-line word is a tuple (`<<"--setup", "users">>` for `--setup=users`). The value of a path-valued option (`--dest-dir`, `--archive`) is the path's component list, as for a URI.
- A container image is `[core, ws]`: its non-blank text, and whether whitespace surrounds it, which is what `.strip()` removes.
- `str(int)` is `ToString`.
- `None`, an unparsable port and a malformed address entry are model values.

Every action models the whole method. For example, `PrepareDataDir` validates first, then performs the writes in the code's order. It may stop with `OSError` after any prefix of those writes, and it leaves the earlier writes in place. `file_utils.write_new` lies outside `src/`; it is taken to replace a file atomically, as its name and its use at line 726 say.

## 3. Runs

| Run | Checks | Shows |
|---|---|---|
| `daemon_lifecycle` (`MCSmbDaemon.cfg`, pass, 26,784 states) | `TypeOK`, `LayoutMemoized`, `NetworksLoadedOnDemand`, `ConfigUrisResolve`, `MountSourcesExist`, `EndpointPortsUnique`, `DataDirCurrent`, `PathArgsPersist`; action property `CtdbJsonOnlyCurrent` | See below. |
| `daemon_refines_instance` (`MCSmbDaemon_Refinement.cfg`, pass, 9,276 states) | `AbstractSpec` | `SmbDaemon` implements `SmbInstance` under the mapping below, on a raw-config set trimmed to the cases the data directory tells apart. |
| `layout_rules` (`MCSmbLayout.cfg`, pass, 2,304 states) | `InvLayoutOrder`, `InvCtdbDependenciesMet`, `InvMetricsPortPublished` | For every Config of the enumerated raw space, in any order: the layout order of spec §4.4; no container names ctdb unless `ctdbd` runs; a running metrics sidecar has its port published by `smbd`. |
| `network_mapper` (`MCSmbNetworkMapper.cfg`, pass, 2,560 states) | `ForSambaccMatchesReference` | `_convert` equals a `FlattenSeq` reference, with the order kept, missing networks skipped and duplicates kept. |
| `metrics_endpoint` (violation) | `MetricsEndpointOnlyIfConfigured` | Finding 2. |
| `rank_generation_env` (violation) | `RankGenerationEnv` | Finding 1. |
| `clustered_node_number` (violation) | `ClusteredInitHasNodeNumber` | Finding 3. |

What `daemon_lifecycle` shows, whatever the order of calls, failures and redeploys:
- The layout is built at most once and always from the memoized Config.
- The inventory is loaded only when needed.
- Once `prepare_data_dir` has returned, these hold:
  - every local URI a container reads in `SAMBACC_CONFIG` resolves through that container's bind mounts to a file on disk;
  - every mount source exists, with the right kind;
  - every directory, configured file and ctdb stub it writes holds what this process's Config wants (`DataDirCurrent`); in particular `ctdb.json` describes *this* deployment's config and this host's inventory, even when an earlier deployment with another config wrote it;
  - the paths `ctdb-migrate` is told to write (`--dest-dir`, and the `--archive` marker by which a re-run on node 0 can see the migration was done) lie under a bind mount of that container whose source is a persistent directory of the data directory, not one of the run directories meant to become tmpfs (`PathArgsPersist`).
- Repeated endpoint customization never lists a port twice.
- No step writes a `ctdb.json` other than the one of the current Config and this host's inventory (`CtdbJsonOnlyCurrent`, an action property).

**The refinement.** `SmbDaemon` declares `Abs == INSTANCE SmbInstance WITH cfg <- instCfg, layout <- cachedLayout, dir <- disk, ready <- prepDone`; the inputs map to themselves. Each concrete step maps as follows:
- `validate` succeeding maps to `Validate`, and raising maps to a stutter;
- `_layout` with a cached layout is a stutter, and building the layout maps to `Plan`;
- endpoint customization is a stutter;
- `prepare_data_dir` maps to `Prepare`, whatever prefix of its writes succeeded;
- `NewProcess` maps to `Redeploy`.

The network mapper, `self._files`, the endpoints, `lastErr` and the counters are implementation detail.

Every property of a passing run has a mutant in `PROJECT.json`: a one-place change of the code that TLC shows breaks it. Examples:
- a dropped cache check;
- ctdb.json written to the wrong directory;
- an exclusive create instead of a replace;
- the port appended without a membership test;
- a `break` instead of `continue` in `_convert`.

**Findings.**
1. **Code bug.** Line 161 sets `RANK_GENERATION` to `str(cfg.rank)`. `cfg.rank_generation` is stored but never read.
2. **Spec-code divergence.** `customize_container_endpoints` (lines 688-690) tests `self.metrics_port`, which is fixed to 9922 in `__init__`. It does not test the configured port, so every instance exposes 9922, although spec §6 says the metrics port is added only if configured.
3. **Spec gap.** `NODE_NUMBER` is exported only when `rank >= 0` (line 158), and nothing requires a clustered instance to have a rank. Such an instance therefore gets `must-join` and `ctdb-migrate` gated on `env:NODE_NUMBER!=0`, and `ctdb-must-have-node` reading `--take-node-number-from-env`, all with the variable unset.

**Bounds.**
- `MCSmbDaemon` has 14 valid raw configs and 5 invalid ones, one per error path of `validate`:
  - the valid ones are the product of three feature sets, two metrics settings (off, or on with port 9922) and zero or one public address (12), plus two configs with a user file (one clustered with metrics and a public address, one plain);
  - the invalid ones cover an unparsable port, an empty id, an empty URI, an unknown feature and a malformed address.
- It has two ranks, two host inventories and two initial endpoint lists.
- The public address names three networks. The host lacks one network in both inventories, and lacks a second one in the smaller inventory. A redeploy can therefore change the mapped interfaces.
- Within one process every method can be called in any order and any number of times. Depth 8 already exceeds the 4–5 calls after which the state repeats.
- The history counters saturate at 2, which is enough to see a second build or a second load.
- `MCSmbLayout` enumerates 768 raw configs and 3 ranks. They cover:
  - blank, padded and set images;
  - negative, zero and positive ports;
  - empty and set DNS, hostname and auth entity.

**Fairness and liveness.** There is none. The code is synchronous and single-threaded: every method returns or raises, and nothing waits. Whether the framework calls a method at all is up to the framework. So no liveness property is claimed, and deadlock checking stays on: `NewProcess` is always enabled.

## 4. Hazards

`PROJECT.json` lists the hazards:
- the stale network inventory;
- partial failure and redeploy over a persisted data directory;
- an arbitrary call order against the memoized state;
- numeric edges of `metrics_port`;
- the ordering of the layout;
- the node-0 gate re-running `ctdb-migrate`.

For each it names the properties that cover it. Two hazards are not covered:
- Publishing a negative metrics port.
- A configured file whose name is a generated path. The model assumes the names are disjoint (`DataDirAssumption`), because the orchestrator outside `src/` chooses them.

## 5. What is proved

Four modules hold TLAPS proofs, all obligations checked. They are chained by EXTENDS: `SmbLayoutProofs` → `SmbDaemonProofs` → `SmbRefinementProofs` → `SmbSafetyProofs`. The abstract `SmbInstance` has no theorems of its own: what it promises is proved of the code through the refinement.

`SmbLayoutProofs` proves facts about the role catalog and `_layout` for every Config that satisfies `ConfigOK`, not only the enumerated ones:
- lemmas `ArgsOfRole` (every argument of a role the layout can hold is a word, a `--flag=value` whose flag names no path, or one of ctdb-migrate's two path options; for a non-clustered Config, no CTDB word), `LayoutEntries` and `SpecsOfLayout` (every container spec runs the `args()`, `envs()` and mounts of such a role);
- **`CtdbDependenciesMetHolds`**: a container is passed a CTDB argument only in a clustered layout, and that layout runs `ctdbd` (run `layout_rules` checks the same operator as `InvCtdbDependenciesMet`);
- **`MetricsPortPublishedHolds`**: a running smbmetrics sidecar listens on the metrics port, runs the configured image and shares the network namespace of `smbd`, which publishes that port (`InvMetricsPortPublished`);
- **`LayoutOrderHolds`**: the order of spec §4.4 (`InvLayoutOrder`). It rests on `InitLayout` and `SupLayout`, which give the length of the init and sidecar sequences (`1 + D + C` and `1 + D + W + C`, for the domain, metrics and clustered flags) and the container at each index, obtained by `ConcatProperties` over the conditional parts of `_layout`; on `NamesOf` (the names of a container sequence, index by index); and on `LastPair`, which turns the `SubSeq` of the last two names into two index facts. Each rule is then a case split on the flags: a non-domain layout with a second entry is clustered or has metrics, so that entry is not must-join or winbindd; a non-clustered sidecar list of length 3 ends with smbmetrics.

`SmbDaemonProofs` proves five theorems for every value of the constants:

- **`TypeCorrect`**: `Spec => []TypeOK`. It rests on these lemmas:
  - `ParseOk`: a successful `validate` returns `MakeConfig`, whose port is an `int` and whose public addresses are all well formed;
  - `BuildLayoutOK`;
  - `WithPortOK`;
  - `ApplyStepsDomain`;
  - `BumpOK`.
- **`LayoutMemoizedHolds`** and **`NetworksLoadedOnDemandHolds`**. Neither property is inductive as it stands: "at most one build so far" does not say whether the next call builds again. The inductive invariant `MemoInv` (checked first with TLC on the daemon instance) ties each history counter to the cache it guards:
  - a layout has been built exactly when one is cached;
  - the inventory has been loaded exactly when the memoized Config has public addresses;
  - the memoized Config is `MakeConfig` of this process's raw config and rank.

  `MemoInv` needs `TypeOK`, so it includes it. The step proof has one case per action, with lemmas for `validate` and `_layout`.
- **`ValidatedLayoutRules`**: every Config `validate()` returns for a well-shaped raw config and rank (`ParseOk` gives `ConfigOK`) obeys `LayoutRules`, the conjunction of the three layout rules. This is what `layout_rules` checks of the Configs of its raw-config space, for every raw config.
- **`ServedLayoutRules`**: `Spec => [](instCfg # None => LayoutRules(instCfg))`, from `TypeCorrect`; with `LayoutMemoizedHolds`, every layout the object serves obeys the rules.

`SmbRefinementProofs` proves that the object implements its abstract specification, and one consequence of that:

- **`Refinement`**: `Spec => AbstractSpec`. This follows the standard pattern:
  - `Init => Abs!Init`;
  - `RefInv /\ RefInv' /\ [Next]_vars => [Abs!Next]_Abs!avars`, one case per action, with a lemma per abstract action;
  - the temporal step, by `PTL`.

  `RefInv` extends `MemoInv` with two facts, because the abstract `Target` reads the raw config's files and this host's inventory, while `prepare_data_dir` reads `self._files` and the mapper:
  - once a Config is memoized, `files` is this process's `raw.files`;
  - when that Config has public addresses, `networks` is this host's inventory.

  The data-directory part rests on lemmas about the writes:
  - `WritesAgree` and `PrepStepsGood`: every write lies in `Seq` of the writes that agree with `DataDirTarget`;
  - `PrepStepsCover`: every target path is written by some step;
  - `ApplyStepsMoves`: applying a prefix of agreeing writes moves each path nowhere or to its target, and applying all of them reaches the target wherever a step writes;
  - `StubIgnoresNetworks`: without public addresses, the stub does not read the inventory.

  The proofs reason through `Seq(S)` membership and the indices of `\o` (`ConcatProperties`), never through equalities of literal tuples.
- **`DataDirCurrentHolds`**: `Spec => []DataDirCurrent`. It follows from `Refinement`: `Abs!Init` implies the property, and every abstract step preserves it.

`SmbSafetyProofs` proves the remaining invariants of `daemon_lifecycle` and its action property. The data-directory ones need no new inductive invariant: they are consequences of `RefInv /\ DataDirCurrent` (and `TypeOK`), both already proved invariants, because `DataDirCurrent` says every written path holds its target and `RefInv` says the target is built from this process's Config and this host's inventory.
- **`MountSourcesExistHolds`**, **`PathArgsPersistHolds`** (through `SpecsOfLayout` and `ArgsOfRole`: the only path arguments are ctdb-migrate's, which exists only in a clustered layout, whose persistent directories `prepare_data_dir` made).
- **`CtdbJsonOnlyCurrentHolds`**: `Spec => [][...]_vars`; every step that changes `disk` at `ctdb.json` writes `CtdbStub(instCfg, hostNets)`, proved from `RefInv` per action.
- **`EndpointPortsUniqueHolds`**, under the hypothesis that every initial endpoint list names each port once. The inductive invariant is `TypeOK /\ NoDup(endpoints)`: `customize_container_endpoints` appends a port only when it is absent (lines 682-690), so it keeps a duplicate-free list duplicate-free, but it cannot repair a list the framework hands over with a duplicate. The hypothesis is on the framework's input, outside `src/`; the MC lists satisfy it.
- **`ConfigUrisResolveHolds`**, under the hypothesis `SourcesRemote`: the config source and every user source of the raw configs are remote (`RemoteSchemes`, `rados:` in the MC). `config_uris()` passes those URIs through unchanged, and nothing in the code makes a local file URI of them resolve; the property is about the one local URI the daemon itself creates, `ctdb.json`. The proof: `SAMBACC_CONFIG` of a spec lists `ConfigUris(instCfg)` (`SpecsOfLayout`), a local one is `ctdb.json` of a clustered Config (`ConfigUriCases`), which lies under the etc-samba-container mount (`CtdbJsonUriMounted`), and `disk` there holds the stub, which is file content (`CtdbStubIsContent`).

To make the container specs provable, two operators that used TLC's `:>` and `@@` (which tlapm cannot open) are written as functions over their key sets with a `CASE`: `Mounts` and `SambaEnvs` (with `SambaEnvKeys`); TLC checks them unchanged. `ConfigOK` also types `join_sources` and `custom_dns`, which `validate` copies from the raw config.

The assumptions are stated in the modules and evaluated by TLC on every run:
- `ConstAssumption`, `EmptyIsString`: tlapm does not evaluate string literals.
- `EngineAssumption`.
- `DaemonAssumption`: the raw configs are well shaped, their configured file names are among `UserFilePaths`, ranks are integers, and a built Config and its layout are not the `None` sentinel.
- `DataDirAssumption`: `Absent` and `Dir` are distinct, and configured file names miss the generated paths.
- `StubIsContent`, `CtdbStubIsContent`: the `smb.conf` and `ctdb.json` stubs are file contents, not the `Absent`/`Dir` markers (TLC evaluates both over every raw config, rank and inventory).

**Only model-checked.**
- `ForSambaccMatchesReference`: what the recursive `ConvertDevs` computes for every input needs induction over data, which the installed provers cannot instantiate (their induction theorems take an operator parameter); even the one-step fact that appending a destination appends its devices needs it, since the two recursive functions must be shown to agree on the common prefix. `FlattenSeq`, the reference, is RECURSIVE and is reached only from TLC's module.
- The three violated properties of the finding runs.
- Liveness, which is not applicable here (section 3).

## 6. Not modelled

- `get_version`: a subprocess call and a regular expression, with no state.
- Code outside `src/`: `context_getters`, `file_utils`, `Podman.update_mounts`, `daemon_to_container` and the container engines. They appear only as the inputs they supply and the atomic replace of `write_new`.
- The text of `ctdb.json` and `smb.conf`: their contents are records.
- JSON encoding: it is the identity on the modelled structure, and no property depends on the byte format.
- What the containers do at run time: must-join, ctdb-migrate and ctdb itself run in the samba-container image.
