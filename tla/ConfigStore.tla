----------------------------- MODULE ConfigStore -----------------------------
(***************************************************************************)
(* The service's configuration store (sentinel-service/src/config_sync.rs) *)
(* across restarts: the machine configuration the installer wrote to the   *)
(* registry and the service caches in config.json, and the last tenant     *)
(* policy, cached in policy.json.  Both files are written beside and       *)
(* renamed over the old one, and neither is flushed to the disk by hand,   *)
(* so a power loss may leave the last one renamed unreadable.              *)
(*                                                                         *)
(* The fetch is whatever implements PolicyFetch; no code of this           *)
(* repository calls `refresh` yet.  A configuration or policy is a value.  *)
(***************************************************************************)
EXTENDS Naturals

CONSTANTS
    Config,     \* machine configurations an installer writes
    Policies,   \* policies the server publishes
    Nothing,    \* no file, no registry value, no policy
    Corrupt,    \* a file that does not parse
    Default,    \* LocalConfig::default()
    MaxSync     \* bound: fetched policies, repairs and crashes

\* A file that parses is neither missing nor unreadable.
ASSUME ConfigAssumption == {Nothing, Corrupt} \cap (Config \cup Policies \cup {Default}) = {}

VARIABLES
    registry,   \* the installer's values
    configFile, \* config.json
    policyFile, \* policy.json
    unflushed,  \* files renamed into place and not on the disk yet
    running,    \* "down" | "opened" | "up" | "fetched" | "renamed"
    local,      \* ConfigStore.local
    policy,     \* ConfigStore.policy
    fresh,      \* the policy a running refresh has fetched
    cached,     \* history: what config.json was last given
    good,       \* history: what policy.json was last given
    spoiled,    \* history: files a power loss took
    left        \* steps of the environment left

configVars == <<registry, configFile, policyFile, unflushed, running, local, policy,
                fresh, cached, good, spoiled, left>>

-----------------------------------------------------------------------------
ConfigInit ==
    /\ registry \in Config \cup {Nothing}
    /\ configFile = Nothing /\ policyFile = Nothing /\ unflushed = {}
    /\ running = "down"
    /\ local = Default /\ policy = Nothing /\ fresh = Nothing
    /\ cached = Nothing /\ good = Nothing /\ spoiled = {}
    /\ left = MaxSync

Readable(file) == file \notin {Nothing, Corrupt}

\* open: the cached file, else what the installer wrote, else the default;
\* a policy only if its file parses.
OpenStore ==
    /\ running = "down"
    /\ local' = IF Readable(configFile) THEN configFile
                ELSE IF registry # Nothing THEN registry ELSE Default
    /\ policy' = IF Readable(policyFile) THEN policyFile ELSE Nothing
    /\ running' = "opened"
    /\ UNCHANGED <<registry, configFile, policyFile, unflushed, fresh, cached,
                   good, spoiled, left>>

\* persist_local on every start, or the warning that it did not work.
PersistLocal ==
    /\ running = "opened"
    /\ configFile' = local
    /\ cached' = local
    /\ unflushed' = unflushed \cup {"config"}
    /\ spoiled' = spoiled \ {"config"}
    /\ running' = "up"
    /\ UNCHANGED <<registry, policyFile, local, policy, fresh, good, left>>

PersistLocalFails ==
    /\ running = "opened"
    /\ running' = "up"
    /\ UNCHANGED <<registry, configFile, policyFile, unflushed, local, policy,
                   fresh, cached, good, spoiled, left>>

\* refresh: a fetch that fails leaves everything, one that brings the policy
\* held already changes nothing.
Fetch ==
    /\ running = "up"
    /\ left > 0
    /\ \E p \in Policies \ {policy} : fresh' = p
    /\ running' = "fetched"
    /\ left' = left - 1
    /\ UNCHANGED <<registry, configFile, policyFile, unflushed, local, policy,
                   cached, good, spoiled>>

\* persist_policy: written beside, renamed over.
PersistPolicy ==
    /\ running = "fetched"
    /\ policyFile' = fresh
    /\ good' = fresh
    /\ unflushed' = unflushed \cup {"policy"}
    /\ spoiled' = spoiled \ {"policy"}
    /\ running' = "renamed"
    /\ UNCHANGED <<registry, configFile, local, policy, fresh, cached, left>>

\* Mutant of PersistPolicyFails: the fresh policy is held although unwritten.
PersistPolicyFailsHeld ==
    /\ running = "fetched"
    /\ running' = "up"
    /\ policy' = fresh
    /\ fresh' = Nothing
    /\ UNCHANGED <<registry, configFile, policyFile, unflushed, local,
                   cached, good, spoiled, left>>

\* The directory, the write or the rename fails: refresh returns the error.
PersistPolicyFails ==
    /\ running = "fetched"
    /\ running' = "up"
    /\ fresh' = Nothing
    /\ UNCHANGED <<registry, configFile, policyFile, unflushed, local, policy,
                   cached, good, spoiled, left>>

HoldPolicy ==
    /\ running = "renamed"
    /\ policy' = fresh
    /\ fresh' = Nothing
    /\ running' = "up"
    /\ UNCHANGED <<registry, configFile, policyFile, unflushed, local,
                   cached, good, spoiled, left>>

-----------------------------------------------------------------------------
\* An MSI install or repair writes its values again, perhaps others.
Repair ==
    /\ left > 0
    /\ \E v \in Config : registry' = v
    /\ left' = left - 1
    /\ UNCHANGED <<configFile, policyFile, unflushed, running, local, policy,
                   fresh, cached, good, spoiled>>

FilesFlushed ==
    /\ unflushed # {}
    /\ unflushed' = {}
    /\ UNCHANGED <<registry, configFile, policyFile, running, local, policy,
                   fresh, cached, good, spoiled, left>>

\* The service process ends anywhere; memory is lost, the files are not.
ServiceCrash ==
    /\ running # "down"
    /\ left > 0
    /\ running' = "down"
    /\ fresh' = Nothing
    /\ left' = left - 1
    /\ UNCHANGED <<registry, configFile, policyFile, unflushed, local, policy,
                   cached, good, spoiled>>

\* A power loss also takes any file whose content had not reached the disk.
PowerLoss ==
    /\ left > 0
    /\ \E lost \in SUBSET unflushed :
          /\ configFile' = IF "config" \in lost THEN Corrupt ELSE configFile
          /\ policyFile' = IF "policy" \in lost THEN Corrupt ELSE policyFile
          /\ spoiled' = spoiled \cup lost
    /\ unflushed' = {}
    /\ running' = "down"
    /\ fresh' = Nothing
    /\ left' = left - 1
    /\ UNCHANGED <<registry, local, policy, cached, good>>

ConfigNext ==
    \/ OpenStore \/ PersistLocal \/ PersistLocalFails
    \/ Fetch \/ PersistPolicy \/ PersistPolicyFails \/ HoldPolicy
    \/ Repair \/ FilesFlushed \/ ServiceCrash \/ PowerLoss

ConfigSpec == ConfigInit /\ [][ConfigNext]_configVars

-----------------------------------------------------------------------------
(***************************************************************************)
(* Configuration survives (config_sync.rs open, refresh): a running        *)
(* service holds the last policy that was written, whatever fetches,       *)
(* writes and restarts failed since, and never one a restart would forget; *)
(* and once config.json was written a repair does not bring back the       *)
(* installer's values.  Only a power loss that took the file breaks either.*)
(***************************************************************************)
ConfigKept ==
    /\ running \in {"opened", "up", "fetched"} /\ "policy" \notin spoiled
          => policy = good
    /\ running # "down" /\ cached # Nothing /\ "config" \notin spoiled
          => local = cached
==============================================================================
