----------------------------- MODULE OsAgentBoot ------------------------------
(***************************************************************************)
(* From power-on to the prompt (os-agent/src/main.rs, setup_wizard.rs,     *)
(* config.rs): a flag file says whether the wizard has run; if not, it     *)
(* sets up the network, asks for an endpoint, writes model.conf, and main  *)
(* writes the flag.  Then model.conf is loaded, its keys are decrypted,    *)
(* and the terminal runs completions (LlmClient) with them.  The process   *)
(* may be killed anywhere, and is then started again; most of what the     *)
(* wizard does outside of it stays done.                                   *)
(*                                                                         *)
(* Each key is encrypted with the machine id of the moment: of a stored    *)
(* key the model keeps what it is and the id it was stored under.  An      *)
(* entry is "plain" if it is one TOML can quote.  A write truncates the    *)
(* file and then fills it.  A stty that has switched echo off can switch   *)
(* it on.                                                                  *)
(***************************************************************************)
EXTENDS LlmClient

CONSTANTS Keys,       \* API keys; the empty one, "", is one
          Ids,        \* what /etc/machine-id may hold: "empty", and others
          MaxFaults   \* bound: kills, failures of tools and edits by hand

NoKey == ""
NoId == "nothing"

ASSUME BootAssumption ==
  /\ NoKey \in Keys /\ MaxFaults \in Nat
  /\ NoId \notin Ids  \* what a file written by hand is encrypted under

VARIABLES pc,         \* where the process is; "off" when there is none
          flag,       \* /etc/os-agent/.setup_done
          conf,       \* /etc/os-agent/model.conf
          id,         \* /etc/machine-id
          net,        \* addresses and routes the machine has
          echo, wpa,  \* the console echoes; the temporary WiFi file exists
          entry,      \* what the user has typed into this wizard, and the
                      \* ids its keys are encrypted under
          running,    \* the ModelConfig of this process
          saved,      \* history: what the last saved configuration was to hold
          faults

diskVars == <<flag, conf, id>>
hostVars == <<net, echo, wpa>>
bootVars == <<pc, diskVars, hostVars, entry, running, saved, faults>>
vars == <<bootVars, clientVars>>

Absent == [state |-> "absent"]
Partial == [state |-> "partial"]
Nothing == [key |-> NoKey, under |-> NoId, fallback |-> {}, fallbackUnder |-> NoId, plain |-> TRUE]

Init ==
  /\ pc = "off" /\ flag = FALSE /\ conf = Absent /\ id \in Ids
  /\ net = {} /\ echo = TRUE /\ wpa = FALSE
  /\ entry = Nothing /\ running = Nothing /\ saved = Nothing /\ faults = 0
  /\ ClientInit

Goto(from, to) == pc = from /\ pc' = to
Fault == faults < MaxFaults /\ faults' = faults + 1
NoFault == UNCHANGED faults
KeepsDisk == UNCHANGED <<diskVars, saved>>
KeepsHost == UNCHANGED hostVars
KeepsClient == UNCHANGED clientVars

\* The process ends with an error, or by a panic, which puts echo back.
Dies(from) ==
  /\ Goto(from, "off")
  /\ entry' = Nothing /\ running' = Nothing
  /\ KeepsDisk /\ KeepsClient

-------------------------------------------------------------------------------
\* main, and the network

Start ==
  /\ Goto("off", IF flag THEN "load" ELSE "network")
  /\ KeepsDisk /\ KeepsHost /\ KeepsClient /\ NoFault /\ UNCHANGED <<entry, running>>

NetworkStep(from, to) ==
  /\ Goto(from, to)
  /\ KeepsDisk /\ KeepsClient /\ UNCHANGED <<echo, entry, running>>

\* run_dhcp never fails; a lease brings a default route.
Dhcp(from) ==
  /\ NetworkStep(from, "ping") /\ NoFault
  /\ net' \in {net, net \cup {"route"}}
  /\ UNCHANGED wpa

\* "ip addr add" and "ip route add" refuse what is there already.
StaticAddress ==
  /\ NetworkStep("network", "route") /\ NoFault
  /\ "address" \notin net /\ net' = net \cup {"address"}
  /\ UNCHANGED wpa

StaticRoute ==
  /\ NetworkStep("route", "dns") /\ NoFault
  /\ "route" \notin net /\ net' = net \cup {"route"}
  /\ UNCHANGED wpa

WriteDns == NetworkStep("dns", "ping") /\ NoFault /\ UNCHANGED <<net, wpa>>

StaticRefused ==
  \/ Dies("network") /\ "address" \in net /\ KeepsHost /\ NoFault
  \/ Dies("route") /\ "route" \in net /\ KeepsHost /\ NoFault

Prompt(from, to) ==
  /\ Goto(from, to)
  /\ KeepsDisk /\ KeepsClient /\ NoFault /\ UNCHANGED <<net, wpa, running>>

\* "stty -echo" may fail, and nobody looks.
EchoOff == echo' \in {echo, FALSE}

\* configure_wifi asks for a password with the echo off, writes it to a file
\* for wpa_supplicant, and removes that afterwards, unless wpa_supplicant
\* cannot be started.
AskWifi == Prompt("network", "password") /\ UNCHANGED entry /\ EchoOff

TypeWifi == Prompt("password", "wifi_file") /\ UNCHANGED entry /\ echo' = TRUE

WriteWpa ==
  /\ NetworkStep("wifi_file", "wpa") /\ NoFault
  /\ wpa' = TRUE /\ UNCHANGED net

StartWpa ==
  /\ NetworkStep("wpa", "wifi") /\ NoFault
  /\ wpa' = FALSE /\ UNCHANGED net

\* Fault: without a connection, the wizard ends.
PingOrEnd ==
  \/ NetworkStep("ping", "url") /\ NoFault /\ UNCHANGED <<net, wpa>>
  \/ Dies("ping") /\ KeepsHost /\ NoFault

\* test_connectivity only warns.
Ping == NetworkStep("ping", "url") /\ NoFault /\ UNCHANGED <<net, wpa>>

-------------------------------------------------------------------------------
\* The endpoint

AskUrl ==
  /\ Prompt("url", "key")
  /\ \E plain \in BOOLEAN : entry' = [entry EXCEPT !.plain = plain]
  /\ EchoOff

\* Fault: a key is read without the guard.
AskKeyUnguarded ==
  /\ Prompt("key", "test")
  /\ \E key \in Keys : entry' = [entry EXCEPT !.key = key]
  /\ UNCHANGED echo

\* prompt_password: echo is off while it reads, and EchoGuard puts it back.
AskKey ==
  /\ Prompt("key", "test")
  /\ \E key \in Keys : entry' = [entry EXCEPT !.key = key]
  /\ echo' = TRUE

\* test_api only warns, too, though cutting an error's body may panic.
TestApi == Prompt("test", "fallback") /\ UNCHANGED <<entry, echo>>

AskFallback ==
  \/ Prompt("fallback", "mkdir") /\ UNCHANGED <<entry, echo>>
  \/ Prompt("fallback", "fallback_key") /\ UNCHANGED entry /\ EchoOff

AskFallbackKey ==
  /\ Prompt("fallback_key", "mkdir")
  /\ \E key \in Keys : entry' = [entry EXCEPT !.fallback = {key}]
  /\ echo' = TRUE

-------------------------------------------------------------------------------
\* Saving

\* XOR with an empty machine id divides by 0, unless there is nothing to XOR.
CannotXor(key) == id = "empty" /\ key # NoKey
CannotXorAny(keys) == \E key \in keys : CannotXor(key)

SaveStep(from, to) ==
  /\ Goto(from, to)
  /\ KeepsHost /\ KeepsClient /\ NoFault /\ UNCHANGED <<running, id>>

\* create_dir_all, then encrypt_api_key for each of the keys.
EncryptKey ==
  /\ SaveStep("mkdir", "encrypt") /\ ~CannotXor(entry.key)
  /\ entry' = [entry EXCEPT !.under = id] /\ UNCHANGED <<flag, conf, saved>>

EncryptFallback ==
  /\ SaveStep("encrypt", "open") /\ ~CannotXorAny(entry.fallback)
  /\ entry' = [entry EXCEPT !.fallbackUnder = id] /\ UNCHANGED <<flag, conf, saved>>

EncryptPanics ==
  \/ Dies("mkdir") /\ CannotXor(entry.key) /\ KeepsHost /\ NoFault
  \/ Dies("encrypt") /\ CannotXorAny(entry.fallback) /\ KeepsHost /\ NoFault

\* Fault: the flag is written before the wizard has saved.
FlagFirst ==
  /\ SaveStep("open", "write")
  /\ conf' = Partial /\ flag' = TRUE /\ UNCHANGED <<entry, saved>>

Truncate ==
  /\ SaveStep("open", "write")
  /\ conf' = Partial /\ UNCHANGED <<flag, entry, saved>>

Encrypted ==
  [state |-> "whole", key |-> entry.key, under |-> entry.under, fallback |-> entry.fallback,
   fallbackUnder |-> entry.fallbackUnder, plain |-> entry.plain, private |-> FALSE]

WriteConfig ==
  /\ SaveStep("write", "chmod")
  /\ conf' = Encrypted /\ saved' = entry /\ UNCHANGED <<flag, entry>>

RestrictConfig ==
  /\ SaveStep("chmod", "flag")
  /\ conf' = [conf EXCEPT !.private = TRUE] /\ UNCHANGED <<flag, entry, saved>>

WriteFlag ==
  /\ SaveStep("flag", "load")
  /\ flag' = TRUE /\ UNCHANGED <<conf, entry, saved>>

-------------------------------------------------------------------------------
\* Loading, and the terminal

Loadable == conf.state = "whole" /\ conf.plain

\* Fault: the key is used as it is stored.
RawKey(key, under) == IF key = NoKey THEN key ELSE "garbled"

\* decrypt_api_key: right only under the id that encrypted; what was never
\* encrypted is garbled as well.
DecryptKey(key, under) ==
  IF key = NoKey \/ under = id THEN key ELSE "garbled"

LoadStep(from, to) ==
  /\ Goto(from, to) /\ Loadable
  /\ KeepsDisk /\ KeepsHost /\ KeepsClient /\ NoFault /\ UNCHANGED entry

\* The file is read and its key decrypted; then that of the fallback is.
Load ==
  /\ LoadStep("load", "load_fallback") /\ ~CannotXor(conf.key)
  /\ running' = [Nothing EXCEPT !.key = DecryptKey(conf.key, conf.under)]

LoadFallback ==
  /\ LoadStep("load_fallback", "terminal") /\ ~CannotXorAny(conf.fallback)
  /\ running' =
       [running EXCEPT !.fallback = {DecryptKey(k, conf.fallbackUnder) : k \in conf.fallback}]

LoadFails ==
  \/ Dies("load") /\ (Loadable => CannotXor(conf.key)) /\ KeepsHost /\ NoFault
  \/ Dies("load_fallback") /\ CannotXorAny(conf.fallback) /\ KeepsHost /\ NoFault

\* Completions go to the primary endpoint; the fallback is never read.
Terminal ==
  /\ pc = "terminal"
  /\ Complete \/ ClientStep \/ FinishLate
  /\ UNCHANGED bootVars

-------------------------------------------------------------------------------
\* What comes from outside

Stages == {"off", "network", "route", "dns", "password", "wifi_file", "wpa", "wifi", "ping", "url",
           "key", "test", "fallback", "fallback_key", "mkdir", "encrypt", "open", "write", "chmod",
           "flag", "load", "load_fallback", "terminal"}

\* Steps with a call that may fail: ip, a file of the network's or of the
\* wizard's, wpa_supplicant, a prompt, the error's body, the HTTP client.
MayFail == Stages \ {"off", "password", "ping", "key", "fallback_key", "encrypt", "load_fallback",
                     "terminal"}

ToolFails == \E from \in MayFail : Dies(from) /\ Fault /\ KeepsHost

Kill ==
  /\ pc # "off" /\ pc' = "off" /\ Fault
  /\ entry' = Nothing /\ running' = Nothing
  /\ call' = "idle" /\ attempt' = 0 /\ elapsed' = 0 /\ working' = {}
  /\ KeepsDisk /\ KeepsHost

Reboot ==
  /\ pc = "off" /\ net # {} /\ Fault
  /\ net' = {} /\ echo' = TRUE /\ wpa' = FALSE
  /\ KeepsDisk /\ KeepsClient /\ UNCHANGED <<pc, entry, running>>

\* The system makes the machine id, if there was no file.
MakeId ==
  /\ id = "missing" /\ Fault /\ id' \in Ids \ {"missing", "empty"}
  /\ KeepsHost /\ KeepsClient /\ UNCHANGED <<pc, flag, conf, entry, running, saved>>

\* The user writes model.conf the way the README shows, whose fallback is optional.
EditByHand ==
  /\ pc = "off" /\ flag /\ Fault
  /\ \E key \in Keys, fallback \in {{}} \cup {{k} : k \in Keys} :
       /\ conf' = [state |-> "whole", key |-> key, fallback |-> fallback, plain |-> TRUE,
                   under |-> NoId, fallbackUnder |-> NoId, private |-> TRUE]
       /\ saved' = [Nothing EXCEPT !.key = key, !.fallback = fallback]
  /\ KeepsHost /\ KeepsClient /\ UNCHANGED <<pc, flag, id, entry, running>>

-------------------------------------------------------------------------------

Network ==
  \/ Dhcp("network") \/ Dhcp("wifi")
  \/ StaticAddress \/ StaticRoute \/ WriteDns \/ StaticRefused
  \/ AskWifi \/ TypeWifi \/ WriteWpa \/ StartWpa \/ Ping

Endpoint == AskUrl \/ AskKey \/ TestApi \/ AskFallback \/ AskFallbackKey

Save ==
  \/ EncryptKey \/ EncryptFallback \/ EncryptPanics
  \/ Truncate \/ WriteConfig \/ RestrictConfig \/ WriteFlag

Process == Start \/ Network \/ Endpoint \/ Save \/ Load \/ LoadFallback \/ LoadFails \/ Terminal

Environment == ToolFails \/ Kill \/ Reboot \/ MakeId \/ EditByHand

Next == Process \/ Environment

(***************************************************************************)
(* init starts the agent again, the user answers the prompts and does not  *)
(* insist on a static address the machine refuses, and what the process    *)
(* does by itself goes on.                                                 *)
(***************************************************************************)
Fairness ==
  /\ WF_vars(Process)
  /\ SF_vars(Dhcp("network"))
  /\ WF_vars(pc = "terminal" /\ ClientStep /\ UNCHANGED bootVars)

Spec == Init /\ [][Next]_vars /\ Fairness

-------------------------------------------------------------------------------

AnyId == Ids \cup {NoId}
Entries == [key : Keys, under : AnyId, fallback : SUBSET Keys, fallbackUnder : AnyId,
            plain : BOOLEAN]
WholeFiles == [state : {"whole"}, key : Keys, under : AnyId, fallback : SUBSET Keys,
               fallbackUnder : AnyId, plain : BOOLEAN, private : BOOLEAN]
Loaded == [key : Keys \cup {"garbled"}, under : {NoId}, fallback : SUBSET (Keys \cup {"garbled"}),
           fallbackUnder : {NoId}, plain : BOOLEAN]

\* The process is at one of its stages, files and entries are what they can be.
BootTypeOK ==
  /\ pc \in Stages /\ flag \in BOOLEAN /\ id \in Ids
  /\ conf \in {Absent, Partial} \cup WholeFiles
  /\ net \subseteq {"address", "route"} /\ echo \in BOOLEAN /\ wpa \in BOOLEAN
  /\ entry \in Entries /\ saved \in Entries /\ running \in Loaded
  /\ faults \in 0..MaxFaults

TypeOK == BootTypeOK /\ ClientTypeOK

(***************************************************************************)
(* Behind the flag there is the whole configuration the user entered last, *)
(* readable by its owner only, wherever the process was killed and however *)
(* often the wizard ran (save_config, and the flag main writes after it).  *)
(***************************************************************************)
FlagMeansSaved ==
  flag =>
    /\ conf.state = "whole" /\ conf.private
    /\ conf.key = saved.key /\ conf.fallback = saved.fallback /\ conf.plain = saved.plain

(***************************************************************************)
(* The terminal runs with the keys that were entered, across encryption,   *)
(* crashes and restarts, but for a key that was encrypted under another    *)
(* machine id than the present, or stored by hand, unencrypted             *)
(* (encrypt_api_key, ModelConfig::load).                                   *)
(***************************************************************************)
RunsWithSavedKeys ==
  pc = "terminal" =>
    /\ running.key = saved.key \/ conf.under # id
    /\ running.fallback = saved.fallback \/ conf.fallbackUnder # id

(***************************************************************************)
(* Once set up, the console echoes: a wizard killed while it read a key    *)
(* leaves echo off, and the next one, which has to come, puts it back      *)
(* (EchoGuard, prompt_password).                                           *)
(***************************************************************************)
SetUpMeansEcho == flag => echo

\* Nothing the program does leads from here to the prompt: each start panics
\* over an empty machine id, or fails to load what the wizard has written.
Stuck == id = "empty" \/ (flag /\ ~Loadable)

(***************************************************************************)
(* The machine gets to the prompt: refused addresses, failing tools, kills *)
(* and half-written files are recovered from, but for the two states of    *)
(* Stuck, which the code cannot leave.                                     *)
(***************************************************************************)
ReachesPrompt == <>(pc = "terminal" \/ Stuck)
===============================================================================
