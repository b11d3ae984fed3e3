-------------------------- MODULE OsAgentBoot_proofs ---------------------------
(***************************************************************************)
(* What holds behind the flag, at the prompt and in a completion, for any  *)
(* keys and machine ids, any number of faults, retries and any timeout.    *)
(***************************************************************************)
EXTENDS OsAgentBoot, TLAPS

\* The stages of the wizard, which only runs before there is a flag.
Wizard == Stages \ {"off", "load", "load_fallback", "terminal"}

\* Those at which the console echoes: no prompt has it switched off.
Echoing == {"test", "fallback", "mkdir", "encrypt", "open", "write", "chmod", "flag", "load",
            "load_fallback", "terminal"}

\* The file is what was saved.
AsSaved ==
  /\ conf.state = "whole"
  /\ conf.key = saved.key /\ conf.fallback = saved.fallback /\ conf.plain = saved.plain

\* What saving has done by each of its stages, and the order of file and flag.
SavedInOrder ==
  /\ pc \in Wizard => ~flag
  /\ pc \in {"load", "load_fallback", "terminal"} => flag
  /\ pc \in {"chmod", "flag"} => AsSaved
  /\ pc = "flag" => conf.private

\* Keys are encrypted under the id there is, or was before there was one.
OldOrNew(file) ==
  file.under \in {id, "missing", NoId} /\ file.fallbackUnder \in {id, "missing", NoId}
UnderAnId == OldOrNew(entry) /\ (conf.state = "whole" => OldOrNew(conf))

\* What has been decrypted before the fallback's key is.
KeyIsLoaded == pc = "load_fallback" => running.key = saved.key \/ conf.under # id

EchoOK == (pc \in Echoing => echo) /\ SetUpMeansEcho

IInv ==
  /\ BootTypeOK /\ SavedInOrder /\ FlagMeansSaved
  /\ UnderAnId /\ KeyIsLoaded /\ RunsWithSavedKeys /\ EchoOK

-------------------------------------------------------------------------------
\* The completion

(***************************************************************************)
(* The time completions may take: while asked or idle, that of the attempts*)
(* before; otherwise that of this attempt, too.                            *)
(***************************************************************************)
ClientInv ==
  /\ ClientTypeOK
  /\ call = "idle" => elapsed = 0
  /\ call = "asked" => attempt > 0 /\ 2 * elapsed <= TwiceTimeOf(attempt) - 2 * Timeout
  /\ call \in {"pause", "answer", "error"} => attempt > 0 /\ 2 * elapsed <= TwiceTimeOf(attempt)
  /\ call = "pause" => attempt < MaxAttempts

LEMMA MaxAttemptsType == MaxAttempts \in Nat \ {0}
BY ClientAssumption DEF MaxAttempts

(***************************************************************************)
(* More attempts never take less time (complete's growing pauses).         *)
(***************************************************************************)
LEMMA TimeGrows ==
  ASSUME NEW n \in Nat, NEW m \in Nat, n <= m
  PROVE  TwiceTimeOf(n) \in Int /\ TwiceTimeOf(n) <= TwiceTimeOf(m)
<1>1. Timeout \in Nat /\ Timeout > 0
  BY ClientAssumption
<1>2. PICK d \in Nat : m = n + d
  <2>1. m - n \in Nat /\ m = n + (m - n)
    OBVIOUS
  <2> QED
    BY <2>1
<1>3. TwiceTimeOf(m) = TwiceTimeOf(n) + n * d + d * (2 * Timeout + n + d - 1)
  BY <1>1, <1>2 DEF TwiceTimeOf
<1>4. n * d >= 0 /\ d * (2 * Timeout + n + d - 1) >= 0
  BY <1>1, <1>2
<1> QED
  BY <1>1, <1>2, <1>3, <1>4 DEF TwiceTimeOf

(***************************************************************************)
(* The pause after attempt n is n: the next attempt starts in time.        *)
(***************************************************************************)
LEMMA TimeOfNext ==
  ASSUME NEW n \in Nat
  PROVE  TwiceTimeOf(n + 1) - 2 * Timeout = TwiceTimeOf(n) + 2 * n
<1>1. Timeout \in Nat
  BY ClientAssumption
<1> QED
  BY <1>1 DEF TwiceTimeOf

LEMMA ClientInvInit == ClientInit => ClientInv
BY MaxAttemptsType DEF ClientInit, ClientInv, ClientTypeOK

LEMMA ClientInvComplete ==
  ASSUME ClientInv, Complete
  PROVE  ClientInv'
<1>1. TwiceTimeOf(1) - 2 * Timeout = 0
  BY ClientAssumption DEF TwiceTimeOf
<1> QED
  BY <1>1, MaxAttemptsType DEF ClientInv, ClientTypeOK, Complete, Ask

LEMMA ClientInvStep ==
  ASSUME ClientInv, ClientStep
  PROVE  ClientInv'
<1> USE MaxAttemptsType DEF ClientInv, ClientTypeOK
<1>0. Timeout \in Nat /\ Timeout > 0 /\ TwiceTimeOf(attempt) \in Int
  BY ClientAssumption, TimeGrows
<1>1. ASSUME NEW dialect \in {"openai", "anthropic"}, Replied(dialect)
      PROVE  ClientInv'
  <2>1. PICK t \in 0..(Timeout - 1) : elapsed' = elapsed + t
    BY <1>1 DEF Replied
  <2>2. attempt' = attempt /\ 2 * elapsed' <= TwiceTimeOf(attempt)
    BY <1>0, <1>1, <2>1 DEF Replied
  <2>3. call' = "answer" \/ call' = AfterFailure
    BY <1>1 DEF Replied
  <2> QED
    BY <1>0, <1>1, <2>1, <2>2, <2>3 DEF Replied, AfterFailure
<1>2. CASE Failed
  <2>1. PICK t \in 0..Timeout : elapsed' = elapsed + t
    BY <1>2 DEF Failed
  <2>2. attempt' = attempt /\ 2 * elapsed' <= TwiceTimeOf(attempt)
    BY <1>0, <1>2, <2>1 DEF Failed
  <2> QED
    BY <1>0, <1>2, <2>1, <2>2 DEF Failed, AfterFailure
<1>3. CASE Retry
  <2>1. 2 * elapsed' <= TwiceTimeOf(attempt + 1) - 2 * Timeout
    BY <1>0, <1>3, TimeOfNext DEF Retry
  <2> QED
    BY <1>0, <1>3, <2>1 DEF Retry, Ask
<1>4. CASE Return
  BY <1>4 DEF Return
<1> QED
  BY <1>1, <1>2, <1>3, <1>4 DEF ClientStep

LEMMA ClientInvLate ==
  ASSUME ClientInv, FinishLate \/ UNCHANGED clientVars
  PROVE  ClientInv'
BY DEF ClientInv, ClientTypeOK, FinishLate, clientVars, TwiceTimeOf

LEMMA ClientInvTimely ==
  ASSUME ClientInv
  PROVE  CompletionIsTimely
<1>0. Timeout \in Nat /\ Timeout > 0 /\ MaxAttempts \in Nat
  BY ClientAssumption, MaxAttemptsType
<1>1. attempt \in Nat /\ attempt <= MaxAttempts
  BY <1>0 DEF ClientInv, ClientTypeOK
<1>2. /\ TwiceTimeOf(attempt) \in Int /\ TwiceTimeOf(MaxAttempts) \in Int
      /\ TwiceTimeOf(attempt) <= TwiceTimeOf(MaxAttempts)
      /\ 0 <= TwiceTimeOf(MaxAttempts)
  <2>1. TwiceTimeOf(0) = 0
    BY <1>0 DEF TwiceTimeOf
  <2> QED
    BY <1>0, <1>1, <2>1, TimeGrows
<1> QED
  BY <1>0, <1>1, <1>2 DEF ClientInv, ClientTypeOK, CompletionIsTimely

-------------------------------------------------------------------------------
\* From power-on to the prompt

LEMMA InitIInv == Init => IInv /\ ClientInv
<1> SUFFICES ASSUME Init PROVE IInv /\ ClientInv
  OBVIOUS
<1>1. BootTypeOK
  <2>1. faults \in 0..MaxFaults /\ Nothing \in Entries /\ Nothing \in Loaded
    BY BootAssumption DEF Init, Nothing, AnyId, Entries, Loaded
  <2> QED
    BY <2>1 DEF Init, BootTypeOK, Stages
<1>2. OldOrNew(entry)
  BY DEF Init, Nothing, OldOrNew
<1> QED
  BY <1>1, <1>2, ClientInvInit
  DEF Init, IInv, SavedInOrder, FlagMeansSaved, UnderAnId, OldOrNew,
      KeyIsLoaded, RunsWithSavedKeys, EchoOK, SetUpMeansEcho, Wizard, Echoing, Stages, Absent

(***************************************************************************)
(* The process may end anywhere with nothing but its own state lost.       *)
(***************************************************************************)
LEMMA EndIInv ==
  ASSUME IInv, pc' = "off", entry' = Nothing, running' = Nothing, KeepsDisk,
         net' = net, wpa' = wpa, echo' = echo, faults' \in 0..MaxFaults
  PROVE  IInv'
<1>1. BootTypeOK'
  BY BootAssumption
  DEF IInv, BootTypeOK, Stages, Nothing, AnyId, Entries, Loaded, KeepsDisk, diskVars
<1>2. OldOrNew(entry)'
  BY DEF Nothing, OldOrNew
<1> QED
  BY <1>1, <1>2
  DEF IInv, SavedInOrder, AsSaved, FlagMeansSaved, UnderAnId, OldOrNew,
      KeyIsLoaded, RunsWithSavedKeys, EchoOK, SetUpMeansEcho, Wizard, Echoing, Stages, KeepsDisk, diskVars

LEMMA DiesIInv ==
  ASSUME IInv, NEW from, Dies(from), KeepsHost, NoFault \/ Fault
  PROVE  IInv'
<1>1. faults' \in 0..MaxFaults
  <2>1. faults \in 0..MaxFaults
    BY DEF IInv, BootTypeOK
  <2> QED
    BY <2>1, BootAssumption DEF NoFault, Fault
<1> QED
  BY <1>1, EndIInv DEF Dies, Goto, KeepsHost, hostVars

LEMMA StartIInv ==
  ASSUME IInv, Start
  PROVE  IInv'
BY DEF Start, Goto, KeepsDisk, KeepsHost, NoFault, diskVars, hostVars,
       IInv, BootTypeOK, SavedInOrder, AsSaved, FlagMeansSaved, UnderAnId, OldOrNew,
       KeyIsLoaded, RunsWithSavedKeys, EchoOK, SetUpMeansEcho, Wizard, Echoing, Stages

(***************************************************************************)
(* A prompt changes the entry and the echo, which is back after it.        *)
(***************************************************************************)
LEMMA PromptIInv ==
  ASSUME IInv, NEW from \in Wizard, NEW to \in Wizard, Prompt(from, to),
         from # "chmod", from # "flag", to # "chmod", to # "flag",
         entry' \in Entries, OldOrNew(entry)', echo' \in BOOLEAN, to \in Echoing => echo'
  PROVE  IInv'
BY DEF Prompt, Goto, KeepsDisk, NoFault, diskVars,
       IInv, BootTypeOK, SavedInOrder, AsSaved, FlagMeansSaved, UnderAnId, OldOrNew,
       KeyIsLoaded, RunsWithSavedKeys, EchoOK, SetUpMeansEcho, Wizard, Echoing, Stages

(***************************************************************************)
(* The network's steps stay between "network" and "url" and change no file *)
(* of the agent's; of them, only the password's prompt changes the echo.   *)
(***************************************************************************)
LEMMA NetworkIInv ==
  ASSUME IInv, Network
  PROVE  IInv'
<1> DEFINE Stage == {"network", "route", "dns", "wifi_file", "wpa", "wifi", "ping", "url"}
<1>1. ASSUME NEW from \in Stage, NEW to \in Stage, NetworkStep(from, to), NoFault,
             net' \subseteq {"address", "route"}, wpa' \in BOOLEAN
      PROVE  IInv'
  BY <1>1
  DEF NetworkStep, Goto, KeepsDisk, NoFault, diskVars,
      IInv, BootTypeOK, SavedInOrder, AsSaved, FlagMeansSaved, UnderAnId, OldOrNew,
      KeyIsLoaded, RunsWithSavedKeys, EchoOK, SetUpMeansEcho, Wizard, Echoing, Stages
<1>2. /\ net \subseteq {"address", "route"} /\ wpa \in BOOLEAN /\ echo \in BOOLEAN
      /\ entry \in Entries /\ (UNCHANGED <<entry, id>> => OldOrNew(entry)')
  BY DEF IInv, BootTypeOK, UnderAnId, OldOrNew
<1>3. ASSUME NEW from \in {"network", "wifi"}, Dhcp(from)
      PROVE  IInv'
  BY <1>1, <1>2, <1>3 DEF Dhcp
<1>4. CASE StaticAddress
  BY <1>1, <1>2, <1>4 DEF StaticAddress
<1>5. CASE StaticRoute
  BY <1>1, <1>2, <1>5 DEF StaticRoute
<1>6. CASE StaticRefused
  BY <1>6, DiesIInv DEF StaticRefused
<1>7. CASE AskWifi
  BY <1>2, <1>7, PromptIInv
  DEF AskWifi, EchoOff, Prompt, KeepsDisk, diskVars, Wizard, Stages, Echoing
<1>8. CASE TypeWifi
  BY <1>2, <1>8, PromptIInv DEF TypeWifi, Prompt, KeepsDisk, diskVars, Wizard, Stages, Echoing
<1>9. CASE WriteWpa
  BY <1>1, <1>2, <1>9 DEF WriteWpa
<1>10. CASE StartWpa
  BY <1>1, <1>2, <1>10 DEF StartWpa
<1>11. CASE Ping
  BY <1>1, <1>2, <1>11 DEF Ping
<1>12. CASE WriteDns
  BY <1>1, <1>2, <1>12 DEF WriteDns
<1> QED
  BY <1>3, <1>4, <1>5, <1>6, <1>7, <1>8, <1>9, <1>10, <1>11, <1>12 DEF Network

(***************************************************************************)
(* The prompts fill the entry, and echo is back after each of them.        *)
(***************************************************************************)
LEMMA EndpointIInv ==
  ASSUME IInv, Endpoint
  PROVE  IInv'
<1>1. ASSUME NEW from \in {"url", "key", "test", "fallback", "fallback_key"},
             NEW to \in {"key", "test", "fallback", "fallback_key", "mkdir"}, Prompt(from, to),
             entry' \in Entries, OldOrNew(entry)', echo' \in BOOLEAN, to \in Echoing => echo'
      PROVE  IInv'
  BY <1>1, PromptIInv DEF Wizard, Stages
<1>2. entry \in Entries /\ OldOrNew(entry) /\ echo \in BOOLEAN /\ (pc \in Echoing => echo)
  BY DEF IInv, BootTypeOK, EchoOK, UnderAnId
<1>3. ASSUME NEW from, NEW to, Prompt(from, to),
             entry'.under = entry.under, entry'.fallbackUnder = entry.fallbackUnder
      PROVE  OldOrNew(entry)'
  BY <1>2, <1>3 DEF Prompt, KeepsDisk, diskVars, OldOrNew
<1>4. CASE AskUrl
  BY <1>1, <1>2, <1>3, <1>4 DEF AskUrl, EchoOff, Entries, Echoing
<1>5. CASE AskKey
  BY <1>1, <1>2, <1>3, <1>5 DEF AskKey, Entries, Echoing
<1>6. CASE TestApi
  BY <1>1, <1>2, <1>3, <1>6 DEF TestApi, Prompt, Goto, Echoing
<1>7. CASE AskFallback
  BY <1>1, <1>2, <1>3, <1>7 DEF AskFallback, EchoOff, Prompt, Goto, Echoing
<1>8. CASE AskFallbackKey
  BY <1>1, <1>2, <1>3, <1>8 DEF AskFallbackKey, Entries, Echoing
<1> QED
  BY <1>4, <1>5, <1>6, <1>7, <1>8 DEF Endpoint

(***************************************************************************)
(* The file is written whole before it is restricted, and both before the  *)
(* flag, from the entry the keys of which are then those saved.            *)
(***************************************************************************)
LEMMA SaveIInv ==
  ASSUME IInv, Save
  PROVE  IInv'
<1> USE DEF IInv, BootTypeOK, SavedInOrder, AsSaved, FlagMeansSaved, UnderAnId, OldOrNew,
            KeyIsLoaded, RunsWithSavedKeys, EchoOK, SetUpMeansEcho, Wizard, Echoing, Stages,
            SaveStep, Goto, KeepsHost, NoFault, hostVars
<1>0. CASE EncryptKey \/ EncryptFallback
  <2>1. /\ entry' \in Entries
        /\ entry'.under \in {entry.under, id} /\ entry'.fallbackUnder \in {entry.fallbackUnder, id}
    BY <1>0 DEF EncryptKey, EncryptFallback, Entries, AnyId
  <2>2. OldOrNew(entry)' /\ UNCHANGED <<flag, conf, saved, id, net, echo, wpa, running, faults>>
    BY <1>0, <2>1 DEF EncryptKey, EncryptFallback
  <2>3. pc \in {"mkdir", "encrypt"} /\ pc' \in {"encrypt", "open"}
    BY <1>0 DEF EncryptKey, EncryptFallback
  <2> QED
    BY <2>1, <2>2, <2>3
<1>1. CASE Truncate
  BY <1>1 DEF Truncate, Partial
<1>2. CASE WriteConfig
  <2>1. Encrypted \in WholeFiles /\ conf' = Encrypted /\ saved' = entry /\ id' = id
    BY <1>2 DEF WriteConfig, Encrypted, WholeFiles, Entries
  <2>2. /\ conf'.state = "whole" /\ conf'.key = saved'.key
        /\ conf'.fallback = saved'.fallback /\ conf'.plain = saved'.plain
        /\ conf'.under = entry.under /\ conf'.fallbackUnder = entry.fallbackUnder
    BY <2>1 DEF Encrypted
  <2> QED
    BY <1>2, <2>1, <2>2 DEF WriteConfig
<1>3. CASE RestrictConfig
  <2>1. conf \in WholeFiles
    BY <1>3 DEF RestrictConfig, Absent, Partial
  <2>2. /\ conf' \in WholeFiles /\ conf'.private
        /\ conf'.state = conf.state /\ conf'.key = conf.key /\ conf'.under = conf.under
        /\ conf'.fallback = conf.fallback /\ conf'.plain = conf.plain
        /\ conf'.fallbackUnder = conf.fallbackUnder
    BY <1>3, <2>1 DEF RestrictConfig, WholeFiles
  <2> QED
    BY <1>3, <2>2 DEF RestrictConfig
<1>4. CASE WriteFlag
  BY <1>4 DEF WriteFlag
<1>5. CASE EncryptPanics
  BY <1>5, DiesIInv DEF EncryptPanics
<1> QED
  BY <1>0, <1>1, <1>2, <1>3, <1>4, <1>5 DEF Save

(***************************************************************************)
(* Under the id it was encrypted with, a key is decrypted to what it was.  *)
(***************************************************************************)
LEMMA LoadIInv ==
  ASSUME IInv, Load \/ LoadFallback
  PROVE  IInv'
<1>1. conf \in WholeFiles /\ Loadable /\ pc \in {"load", "load_fallback"}
  BY DEF Load, LoadFallback, LoadStep, Loadable, Goto, IInv, BootTypeOK, Absent, Partial
<1>2. flag /\ conf.key = saved.key /\ conf.fallback = saved.fallback
  BY <1>1 DEF IInv, SavedInOrder, FlagMeansSaved
<1>3. UNCHANGED <<flag, conf, id, saved, net, echo, wpa, faults, entry>>
  BY DEF Load, LoadFallback, LoadStep, KeepsDisk, KeepsHost, NoFault, diskVars, hostVars
<1>4. CASE Load
  <2>1. running' \in Loaded /\ running'.key = DecryptKey(conf.key, conf.under)
    BY <1>1, <1>4, BootAssumption DEF Load, DecryptKey, WholeFiles, Loaded, Nothing
  <2>2. running'.key = saved'.key \/ conf'.under # id'
    BY <1>2, <1>3, <2>1 DEF DecryptKey
  <2> QED
    BY <1>2, <1>3, <1>4, <2>1, <2>2
    DEF Load, LoadStep, Goto, IInv, BootTypeOK, SavedInOrder, AsSaved, FlagMeansSaved, UnderAnId,
        OldOrNew, KeyIsLoaded, RunsWithSavedKeys, EchoOK, SetUpMeansEcho, Wizard, Echoing, Stages
<1>5. CASE LoadFallback
  <2>1. /\ running' \in Loaded /\ running'.key = running.key
        /\ running'.fallback = {DecryptKey(k, conf.fallbackUnder) : k \in conf.fallback}
    <3>1. running \in Loaded
      BY DEF IInv, BootTypeOK
    <3>2. {DecryptKey(k, conf.fallbackUnder) : k \in conf.fallback} \subseteq Keys \cup {"garbled"}
      BY <1>1 DEF DecryptKey, WholeFiles
    <3> QED
      BY <1>5, <3>1, <3>2 DEF LoadFallback, Loaded
  <2>2. running'.fallback = saved'.fallback \/ conf'.fallbackUnder # id'
    BY <1>2, <1>3, <2>1 DEF DecryptKey
  <2>3. running'.key = saved'.key \/ conf'.under # id'
    BY <1>3, <1>5, <2>1 DEF IInv, KeyIsLoaded, LoadFallback, LoadStep, Goto
  <2> QED
    BY <1>2, <1>3, <1>5, <2>1, <2>2, <2>3
    DEF LoadFallback, LoadStep, Goto, IInv, BootTypeOK, SavedInOrder, AsSaved, FlagMeansSaved,
        UnderAnId, OldOrNew, KeyIsLoaded, RunsWithSavedKeys, EchoOK, SetUpMeansEcho, Wizard,
        Echoing, Stages
<1> QED
  BY <1>4, <1>5

(***************************************************************************)
(* What comes from outside: ends, a new machine id, a file by hand.        *)
(***************************************************************************)
LEMMA EnvironmentIInv ==
  ASSUME IInv, Environment
  PROVE  IInv'
<1>1. CASE ToolFails
  BY <1>1, DiesIInv DEF ToolFails
<1>2. ASSUME Fault PROVE faults' \in 0..MaxFaults
  <2>1. faults \in 0..MaxFaults
    BY DEF IInv, BootTypeOK
  <2> QED
    BY <1>2, <2>1, BootAssumption DEF Fault
<1>3. CASE Kill
  BY <1>2, <1>3, EndIInv DEF Kill, KeepsHost, hostVars
<1> USE DEF IInv, BootTypeOK, SavedInOrder, AsSaved, FlagMeansSaved, UnderAnId, OldOrNew,
            KeyIsLoaded, RunsWithSavedKeys, EchoOK, SetUpMeansEcho, Wizard, Echoing, Stages
<1>4. CASE Reboot
  BY <1>2, <1>4 DEF Reboot, KeepsDisk, diskVars
<1>5. CASE MakeId
  BY <1>2, <1>5, BootAssumption DEF MakeId, KeepsHost, hostVars
<1>6. CASE EditByHand
  <2>1. PICK key \in Keys, fb \in {{}} \cup {{k} : k \in Keys} :
          /\ conf' = [state |-> "whole", key |-> key, fallback |-> fb, plain |-> TRUE,
                      under |-> NoId, fallbackUnder |-> NoId, private |-> TRUE]
          /\ saved' = [Nothing EXCEPT !.key = key, !.fallback = fb]
    BY <1>6 DEF EditByHand
  <2> fb \in SUBSET Keys
    OBVIOUS
  <2>2. conf' \in WholeFiles
    BY <2>1 DEF WholeFiles, AnyId
  <2>3. /\ saved' \in Entries
        /\ saved' = [key |-> key, under |-> NoId, fallback |-> fb, fallbackUnder |-> NoId,
                     plain |-> TRUE]
    BY <2>1 DEF Nothing, Entries, AnyId
  <2>4. UNCHANGED <<pc, flag, id, entry, running, net, echo, wpa>> /\ pc = "off"
    BY <1>6 DEF EditByHand, KeepsHost, hostVars
  <2>5. /\ conf'.state = "whole" /\ conf'.private /\ conf'.under = NoId
        /\ conf'.fallbackUnder = NoId /\ conf'.key = saved'.key /\ conf'.fallback = saved'.fallback
        /\ conf'.plain = saved'.plain
    <3>1. /\ conf'.state = "whole" /\ conf'.private /\ conf'.under = NoId
          /\ conf'.fallbackUnder = NoId /\ conf'.key = key
          /\ conf'.fallback = fb /\ conf'.plain = TRUE
      BY <2>1
    <3>2. saved'.key = key /\ saved'.fallback = fb /\ saved'.plain = TRUE
      BY <2>3
    <3> QED
      BY <3>1, <3>2
  <2>6. faults' \in 0..MaxFaults
    BY <1>2, <1>6 DEF EditByHand
  <2> QED
    BY <2>2, <2>3, <2>4, <2>5, <2>6
<1> QED
  BY <1>1, <1>3, <1>4, <1>5, <1>6 DEF Environment

LEMMA NextIInv ==
  ASSUME IInv, [Next]_vars
  PROVE  IInv'
<1> DEFINE Same == UNCHANGED bootVars
<1>1. ASSUME Same PROVE IInv'
  BY <1>1
  DEF bootVars, diskVars, hostVars, IInv, BootTypeOK, SavedInOrder, AsSaved, FlagMeansSaved,
      UnderAnId, OldOrNew, KeyIsLoaded, RunsWithSavedKeys, EchoOK, SetUpMeansEcho
<1>2. CASE LoadFails
  BY <1>2, DiesIInv DEF LoadFails
<1>3. CASE Terminal \/ UNCHANGED vars
  BY <1>1, <1>3 DEF Terminal, vars
<1> QED
  BY <1>2, <1>3, StartIInv, NetworkIInv, EndpointIInv, SaveIInv, LoadIInv, EnvironmentIInv
  DEF Next, Process

(***************************************************************************)
(* A completion goes on, is killed with its process, or is not touched.    *)
(***************************************************************************)
LEMMA NextClientInv ==
  ASSUME ClientInv, [Next]_vars
  PROVE  ClientInv'
<1>1. CASE UNCHANGED clientVars
  BY <1>1, ClientInvLate
<1>2. CASE Terminal
  BY <1>2, ClientInvComplete, ClientInvStep, ClientInvLate DEF Terminal
<1>3. CASE Kill
  BY <1>3, MaxAttemptsType DEF Kill, ClientInv, ClientTypeOK
<1>4. ASSUME ~Terminal, ~Kill PROVE UNCHANGED clientVars
  <2>1. Network => KeepsClient
    BY DEF Network, Dhcp, StaticAddress, StaticRoute, WriteDns, StaticRefused, AskWifi, TypeWifi,
           WriteWpa, StartWpa, Ping, NetworkStep, Prompt, Dies
  <2>2. Endpoint => KeepsClient
    BY DEF Endpoint, AskUrl, AskKey, TestApi, AskFallback, AskFallbackKey, Prompt
  <2>3. Save => KeepsClient
    BY DEF Save, EncryptKey, EncryptFallback, Truncate, WriteConfig, RestrictConfig, WriteFlag,
           EncryptPanics, SaveStep, Dies
  <2>4. Start \/ Load \/ LoadFallback \/ LoadFails => KeepsClient
    BY DEF Start, Load, LoadFallback, LoadStep, LoadFails, Dies
  <2>5. ToolFails \/ Reboot \/ MakeId \/ EditByHand => KeepsClient
    BY DEF ToolFails, Reboot, MakeId, EditByHand, Dies
  <2> QED
    BY <1>4, <2>1, <2>2, <2>3, <2>4, <2>5 DEF Next, Process, Environment, KeepsClient, vars
<1> QED
  BY <1>1, <1>2, <1>3, <1>4

-------------------------------------------------------------------------------

(***************************************************************************)
(* The invariant, of which the theorems are parts.                         *)
(***************************************************************************)
THEOREM Invariance == Spec => [](IInv /\ ClientInv)
<1>1. IInv /\ ClientInv /\ [Next]_vars => IInv' /\ ClientInv'
  BY NextIInv, NextClientInv
<1> QED
  BY <1>1, InitIInv, PTL DEF Spec

(***************************************************************************)
(* Every variable has its type, and no completion makes more attempts than *)
(* are configured.                                                         *)
(***************************************************************************)
THEOREM TypeCorrectness == Spec => []TypeOK
<1>1. IInv /\ ClientInv => TypeOK
  BY DEF IInv, ClientInv, TypeOK
<1> QED
  BY <1>1, Invariance, PTL

(***************************************************************************)
(* Behind the flag there is always the whole, private file of the last     *)
(* entry, for any number of kills at any place (save_config, main).        *)
(***************************************************************************)
THEOREM SavedBehindFlag == Spec => []FlagMeansSaved
<1>1. IInv => FlagMeansSaved
  BY DEF IInv
<1> QED
  BY <1>1, Invariance, PTL

(***************************************************************************)
(* The prompt is never reached with other keys than those entered, but for *)
(* files of another machine id (encrypt_api_key, ModelConfig::load).       *)
(***************************************************************************)
THEOREM KeysSurvive == Spec => []RunsWithSavedKeys
<1>1. IInv => RunsWithSavedKeys
  BY DEF IInv
<1> QED
  BY <1>1, Invariance, PTL

(***************************************************************************)
(* A machine that is set up has a console that echoes (prompt_password).   *)
(***************************************************************************)
THEOREM EchoIsBack == Spec => []SetUpMeansEcho
<1>1. IInv => SetUpMeansEcho
  BY DEF IInv, EchoOK
<1> QED
  BY <1>1, Invariance, PTL

(***************************************************************************)
(* For any retry_count and timeout_ms, a completion takes no longer than   *)
(* its attempts and the pauses between them (AiClient::complete).          *)
(***************************************************************************)
THEOREM TimelyCompletion == Spec => []CompletionIsTimely
<1>1. ClientInv => CompletionIsTimely
  BY ClientInvTimely
<1> QED
  BY <1>1, Invariance, PTL
===============================================================================
