----------------------------- MODULE MCServices -----------------------------
(***************************************************************************)
(* The services of the appliance beside the core: model downloads, the     *)
(* login, the chat, the installer, the mount of /data, the MCP server and  *)
(* WiFi.  They share no state that a property is about, so that a run of   *)
(* the one says nothing about the other: the variable focus, chosen        *)
(* initially, names the service that is at work, and the others rest.      *)
(***************************************************************************)
EXTENDS Download, Auth, Agent, Installer, DataMount, Mcp, WiFi

CONSTANTS dA, dB

VARIABLE focus

\* Two candidate partitions on two disks and a third one, found by scanning, on the first.
MCDiskOf == <<dA, dB, dA>>
MCLastPart == [d \in DataDisks |-> IF d = dA THEN 3 ELSE 2]

servicesVars == <<focus, dlVars, auVars, agVars, inVars, dmVars, mcVars, wfVars>>

Services == {"download", "auth", "chat", "install", "mount", "mcp", "wifi"}

\* A service that is not at work rests in one of its initial states.
ServicesInit ==
    /\ focus \in Services
    /\ DownloadInit /\ AuthInit /\ AgentInit /\ InstallInit /\ McpInit
    /\ focus # "download" => dlDest[1] # 0
    /\ dlDest[1] # 0 => dlNeed = "none"
    /\ IF focus = "mount" THEN DataMountInit
       ELSE DataMountInit /\ dmEntries = [d \in DataDisks |-> DiskEnd] /\ dmFsEnd = dmEntries
            /\ dmBackup = dmEntries /\ dmFs = [p \in Parts |-> "ext4"]
    /\ WiFiInit /\ (focus # "wifi" => wfConf = NoNets)

ServicesNext ==
    /\ UNCHANGED focus
    /\ \/ /\ focus = "download" /\ DownloadNext
          /\ UNCHANGED <<auVars, agVars, inVars, dmVars, mcVars, wfVars>>
       \/ /\ focus = "auth" /\ AuthNext
          /\ UNCHANGED <<dlVars, agVars, inVars, dmVars, mcVars, wfVars>>
       \/ /\ focus = "chat" /\ AgentNext
          /\ UNCHANGED <<dlVars, auVars, inVars, dmVars, mcVars, wfVars>>
       \/ /\ focus = "install" /\ InstallNext
          /\ UNCHANGED <<dlVars, auVars, agVars, dmVars, mcVars, wfVars>>
       \/ /\ focus = "mount" /\ DataMountNext
          /\ UNCHANGED <<dlVars, auVars, agVars, inVars, mcVars, wfVars>>
       \/ /\ focus = "mcp" /\ McpNext
          /\ UNCHANGED <<dlVars, auVars, agVars, inVars, dmVars, wfVars>>
       \/ /\ focus = "wifi" /\ WiFiNext
          /\ UNCHANGED <<dlVars, auVars, agVars, inVars, dmVars, mcVars>>

\* AutoUpgradeCheck is not enabled where the model is there, as it is when another service is
\* at work.
ServicesSpec ==
    /\ ServicesInit /\ [][ServicesNext]_servicesVars
    /\ DownloadFairness

\* The types of all services, with the limits that their loops keep to (each module says which).
ServicesTypeOK ==
    /\ DownloadTypeOK /\ AuthTypeOK /\ AgentTypeOK /\ InstallTypeOK /\ DataMountTypeOK
    /\ McpTypeOK /\ WiFiTypeOK

\* Whatever error path a background worker took: a download or an upgrade that has ended is not
\* flagged as active, so that the next one can begin, and an installation that nobody works on
\* any more is flagged as finished, so that its stream ends; `running' of the installer, which
\* is never cleared, tells nothing (start_async_download, do_auto_upgrade_check, install_worker).
WorkersAccountedFor == FlagMeansRunning /\ EndIsReported
=============================================================================
