------------------------------ MODULE MCServices ------------------------------
(***************************************************************************)
(* One run for the services that share work between their callers and do   *)
(* not act on each other: one of them, chosen at the start, moves while    *)
(* the others stay in their initial state.                                 *)
(***************************************************************************)
EXTENDS LibraryWatcher, MediaItemLimiter, StrmProbes, TranscodeJobs, SessionCommands,
        ImageEncoding, QuickConnect, UserAccounts

VARIABLE service

serviceVars == <<service, watchVars, limiterVars, probeVars, transcodeVars, commandVars,
                 imageVars, quickConnectVars, accountVars>>

\* What a service that does not move could start with is fixed.
MCInit ==
    /\ service \in {"watcher", "limiter", "probes", "transcode", "commands", "images", "quick connect",
                   "accounts"}
    /\ WatchInit /\ LimiterInit /\ ProbesInit /\ TranscodeInit /\ CommandsInit /\ ImageInit
    /\ QuickConnectInit /\ AccountsInit
    /\ service # "watcher" => folders = {}
    /\ service # "limiter" => limit = 1
    /\ service # "images" => cached = {}

MCNext ==
    /\ UNCHANGED service
    /\ \/ /\ service = "watcher" /\ WatchNext
          /\ UNCHANGED <<limiterVars, probeVars, transcodeVars, commandVars,
                         imageVars, quickConnectVars, accountVars>>
       \/ /\ service = "limiter" /\ LimiterNext
          /\ UNCHANGED <<watchVars, probeVars, transcodeVars, commandVars,
                         imageVars, quickConnectVars, accountVars>>
       \/ /\ service = "probes" /\ ProbesNext
          /\ UNCHANGED <<watchVars, limiterVars, transcodeVars, commandVars,
                         imageVars, quickConnectVars, accountVars>>
       \/ /\ service = "transcode" /\ TranscodeNext
          /\ UNCHANGED <<watchVars, limiterVars, probeVars, commandVars,
                         imageVars, quickConnectVars, accountVars>>
       \/ /\ service = "commands" /\ CommandsNext
          /\ UNCHANGED <<watchVars, limiterVars, probeVars, transcodeVars,
                         imageVars, quickConnectVars, accountVars>>
       \/ /\ service = "images" /\ ImageNext
          /\ UNCHANGED <<watchVars, limiterVars, probeVars, transcodeVars,
                         commandVars, quickConnectVars, accountVars>>
       \/ /\ service = "quick connect" /\ QuickConnectNext
          /\ UNCHANGED <<watchVars, limiterVars, probeVars, transcodeVars,
                         commandVars, imageVars, accountVars>>
       \/ /\ service = "accounts" /\ AccountsNext
          /\ UNCHANGED <<watchVars, limiterVars, probeVars, transcodeVars,
                         commandVars, imageVars, quickConnectVars>>

MCSpec ==
    MCInit /\ [][MCNext]_serviceVars /\ WatchFairness /\ TranscodeFairness /\ ImageFairness
=============================================================================
