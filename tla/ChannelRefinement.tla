------------------------- MODULE ChannelRefinement -------------------------
(***************************************************************************)
(* Every controller of HbmSystem is driven by ChannelProtocol: what the    *)
(* commands, queues and other channels do shows only as work, admissions   *)
(* and completions.                                                        *)
(***************************************************************************)
EXTENDS HbmProperties

TimesOf(kind, ch) ==
    {agenda[i].at : i \in {j \in DOMAIN agenda : agenda[j].kind = kind /\ agenda[j].ch = ch}}

\* More than the longest delay between two events of the instances here.
LongestDelay == 20

Protocol(ch) == INSTANCE ChannelProtocol WITH
    Delays           <- 0 .. LongestDelay,
    MaxOutstanding   <- 2 * Cardinality(Ids),
    MaxOverdue       <- MaxIdle,
    work             <- HasWork(ctl[ch]),
    outstanding      <- ctl[ch].outstanding,
    wakeup_at        <- ctl[ch].wakeup_at,
    wakes            <- TimesOf("wake", ch),
    next_refresh_due <- ctl[ch].next_refresh_due,
    refresh_due_at   <- ctl[ch].refresh_due_at,
    refreshes        <- TimesOf("refresh", ch)

\* The system's channels keep to the protocol whose wake-ups and refresh events
\* are proved never to be lost (module ChannelProtocolProofs): each one starts
\* in its initial state, and every step of the system is one of its or leaves
\* it unchanged.
KeepsProtocol ==
    /\ \A ch \in Channels : Protocol(ch)!Init
    /\ [][ \A ch \in Channels : Protocol(ch)!Next \/ UNCHANGED Protocol(ch)!vars ]_vars
=============================================================================
