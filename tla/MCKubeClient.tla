---------------------------- MODULE MCKubeClient ----------------------------
(***************************************************************************)
(* Two calls race for the cell, or the second finds it filled or closed; a *)
(* word of five bits, so that base_delay * 2^attempt and the jitter both   *)
(* run into its end within three retries.                                  *)
(***************************************************************************)
EXTENDS KubeClient

CONSTANTS a, b

Word == 31

Retry(enabled, max, base, most) ==
  [enabled |-> enabled, max_retries |-> max, base_delay_ms |-> base, max_delay_ms |-> most]

\* Few retries, none and retries that are switched off; delays at and near the
\* ends of the range.
MCSettings ==
  {Retry(TRUE, 2, 1, 4), Retry(TRUE, 0, 1, 4), Retry(FALSE, 2, 1, 4)}
  \cup {Retry(TRUE, 3, base, most) : base \in {0, 1, 5, 31}, most \in {0, 8, 30, 31}}
=============================================================================
