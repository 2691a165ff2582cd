----------------------------- MODULE MCRtcTimer -----------------------------
EXTENDS RtcTimer, TLC

CONSTANTS t1

MCTimer == {0, 9}
MCThread == {t1}
MCDelay == {0, 4}
MCIdleTime == {5}
=============================================================================
