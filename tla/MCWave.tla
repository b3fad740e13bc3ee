------------------------------ MODULE MCWave ------------------------------
(***************************************************************************)
(* Model checking of WaveGenerator with an accumulator of 64 values.  Voice *)
(* 0 is the fast one; voice 1 is synced by it; voice 2 plays noise and may be *)
(* muted or silenced.                                                       *)
(***************************************************************************)
EXTENDS WaveGenerator, TLC

Ctrl(wf, flags) == [wf |-> wf, test |-> "test" \in flags, sync |-> "sync" \in flags,
                    ring |-> "ring" \in flags]

Tuned(f, w) == [freq |-> f, width |-> w]
\* Voice 0 from slow to fast and with short, middling and long pulses.
TuningsOf ==
  {<<Tuned(f, w), Tuned(3, 40), Tuned(1, 8)>> : f \in {2, 3, 5}, w \in {0, 24, 63}}
TuningsByVoice == {[v \in 0..2 |-> t[v + 1]] : t \in TuningsOf}

SongWrites ==
  {<<0, "ctrl", Ctrl({"pulse"}, {"sync"})>>, <<0, "ctrl", Ctrl({"pulse"}, {"test"})>>,
   <<1, "ctrl", Ctrl({"pulse"}, {"sync"})>>, <<1, "ctrl", Ctrl({"noise", "tri"}, {"ring"})>>,
   <<0, "freq", 4>>,
   <<2, "ctrl", Ctrl({"noise"}, {})>>, <<2, "ctrl", Ctrl({"noise"}, {"test"})>>,
   <<2, "ctrl", Ctrl({}, {})>>,
   <<Chip, "silence", TRUE>>, <<Chip, "silence", FALSE>>}
=============================================================================
