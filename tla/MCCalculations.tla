--------------------------- MODULE MCCalculations ---------------------------
(* The sequential functions of labctl, each on its own inputs, for TLC.    *)
EXTENDS Statistics, Measurement, JsonCheck, ResponseCodec, CommandLine, Doctor

Init ==
    \/ StatisticsInit \/ MeasurementInit \/ JsonInit \/ CodecInit \/ CommandInit
    \/ DoctorInit \/ HostInit
Next ==
    \/ StatisticsNext \/ MeasurementNext \/ JsonNext \/ CodecNext \/ CommandNext
    \/ DoctorNext
Spec == Init /\ [][Next]_calcVars
=============================================================================
