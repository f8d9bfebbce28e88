---------------------------- MODULE MCSampleStore ----------------------------
(* A small instance of SampleStore and Printer for TLC.                     *)
EXTENDS Printer

CONSTANTS MinSize   \* block duration in samples, before rounding up

ASSUME SizeIsRounded == FftSize = FftSizeFor(MinSize)
=============================================================================
