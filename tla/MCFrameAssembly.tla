-------------------------- MODULE MCFrameAssembly ---------------------------
EXTENDS FrameAssembly

\* Frames of different lengths, one of them longer than the buffer.
Lengths == <<3, 4, 2>>
=============================================================================
