----------------------------- MODULE MCUploader -----------------------------
EXTENDS Uploader

CONSTANTS w1, w2

MCWorkers == {w1, w2}

=============================================================================
