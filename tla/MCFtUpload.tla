----------------------------- MODULE MCFtUpload -----------------------------
\* One message with files, retried, queued twice, cancelled and crashed.
EXTENDS FtUpload
=============================================================================
