--------------------------- MODULE MCZrtpTransport ---------------------------
\* A call with one audio thread beside the worker.
EXTENDS ZrtpTransport

MCSenders == {"audio"}
MCOffers == {{}, {"h2"}, {"h1", "h2"}}
=============================================================================
