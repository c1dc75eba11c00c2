----------------------------- MODULE MCPipeline -----------------------------
EXTENDS Pipeline

CONSTANTS pods, services, ingresses, n

MCVersions == 0..MaxEvents
=============================================================================
