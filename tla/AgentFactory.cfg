SPECIFICATION FactorySpec
CONSTANTS
  Instances = {i1}
INVARIANTS
  CompletedMeansStopped
  DeletedMeansStopped
