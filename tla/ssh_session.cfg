SPECIFICATION FairSpec
CONSTANTS
    sbatch = sbatch
    squeue = squeue
    Callers = {sbatch, squeue}
    Scripted = {sbatch}
PROPERTIES
    ImplementsCommand
    CommandsComeBack
